---------------------------- MODULE ServicesProofs -----------------------------
(* Proofs about the two services beside the poll, for any constants.                 *)
(*                                                                                   *)
(* GeoEnrich: the invariant follows a poll from the row it has read to the row it    *)
(* writes; nobody else changes the endpoint of a peer meanwhile, only its place.     *)
(*                                                                                   *)
(* BlockCheck, in the second half: what a host probe comes back with, for replies of *)
(* any number; the order of the hosts that are due; and the verdicts, whose          *)
(* invariant carries the moves of a host seen by a refresh to the write at its end.  *)
EXTENDS GeoEnrich, BlockCheck, Sums, FiniteSetTheorems, TLAPS

(* The rows, and the poll.                                                           *)
TablesOK ==
    /\ peer \in Peer \cup {None}
    /\ event \in Event \cup {None} /\ (peer = None => event = None)
    /\ poll \in Polls

(* While a poll has not written the row, its endpoint is the one the poll has read;  *)
(* from then on there is a row.                                                      *)
PollKnows ==
    /\ poll.step \in {"upsert", "removals"} =>
          IF poll.prev = None THEN peer = None
          ELSE peer # None /\ peer.endpoint = poll.prev.endpoint
    /\ poll.step = "journal" => peer # None

(* A server has one poll or one enrichment under way, never both.                    *)
OwnWaits == poll.step # "idle" => run[Own].step = "idle"

BudgetOK ==
    /\ cache \in [Lookupable -> CacheRow \cup {None}]
    /\ slots \in 0..PerMinute /\ failures \in 0..MaxFailures

(* The lookups under way are those that some enrichment waits for.                   *)
RunsOK ==
    /\ run \in [Enrichments -> Runs]
    /\ inflight \subseteq Lookupable
    /\ inflight = UNION {run[e].calling : e \in Enrichments}
    /\ \A e \in Enrichments :
          /\ IsFiniteSet(run[e].calling) /\ Cardinality(run[e].calling) <= Concurrency
          /\ run[e].step # "resolve" => run[e].calling = {}
          /\ run[e].half # None => run[e].step = "apply"

(* What a poll has read, and what it has written, has a place of its own endpoint.   *)
PollPlaces ==
    /\ poll.prev # None => poll.prev.geo \in {None, poll.prev.endpoint}
    /\ poll.written # None => poll.written.geo \in {None, poll.written.endpoint}

IInv == TablesOK /\ PollKnows /\ OwnWaits /\ BudgetOK /\ RunsOK

LEMMA InitIInv == Init => IInv
<1> SUFFICES ASSUME Init PROVE IInv
  OBVIOUS
<1> USE DEF Init, NoRun, NoPoll
<1>1. TablesOK /\ PollKnows
  BY DEF TablesOK, PollKnows, Polls, Host
<1>2. OwnWaits
  BY DEF OwnWaits
<1>3. BudgetOK
  BY GeoAssumption DEF BudgetOK
<1>4. NoRun \in Runs
  BY GeoAssumption DEF Runs
<1>5. RunsOK
  BY <1>4, GeoAssumption, FS_EmptySet DEF RunsOK
<1> QED BY <1>1, <1>2, <1>3, <1>5 DEF IInv

--------------------------------------------------------------------------------
(* A step of one enrichment that neither begins nor ends a call.                     *)
LEMMA CallsKept ==
    ASSUME RunsOK, NEW e \in Enrichments, NEW r \in Runs,
           r.calling = run[e].calling,
           r.step # "resolve" => r.calling = {},
           r.half # None => r.step = "apply",
           run' = [run EXCEPT ![e] = r], inflight' = inflight
    PROVE  RunsOK'
<1>1. \A d \in Enrichments : run'[d].calling = run[d].calling
  BY DEF RunsOK
<1>2. {run'[d].calling : d \in Enrichments} = {run[d].calling : d \in Enrichments}
  BY <1>1
<1>3. inflight' = UNION {run'[d].calling : d \in Enrichments}
  BY <1>2 DEF RunsOK
<1> QED BY <1>1, <1>3 DEF RunsOK

(* The end of a lookup, whatever the enrichments hear of it.                         *)
LEMMA CallsReturn ==
    ASSUME RunsOK, NEW ip \in Lookupable, NEW heard \in [Enrichments -> Runs],
           \A e \in Enrichments : /\ heard[e].calling = run[e].calling
                                  /\ heard[e].step = run[e].step /\ heard[e].half = run[e].half,
           Returned(ip, heard)
    PROVE  RunsOK'
<1>1. ASSUME NEW e \in Enrichments
      PROVE  /\ run'[e] \in Runs /\ run'[e].calling = run[e].calling \ {ip}
             /\ run'[e].step = run[e].step /\ run'[e].half = run[e].half
  <2> DEFINE r == [heard[e] EXCEPT !.calling = @ \ {ip}]
  <2>0. heard[e] \in Runs /\ run[e] \in Runs /\ heard[e].calling = run[e].calling
        /\ heard[e].step = run[e].step /\ heard[e].half = run[e].half
    BY DEF RunsOK
  <2>1. r \in Runs /\ r.calling = run[e].calling \ {ip} /\ r.step = run[e].step /\ r.half = run[e].half
    BY <2>0 DEF Runs
  <2>2. run'[e] = IF ip \in run[e].calling THEN r ELSE run[e]
    BY DEF Returned
  <2>3. ip \notin run[e].calling => run[e].calling \ {ip} = run[e].calling
    OBVIOUS
  <2> HIDE DEF r
  <2> QED BY <2>0, <2>1, <2>2, <2>3
<1>2. run' \in [Enrichments -> Runs]
  <2>1. run' = [e \in Enrichments |-> run'[e]]
    BY DEF Returned
  <2> QED BY <1>1, <2>1
<1>3. inflight' = UNION {run'[e].calling : e \in Enrichments}
  <2>1. inflight' = (UNION {run[e].calling : e \in Enrichments}) \ {ip}
    BY DEF Returned, RunsOK
  <2>2. UNION {run'[e].calling : e \in Enrichments} = UNION {run[e].calling \ {ip} : e \in Enrichments}
    BY <1>1
  <2>3. UNION {run[e].calling \ {ip} : e \in Enrichments} = (UNION {run[e].calling : e \in Enrichments}) \ {ip}
    OBVIOUS
  <2> QED BY <2>1, <2>2, <2>3
<1>4. ASSUME NEW e \in Enrichments
      PROVE  IsFiniteSet(run'[e].calling) /\ Cardinality(run'[e].calling) <= Concurrency
  <2>1. IsFiniteSet(run[e].calling) /\ Cardinality(run[e].calling) <= Concurrency
    BY DEF RunsOK
  <2>2. IsFiniteSet(run[e].calling \ {ip})
        /\ Cardinality(run[e].calling \ {ip}) <= Cardinality(run[e].calling)
    BY <2>1, FS_Subset
  <2>3. Cardinality(run[e].calling) \in Nat /\ Cardinality(run[e].calling \ {ip}) \in Nat
    BY <2>1, <2>2, FS_CardinalityType
  <2>4. run'[e].calling = run[e].calling \ {ip} /\ Concurrency \in Nat
    BY <1>1, GeoAssumption
  <2>5. Cardinality(run[e].calling \ {ip}) <= Concurrency
    BY <2>1, <2>2, <2>3, <2>4
  <2> QED BY <2>2, <2>4, <2>5
<1> QED BY <1>1, <1>2, <1>3, <1>4 DEF RunsOK, Returned

(* A step of the tables that leaves the lookups alone.                               *)
LEMMA RunsStay ==
    RunsOK /\ UNCHANGED <<run, inflight>> => RunsOK'
BY DEF RunsOK

LEMMA StepRuns == IInv /\ [Next]_vars => RunsOK'
<1> SUFFICES ASSUME IInv, [Next]_vars PROVE RunsOK'
  OBVIOUS
<1> USE RunsStay DEF IInv
<1>0. /\ run \in [Enrichments -> Runs] /\ Own \in Enrichments /\ NoRun \in Runs
      /\ NoRun.calling = {} /\ NoRun.half = None /\ NoRun.step = "idle"
  BY GeoAssumption DEF RunsOK, Enrichments, NoRun, Runs
<1>a. ASSUME NEW e \in Enrichments
      PROVE  /\ run[e] \in Runs
             /\ run[e].step # "resolve" => run[e].calling = {}
             /\ run[e].half # None => run[e].step = "apply"
  BY DEF RunsOK
<1>b. ASSUME NEW e \in Enrichments, NEW ips, run[e].step = "idle", inflight' = inflight, Begin(e, ips)
      PROVE  RunsOK'
  <2> DEFINE r == [NoRun EXCEPT !.step = "resolve", !.todo = ips \cap Lookupable]
  <2>1. r \in Runs /\ r.calling = {} /\ r.step = "resolve" /\ r.half = None
    BY <1>0 DEF Runs, NoRun
  <2>2. run' = [run EXCEPT ![e] = r]
    BY <1>b DEF Begin
  <2> QED BY <1>a, <1>b, <2>1, <2>2, CallsKept
<1>1. ASSUME NEW remote \in Host, BeginPersist(remote) PROVE RunsOK'
  BY <1>1 DEF BeginPersist, geoVars
<1>2. CASE BeginPersistAbsent
  BY <1>2 DEF BeginPersistAbsent, geoVars
<1>3. CASE Upsert
  BY <1>3 DEF Upsert, geoVars
<1>4. CASE Journal
  BY <1>4 DEF Journal, geoVars
<1>5. CASE Removals
  BY <1>5 DEF Removals, geoVars
<1>6. CASE EnrichOwn
  BY <1>0, <1>b, <1>6 DEF EnrichOwn, OwnWaits
<1>7. CASE NewMinute
  BY <1>7 DEF NewMinute, MinutePasses
<1>8. ASSUME NEW e \in Others, EnrichOther(e) PROVE RunsOK'
  BY <1>b, <1>8 DEF EnrichOther, Enrichments
<1>9. ASSUME NEW ip \in Lookupable, Found(ip) PROVE RunsOK'
  <2> DEFINE heard == [e \in Enrichments |-> [run[e] EXCEPT !.resolved = @ \cup {ip}]]
  <2>1. ASSUME NEW e \in Enrichments
        PROVE  /\ heard[e] \in Runs /\ heard[e].calling = run[e].calling
               /\ heard[e].step = run[e].step /\ heard[e].half = run[e].half
    BY <1>a DEF Runs
  <2>2. heard \in [Enrichments -> Runs]
    BY <2>1
  <2>3. Returned(ip, heard)
    BY <1>9 DEF Found
  <2> HIDE DEF heard
  <2> QED BY <2>1, <2>2, <2>3, CallsReturn
<1>10. ASSUME NEW ip \in Lookupable, NotFound(ip) PROVE RunsOK'
  BY <1>0, <1>10, CallsReturn DEF NotFound
<1>11. ASSUME NEW ip \in Lookupable, RateLimited(ip) PROVE RunsOK'
  <2> DEFINE heard == [e \in Enrichments |-> [run[e] EXCEPT !.stopped = TRUE]]
  <2>1. ASSUME NEW e \in Enrichments
        PROVE  /\ heard[e] \in Runs /\ heard[e].calling = run[e].calling
               /\ heard[e].step = run[e].step /\ heard[e].half = run[e].half
    BY <1>a DEF Runs
  <2>2. heard \in [Enrichments -> Runs]
    BY <2>1
  <2>3. Returned(ip, heard)
    BY <1>11 DEF RateLimited
  <2> HIDE DEF heard
  <2> QED BY <2>1, <2>2, <2>3, CallsReturn
<1>12. ASSUME NEW ip \in Lookupable, PruneCache(ip) PROVE RunsOK'
  BY <1>12 DEF PruneCache
<1>13. ASSUME NEW e \in Enrichments, NEW ip \in Lookupable, FromCache(e, ip) PROVE RunsOK'
  <2> DEFINE r == [run[e] EXCEPT !.todo = @ \ {ip}, !.resolved = IF isKnown(ip) THEN @ \cup {ip} ELSE @]
  <2>1. /\ r \in Runs /\ r.calling = run[e].calling /\ r.step = run[e].step /\ r.half = run[e].half
        /\ run[e].step = "resolve"
    BY <1>a, <1>13 DEF Runs, FromCache, Free
  <2>2. run' = [run EXCEPT ![e] = r]
    BY <1>13 DEF FromCache
  <2>3. inflight' = inflight
    BY <1>13 DEF FromCache
  <2> HIDE DEF r
  <2> QED BY <1>a, <2>1, <2>2, <2>3, CallsKept
<1>14. ASSUME NEW e \in Enrichments, NEW ip \in Lookupable, FromApi(e, ip) PROVE RunsOK'
  <2> DEFINE r == [run[e] EXCEPT !.todo = @ \ {ip}, !.calling = @ \cup {ip}, !.calls = @ + 1]
  <2>1. /\ r \in Runs /\ r.calling = run[e].calling \cup {ip} /\ r.step = run[e].step
        /\ r.half = run[e].half /\ run[e].step = "resolve"
    <3>1. run[e] \in Runs
      BY <1>a
    <3>2. run[e].step = "resolve" /\ run[e].calls < PerTick /\ PerTick \in Nat
      BY <1>14, GeoAssumption DEF FromApi, Free, allowApi
    <3>3. run[e].calls + 1 \in 0..PerTick
      BY <3>1, <3>2 DEF Runs
    <3> QED BY <3>1, <3>2, <3>3 DEF Runs
  <2>2. run' = [run EXCEPT ![e] = r]
    BY <1>14 DEF FromApi
  <2>3. inflight' = inflight \cup {ip} /\ Cardinality(run[e].calling) < Concurrency
    BY <1>14 DEF FromApi, Free
  <2> HIDE DEF r
  <2>4. \A d \in Enrichments : run'[d] = IF d = e THEN r ELSE run[d]
    BY <1>0, <2>2
  <2>5. run' \in [Enrichments -> Runs]
    BY <1>0, <2>1, <2>2
  <2>6. inflight' = UNION {run'[d].calling : d \in Enrichments}
    <3>1. inflight = UNION {run[d].calling : d \in Enrichments}
      BY DEF RunsOK
    <3> QED BY <2>1, <2>3, <2>4, <3>1
  <2>7. IsFiniteSet(r.calling) /\ Cardinality(r.calling) <= Concurrency
    <3>1. IsFiniteSet(run[e].calling)
      BY DEF RunsOK
    <3>2. /\ IsFiniteSet(run[e].calling \cup {ip})
          /\ Cardinality(run[e].calling \cup {ip}) <= Cardinality(run[e].calling) + 1
          /\ Cardinality(run[e].calling) \in Nat /\ Cardinality(run[e].calling \cup {ip}) \in Nat
      <4>1. IsFiniteSet(run[e].calling \cup {ip})
        BY <3>1, FS_AddElement
      <4>2. Cardinality(run[e].calling) \in Nat /\ Cardinality(run[e].calling \cup {ip}) \in Nat
        BY <3>1, <4>1, FS_CardinalityType
      <4>3. Cardinality(run[e].calling \cup {ip})
            = IF ip \in run[e].calling THEN Cardinality(run[e].calling) ELSE Cardinality(run[e].calling) + 1
        BY <3>1, FS_AddElement
      <4> QED BY <4>1, <4>2, <4>3
    <3> QED BY <2>1, <2>3, <3>2, GeoAssumption
  <2> QED BY <1>a, <2>1, <2>3, <2>4, <2>5, <2>6, <2>7 DEF RunsOK
<1>15. ASSUME NEW e \in Enrichments, NEW ip \in Lookupable, ApplyToPeers(e, ip) PROVE RunsOK'
  <2> DEFINE r == [run[e] EXCEPT !.half = ip, !.resolved = @ \ {ip}]
  <2>1. /\ r \in Runs /\ r.calling = run[e].calling /\ r.step = run[e].step
        /\ run[e].step = "apply"
    BY <1>a, <1>15 DEF Runs, ApplyToPeers
  <2>2. run' = [run EXCEPT ![e] = r]
    BY <1>15 DEF ApplyToPeers
  <2>3. inflight' = inflight
    BY <1>15 DEF ApplyToPeers
  <2> HIDE DEF r
  <2> QED BY <1>a, <2>1, <2>2, <2>3, CallsKept
<1>16. ASSUME NEW e \in Enrichments, Resolved(e) PROVE RunsOK'
  <2> DEFINE r == IF run[e].resolved = {} THEN NoRun
                  ELSE [NoRun EXCEPT !.step = "apply", !.resolved = run[e].resolved]
  <2>1. /\ r \in Runs /\ r.calling = {} /\ r.half = None /\ run[e].calling = {}
    BY <1>0, <1>a, <1>16 DEF Runs, Resolved, NoRun
  <2>2. run' = [run EXCEPT ![e] = r] /\ inflight' = inflight
    BY <1>16 DEF Resolved
  <2> HIDE DEF r
  <2> QED BY <2>1, <2>2, CallsKept
<1>17. ASSUME NEW e \in Enrichments, ApplyToEvents(e) PROVE RunsOK'
  <2> DEFINE r == IF run[e].resolved = {} THEN NoRun ELSE [run[e] EXCEPT !.half = None]
  <2>1. /\ r \in Runs /\ r.calling = {} /\ r.half = None /\ run[e].calling = {}
    BY <1>0, <1>a, <1>17 DEF Runs, ApplyToEvents
  <2>2. run' = [run EXCEPT ![e] = r] /\ inflight' = inflight
    BY <1>17 DEF ApplyToEvents
  <2> HIDE DEF r
  <2> QED BY <2>1, <2>2, CallsKept
<1>18. ASSUME NEW e \in Enrichments, Late(e) PROVE RunsOK'
  <2> DEFINE r == [run[e] EXCEPT !.late = TRUE]
  <2>1. /\ r \in Runs /\ r.calling = run[e].calling /\ r.step = run[e].step /\ r.half = run[e].half
    BY <1>a DEF Runs
  <2>2. run' = [run EXCEPT ![e] = r] /\ inflight' = inflight
    BY <1>18 DEF Late
  <2> HIDE DEF r
  <2> QED BY <1>a, <2>1, <2>2, CallsKept
<1>19. CASE UNCHANGED vars
  BY <1>19 DEF vars
<1> QED BY <1>1, <1>2, <1>3, <1>4, <1>5, <1>6, <1>7, <1>8, <1>9, <1>10, <1>11, <1>12, <1>13,
           <1>14, <1>15, <1>16, <1>17, <1>18, <1>19
    DEF Next, PollStep, EnrichStep, LookupEnds
--------------------------------------------------------------------------------
LEMMA StepBudget == IInv /\ [Next]_vars => BudgetOK'
<1> SUFFICES ASSUME IInv, [Next]_vars PROVE BudgetOK'
  OBVIOUS
<1> USE DEF IInv
<1>a. BudgetOK /\ UNCHANGED <<cache, slots, failures>> => BudgetOK'
  BY DEF BudgetOK
<1>b. ASSUME NEW ip \in Lookupable, NEW row \in CacheRow \cup {None}, cache' = [cache EXCEPT ![ip] = row],
             slots' = slots, failures' \in 0..MaxFailures
      PROVE  BudgetOK'
  BY <1>b DEF BudgetOK
<1>c. Fails => failures' \in 0..MaxFailures
  BY GeoAssumption DEF Fails, BudgetOK
<1>d. [ok |-> TRUE, fresh |-> TRUE] \in CacheRow /\ [ok |-> FALSE, fresh |-> TRUE] \in CacheRow
      /\ failures \in 0..MaxFailures
  BY DEF CacheRow, BudgetOK
<1>1. CASE PollStep
  BY <1>a, <1>1 DEF PollStep, BeginPersist, BeginPersistAbsent, Upsert, Journal, Removals, EnrichOwn, geoVars
<1>2. CASE NewMinute
  <2> PICK ended \in SUBSET Expiring : MinutePasses(ended)
    BY <1>2 DEF NewMinute
  <2>1. ASSUME NEW ip \in Lookupable
        PROVE  cache'[ip] \in CacheRow \cup {None}
    <3>1. ip \in ended => cache[ip] \in CacheRow
      BY DEF Expiring, isFresh, BudgetOK
    <3>2. ip \in ended => [cache[ip] EXCEPT !.fresh = FALSE] \in CacheRow
      BY <3>1 DEF CacheRow
    <3>3. cache[ip] \in CacheRow \cup {None}
      BY DEF BudgetOK
    <3>4. cache'[ip] = IF ip \in ended THEN [cache[ip] EXCEPT !.fresh = FALSE] ELSE cache[ip]
      BY DEF MinutePasses
    <3> QED BY <3>2, <3>3, <3>4
  <2>2. cache' = [ip \in Lookupable |-> cache'[ip]]
    BY DEF MinutePasses
  <2>3. cache' \in [Lookupable -> CacheRow \cup {None}]
    BY <2>1, <2>2
  <2> QED BY <2>3, GeoAssumption DEF BudgetOK, MinutePasses
<1>3. ASSUME NEW e \in Others, EnrichOther(e) PROVE BudgetOK'
  BY <1>a, <1>3 DEF EnrichOther
<1>4. ASSUME NEW ip \in Lookupable, Found(ip) PROVE BudgetOK'
  BY <1>b, <1>d, <1>4 DEF Found, Returned
<1>5. ASSUME NEW ip \in Lookupable, NotFound(ip) PROVE BudgetOK'
  BY <1>b, <1>c, <1>d, <1>5 DEF NotFound, Returned
<1>6. ASSUME NEW ip \in Lookupable, RateLimited(ip) PROVE BudgetOK'
  BY <1>c, <1>6 DEF RateLimited, Returned, BudgetOK
<1>7. ASSUME NEW ip \in Lookupable, PruneCache(ip) PROVE BudgetOK'
  BY <1>b, <1>d, <1>7 DEF PruneCache
<1>8. ASSUME NEW e \in Enrichments, NEW ip \in Lookupable, FromApi(e, ip) PROVE BudgetOK'
  BY <1>8, GeoAssumption DEF FromApi, allowApi, BudgetOK
<1>9. ASSUME NEW e \in Enrichments, NEW ip \in Lookupable, FromCache(e, ip) \/ ApplyToPeers(e, ip)
      PROVE  BudgetOK'
  BY <1>a, <1>9 DEF FromCache, ApplyToPeers
<1>10. ASSUME NEW e \in Enrichments, Resolved(e) \/ ApplyToEvents(e) \/ Late(e) PROVE BudgetOK'
  BY <1>a, <1>10 DEF Resolved, ApplyToEvents, Late
<1>11. CASE UNCHANGED vars
  BY <1>a, <1>11 DEF vars
<1> QED BY <1>1, <1>2, <1>3, <1>4, <1>5, <1>6, <1>7, <1>8, <1>9, <1>10, <1>11
    DEF Next, EnrichStep, LookupEnds

(* The steps that leave the rows and the poll alone.                                 *)
Elsewhere == UNCHANGED <<peer, event, poll>>

TableSteps ==
    \/ PollStep
    \/ \E e \in Enrichments : ApplyToEvents(e) \/ \E ip \in Lookupable : ApplyToPeers(e, ip)

LEMMA WhoWrites == [Next]_vars => TableSteps \/ Elsewhere
<1> SUFFICES ASSUME [Next]_vars PROVE TableSteps \/ Elsewhere
  OBVIOUS
<1> USE DEF Elsewhere
<1>1. NewMinute => Elsewhere
  BY DEF NewMinute, MinutePasses
<1>2. ASSUME NEW e \in Others, EnrichOther(e) PROVE Elsewhere
  BY <1>2 DEF EnrichOther
<1>3. ASSUME NEW ip \in Lookupable, LookupEnds(ip) \/ PruneCache(ip) PROVE Elsewhere
  BY <1>3 DEF LookupEnds, Found, NotFound, RateLimited, Returned, PruneCache
<1>4. ASSUME NEW e \in Enrichments, NEW ip \in Lookupable, FromCache(e, ip) \/ FromApi(e, ip) PROVE Elsewhere
  BY <1>4 DEF FromCache, FromApi
<1>5. ASSUME NEW e \in Enrichments, Resolved(e) \/ Late(e) PROVE Elsewhere
  BY <1>5 DEF Resolved, Late
<1>6. UNCHANGED vars => Elsewhere
  BY DEF vars
<1> QED BY <1>1, <1>2, <1>3, <1>4, <1>5, <1>6 DEF Next, EnrichStep, TableSteps

LEMMA SnapshotType ==
    ASSUME NEW source \in Peer \cup {None}, NEW endpoint
    PROVE  snapshotGeo(source, endpoint) \in Geo
BY DEF snapshotGeo, Peer, Geo

LEMMA StepTables == IInv /\ [Next]_vars => TablesOK'
<1> SUFFICES ASSUME IInv, [Next]_vars PROVE TablesOK'
  OBVIOUS
<1> USE DEF IInv
<1>0. /\ peer \in Peer \cup {None} /\ event \in Event \cup {None} /\ (peer = None => event = None)
      /\ poll \in Polls /\ NoPoll \in Polls /\ [NoPoll EXCEPT !.step = "enrich"] \in Polls
  BY DEF TablesOK, Polls, NoPoll, Host
<1>1. ASSUME NEW remote \in Host, BeginPersist(remote) PROVE TablesOK'
  <2>1. (remote # None /\ event # None /\ event.endpoint = None) \in BOOLEAN
    OBVIOUS
  <2>2. poll' \in Polls
    BY <1>0, <1>1, <2>1 DEF BeginPersist, Polls, NoPoll
  <2> QED BY <1>0, <1>1, <2>2 DEF BeginPersist, TablesOK
<1>2. CASE BeginPersistAbsent
  <2>1. poll' \in Polls
    BY <1>0, <1>2 DEF BeginPersistAbsent, Polls, NoPoll
  <2> QED BY <1>0, <1>2, <2>1 DEF BeginPersistAbsent, TablesOK
<1>3. CASE Upsert
  <2>1. peer' \in Peer
    BY <1>0, <1>3 DEF Upsert, Peer, Polls, Geo
  <2>2. poll' = [poll EXCEPT !.step = "journal", !.written = peer']
    BY <1>3 DEF Upsert
  <2>3. poll' \in Polls
    BY <1>0, <2>1, <2>2 DEF Polls
  <2> QED BY <1>0, <1>3, <2>1, <2>3, NoneAssumption DEF Upsert, TablesOK
<1>4. CASE Journal
  <2>1. peer # None /\ poll.remote \in Host /\ poll.prev \in Peer \cup {None} /\ poll.written \in Peer \cup {None}
    BY <1>0, <1>4 DEF Journal, PollKnows, Polls
  <2>2. event' \in Event \cup {None}
    BY <1>0, <1>4, <2>1, SnapshotType DEF Journal, WriteEvent, FillIn, Event
  <2> QED BY <1>0, <1>4, <2>1, <2>2 DEF Journal, TablesOK
<1>5. CASE Removals
  <2>1. peer' \in Peer \cup {None}
    BY <1>0, <1>5 DEF Removals, PollKnows, Peer
  <2>2. event' \in {event, None} /\ (peer' = None => event' = None)
    <3>1. poll.step = "removals" /\ (poll.prev = None => peer = None)
      BY <1>5 DEF Removals, PollKnows
    <3>2. peer # None => [peer EXCEPT !.active = FALSE] \in Peer
      BY <1>0 DEF Peer
    <3> QED BY <1>0, <1>5, <3>1, <3>2, NoneAssumption DEF Removals, PollKnows
  <2> QED BY <1>0, <1>5, <2>1, <2>2 DEF Removals, TablesOK
<1>6. CASE EnrichOwn
  BY <1>0, <1>6 DEF EnrichOwn, TablesOK
<1>7. ASSUME NEW e \in Enrichments, NEW ip \in Lookupable, ApplyToPeers(e, ip) PROVE TablesOK'
  <2>1. peer # None => [peer EXCEPT !.geo = ip] \in Peer
    BY <1>0 DEF Peer, Geo
  <2> QED BY <1>0, <1>7, <2>1, NoneAssumption DEF ApplyToPeers, TablesOK
<1>8. ASSUME NEW e \in Enrichments, ApplyToEvents(e) PROVE TablesOK'
  <2>1. run[e].half \in Lookupable \cup {None}
    BY DEF RunsOK, Runs
  <2>2. event' \in Event \cup {None} /\ (event = None => event' = None)
    BY <1>0, <1>8, <2>1 DEF ApplyToEvents, Event, Geo
  <2> QED BY <1>0, <1>8, <2>2 DEF ApplyToEvents, TablesOK
<1>9. CASE Elsewhere
  BY <1>0, <1>9 DEF Elsewhere, TablesOK
<1> QED BY <1>1, <1>2, <1>3, <1>4, <1>5, <1>6, <1>7, <1>8, <1>9, WhoWrites DEF TableSteps, PollStep

LEMMA StepKnows == IInv /\ [Next]_vars => PollKnows'
<1> SUFFICES ASSUME IInv, [Next]_vars PROVE PollKnows'
  OBVIOUS
<1> USE DEF IInv
<1>0. peer \in Peer \cup {None} /\ poll \in Polls
  BY DEF TablesOK
<1>1. ASSUME NEW remote \in Host, BeginPersist(remote) PROVE PollKnows'
  BY <1>1 DEF BeginPersist, PollKnows, NoPoll
<1>2. CASE BeginPersistAbsent
  BY <1>2 DEF BeginPersistAbsent, PollKnows, NoPoll
<1>3. CASE Upsert
  <2>1. peer' \in Peer
    BY <1>0, <1>3 DEF Upsert, Peer, Polls, Geo
  <2>2. poll'.step = "journal"
    BY <1>0, <1>3 DEF Upsert, Polls
  <2> QED BY <2>1, <2>2, NoneAssumption DEF PollKnows
<1>4. CASE Journal
  BY <1>4 DEF Journal, PollKnows, NoPoll
<1>5. CASE Removals
  BY <1>5 DEF Removals, PollKnows, NoPoll
<1>6. CASE EnrichOwn
  BY <1>6 DEF EnrichOwn, PollKnows, NoPoll
<1>7. ASSUME NEW e \in Enrichments, NEW ip \in Lookupable, ApplyToPeers(e, ip) PROVE PollKnows'
  <2>1. peer # None => [peer EXCEPT !.geo = ip] \in Peer /\ [peer EXCEPT !.geo = ip].endpoint = peer.endpoint
    BY <1>0 DEF Peer, Geo
  <2>2. (peer' = None <=> peer = None) /\ (peer # None => peer'.endpoint = peer.endpoint) /\ poll' = poll
    BY <1>0, <1>7, <2>1, NoneAssumption DEF ApplyToPeers
  <2> QED BY <2>2 DEF PollKnows
<1>8. ASSUME NEW e \in Enrichments, ApplyToEvents(e) PROVE PollKnows'
  BY <1>8 DEF ApplyToEvents, PollKnows
<1>9. CASE Elsewhere
  BY <1>9 DEF Elsewhere, PollKnows
<1> QED BY <1>1, <1>2, <1>3, <1>4, <1>5, <1>6, <1>7, <1>8, <1>9, WhoWrites DEF TableSteps, PollStep

LEMMA StepOwn == IInv /\ [Next]_vars => OwnWaits'
<1> SUFFICES ASSUME IInv, [Next]_vars PROVE OwnWaits'
  OBVIOUS
<1> USE DEF IInv
<1>0. /\ run \in [Enrichments -> Runs] /\ Own \in Enrichments /\ Own \notin Others /\ poll \in Polls
      /\ run[Own] \in Runs
  BY GeoAssumption DEF TablesOK, RunsOK, Enrichments
<1>a. poll' = poll /\ run'[Own].step = run[Own].step => OwnWaits'
  BY DEF OwnWaits
<1>b. ASSUME NEW r, run' = [run EXCEPT ![Own] = r], poll' = poll, run[Own].step # "idle"
      PROVE  OwnWaits'
  BY <1>b DEF OwnWaits
<1>c. ASSUME NEW e \in Enrichments, e # Own, NEW r, run' = [run EXCEPT ![e] = r], poll' = poll
      PROVE  OwnWaits'
  BY <1>0, <1>a, <1>c
<1>1. CASE \E remote \in Host : BeginPersist(remote)
  BY <1>1 DEF BeginPersist, OwnWaits, geoVars
<1>2. CASE BeginPersistAbsent
  BY <1>2 DEF BeginPersistAbsent, OwnWaits, geoVars
<1>3. CASE Upsert \/ Journal \/ Removals
  BY <1>3 DEF Upsert, Journal, Removals, OwnWaits, geoVars
<1>4. CASE EnrichOwn
  BY <1>4 DEF EnrichOwn, OwnWaits, NoPoll
<1>5. CASE NewMinute
  BY <1>a, <1>5 DEF NewMinute, MinutePasses
<1>6. ASSUME NEW e \in Others, EnrichOther(e) PROVE OwnWaits'
  BY <1>0, <1>c, <1>6 DEF EnrichOther, Begin, Enrichments
<1>7. ASSUME NEW ip \in Lookupable, LookupEnds(ip) PROVE OwnWaits'
  <2>1. PICK heard : Returned(ip, heard) /\ heard[Own].step = run[Own].step /\ heard[Own] \in Runs
    <3>1. CASE Found(ip)
      <4> DEFINE heard == [e \in Enrichments |-> [run[e] EXCEPT !.resolved = @ \cup {ip}]]
      <4>1. heard[Own].step = run[Own].step /\ heard[Own] \in Runs
        BY <1>0 DEF Runs
      <4> QED BY <3>1, <4>1 DEF Found
    <3>2. CASE NotFound(ip)
      BY <1>0, <3>2 DEF NotFound
    <3>3. CASE RateLimited(ip)
      <4> DEFINE heard == [e \in Enrichments |-> [run[e] EXCEPT !.stopped = TRUE]]
      <4>1. heard[Own].step = run[Own].step /\ heard[Own] \in Runs
        BY <1>0 DEF Runs
      <4> QED BY <3>3, <4>1 DEF RateLimited
    <3> QED BY <1>7, <3>1, <3>2, <3>3 DEF LookupEnds
  <2>2. [heard[Own] EXCEPT !.calling = @ \ {ip}].step = run[Own].step
    BY <2>1 DEF Runs
  <2>3. run'[Own].step = run[Own].step /\ poll' = poll
    BY <1>0, <2>1, <2>2 DEF Returned
  <2> QED BY <1>a, <2>3
<1>8. ASSUME NEW ip \in Lookupable, PruneCache(ip) PROVE OwnWaits'
  BY <1>a, <1>8 DEF PruneCache
<1>9. ASSUME NEW e \in Enrichments, EnrichStep(e) \/ Late(e) PROVE OwnWaits'
  <2>1. run[e].step # "idle"
    BY <1>9, GeoAssumption
      DEF EnrichStep, FromCache, FromApi, Free, ApplyToPeers, Resolved, ApplyToEvents, Late, RunsOK
  <2>2. PICK r : run' = [run EXCEPT ![e] = r] /\ poll' = poll
    <3>1. ASSUME NEW ip \in Lookupable, FromCache(e, ip)
          PROVE  \E r : run' = [run EXCEPT ![e] = r] /\ poll' = poll
      BY <3>1 DEF FromCache
    <3>2. ASSUME NEW ip \in Lookupable, FromApi(e, ip)
          PROVE  \E r : run' = [run EXCEPT ![e] = r] /\ poll' = poll
      BY <3>2 DEF FromApi
    <3>3. ASSUME NEW ip \in Lookupable, ApplyToPeers(e, ip)
          PROVE  \E r : run' = [run EXCEPT ![e] = r] /\ poll' = poll
      BY <3>3 DEF ApplyToPeers
    <3>4. CASE Resolved(e)
      BY <3>4 DEF Resolved
    <3>5. CASE ApplyToEvents(e)
      BY <3>5 DEF ApplyToEvents
    <3>6. CASE Late(e)
      BY <3>6 DEF Late
    <3> QED BY <1>9, <3>1, <3>2, <3>3, <3>4, <3>5, <3>6 DEF EnrichStep
  <2> QED BY <1>b, <1>c, <2>1, <2>2
<1>10. CASE UNCHANGED vars
  BY <1>a, <1>10 DEF vars
<1> QED BY <1>1, <1>2, <1>3, <1>4, <1>5, <1>6, <1>7, <1>8, <1>9, <1>10 DEF Next, PollStep

--------------------------------------------------------------------------------
LEMMA StepIInv == IInv /\ [Next]_vars => IInv'
BY StepTables, StepKnows, StepOwn, StepBudget, StepRuns DEF IInv

LEMMA IInvTypes == IInv => TypeOK
BY DEF IInv, TablesOK, BudgetOK, RunsOK, TypeOK

(* The rows, the poll, the cache, the budget and the enrichments keep their types,   *)
(* and the lookups under way are exactly those that enrichments wait for, at most    *)
(* GEOIP_LOOKUP_CONCURRENCY of each (geoip.service.ts:24-38, 163-176).               *)
THEOREM TypesHold == Spec => []TypeOK
<1>1. Init => IInv
  BY InitIInv
<1>2. IInv /\ [Next]_vars => IInv'
  BY StepIInv
<1>3. IInv => TypeOK
  BY IInvTypes
<1> QED BY <1>1, <1>2, <1>3, PTL DEF Spec

--------------------------------------------------------------------------------
(* What snapshotGeo gives an event is the place of the endpoint of the event.        *)
LEMMA SnapshotMatches ==
    ASSUME NEW source, NEW endpoint, source # None => source.geo \in {None, source.endpoint}
    PROVE  snapshotGeo(source, endpoint) \in {None, endpoint}
BY DEF snapshotGeo, EndpointOf

Places == PollPlaces /\ GeoBelongsToEndpoint

LEMMA InitPlaces == Init => Places
BY DEF Init, NoPoll, Places, PollPlaces, GeoBelongsToEndpoint

LEMMA StepPlaces == IInv /\ Places /\ [Next]_vars => Places'
<1> SUFFICES ASSUME IInv, Places, [Next]_vars PROVE Places'
  OBVIOUS
<1> USE DEF IInv, Places
<1>0. peer \in Peer \cup {None} /\ event \in Event \cup {None} /\ poll \in Polls
  BY DEF TablesOK
<1>a. UNCHANGED <<peer, event>> => GeoBelongsToEndpoint'
  BY DEF GeoBelongsToEndpoint
<1>b. poll' = poll => PollPlaces'
  BY DEF PollPlaces
<1>c. NoPoll.prev = None /\ NoPoll.written = None
  BY DEF NoPoll
<1>1. ASSUME NEW remote \in Host, BeginPersist(remote) PROVE Places'
  <2>1. poll'.prev = peer /\ poll'.written = None
    BY <1>1 DEF BeginPersist, NoPoll
  <2> QED BY <1>1, <1>a, <2>1 DEF BeginPersist, PollPlaces, GeoBelongsToEndpoint
<1>2. CASE BeginPersistAbsent
  <2>1. poll'.prev = peer /\ poll'.written = None
    BY <1>2 DEF BeginPersistAbsent, NoPoll
  <2> QED BY <1>2, <1>a, <2>1 DEF BeginPersistAbsent, PollPlaces, GeoBelongsToEndpoint
<1>3. CASE Upsert
  <2>1. peer # None => poll.prev # None /\ peer.endpoint = EndpointOf(poll.prev)
    BY <1>3 DEF Upsert, PollKnows, EndpointOf
  <2>2. peer'.endpoint = poll.remote /\ peer'.geo \in {None, poll.remote}
    BY <1>3, <2>1 DEF Upsert, GeoBelongsToEndpoint
  <2>3. poll' = [poll EXCEPT !.step = "journal", !.written = peer'] /\ event' = event
    BY <1>3 DEF Upsert
  <2>4. poll'.prev = poll.prev /\ poll'.written = peer'
    BY <1>0, <2>3 DEF Polls
  <2> QED BY <2>2, <2>3, <2>4 DEF PollPlaces, GeoBelongsToEndpoint
<1>4. CASE Journal
  <2>1. poll'.prev = None /\ poll'.written = None
    BY <1>4 DEF Journal, NoPoll
  <2>2. event' = event \/ event' = [endpoint |-> poll.remote, geo |-> snapshotGeo(poll.prev, poll.remote)]
        \/ event' = [endpoint |-> poll.remote, geo |-> snapshotGeo(poll.written, poll.remote)]
    BY <1>4 DEF Journal, WriteEvent, FillIn
  <2>3. snapshotGeo(poll.prev, poll.remote) \in {None, poll.remote}
        /\ snapshotGeo(poll.written, poll.remote) \in {None, poll.remote}
    BY SnapshotMatches DEF PollPlaces
  <2> QED BY <1>4, <2>1, <2>2, <2>3 DEF Journal, PollPlaces, GeoBelongsToEndpoint
<1>5. CASE Removals
  <2>1. poll'.prev = None /\ poll'.written = None
    BY <1>5 DEF Removals, NoPoll
  <2>2. event' \in {event, None}
    BY <1>5 DEF Removals
  <2>3. peer' # None => peer'.geo \in {None, peer'.endpoint}
    <3>1. poll.prev # None => peer # None
      BY <1>5 DEF Removals, PollKnows
    <3>2. peer # None => /\ [peer EXCEPT !.active = FALSE].geo = peer.geo
                         /\ [peer EXCEPT !.active = FALSE].endpoint = peer.endpoint
      BY <1>0 DEF Peer
    <3> QED BY <1>5, <3>1, <3>2 DEF Removals, GeoBelongsToEndpoint
  <2> QED BY <2>1, <2>2, <2>3 DEF PollPlaces, GeoBelongsToEndpoint
<1>6. CASE EnrichOwn
  BY <1>6, <1>a, <1>c DEF EnrichOwn, PollPlaces
<1>7. ASSUME NEW e \in Enrichments, NEW ip \in Lookupable, ApplyToPeers(e, ip) PROVE Places'
  <2>1. peer # None => /\ [peer EXCEPT !.geo = ip].geo = ip
                       /\ [peer EXCEPT !.geo = ip].endpoint = peer.endpoint
    BY <1>0 DEF Peer
  <2>2. peer' # None => peer'.geo \in {None, peer'.endpoint}
    BY <1>7, <2>1 DEF ApplyToPeers, GeoBelongsToEndpoint
  <2> QED BY <1>7, <1>b, <2>2 DEF ApplyToPeers, GeoBelongsToEndpoint
<1>8. ASSUME NEW e \in Enrichments, ApplyToEvents(e) PROVE Places'
  <2> DEFINE ip == run[e].half
  <2>1. event # None => /\ [event EXCEPT !.geo = ip].geo = ip
                        /\ [event EXCEPT !.geo = ip].endpoint = event.endpoint
    BY <1>0 DEF Event
  <2>2. event' # None => event'.geo \in {None, event'.endpoint}
    BY <1>8, <2>1 DEF ApplyToEvents, GeoBelongsToEndpoint
  <2> QED BY <1>8, <1>b, <2>2 DEF ApplyToEvents, GeoBelongsToEndpoint
<1>9. CASE Elsewhere
  BY <1>9, <1>a, <1>b DEF Elsewhere
<1> QED BY <1>1, <1>2, <1>3, <1>4, <1>5, <1>6, <1>7, <1>8, <1>9, WhoWrites DEF TableSteps, PollStep

(* Whatever addresses a peer moves between, in whatever order polls, lookups and     *)
(* their results come, the place that is stored with a peer or an event is that of   *)
(* the endpoint stored with it (collector.service.ts:558-571, geoip.service.ts:243). *)
THEOREM GeoBelongsToEndpointHolds == Spec => []GeoBelongsToEndpoint
<1>1. Init => IInv /\ Places
  BY InitIInv, InitPlaces
<1>2. IInv /\ Places /\ [Next]_vars => IInv' /\ Places'
  BY StepIInv, StepPlaces
<1>3. Places => GeoBelongsToEndpoint
  BY DEF Places
<1> QED BY <1>1, <1>2, <1>3, PTL DEF Spec

--------------------------------------------------------------------------------
(* The largest number of a prefix of the numbers.                                    *)
LEMMA MaxOfPrefix ==
    ASSUME NEW n \in Nat, NEW s \in SUBSET (1..(n + 1)), n + 1 \in s
    PROVE  Max(s) = n + 1
<1>1. \A y \in s : n + 1 >= y
  OBVIOUS
<1>2. \A x \in s : (\A y \in s : x >= y) => x = n + 1
  OBVIOUS
<1> QED BY <1>1, <1>2 DEF Max

(* A set of such numbers has a largest one.                                          *)
LEMMA MaxIsIn ==
    ASSUME NEW n \in Nat, NEW s \in SUBSET (1..n), s # {}
    PROVE  Max(s) \in s
<1> DEFINE HasMax(m) == \A t \in SUBSET (1..m) : t # {} => \E x \in t : \A y \in t : x >= y
           G == {m \in Nat : HasMax(m)}
<1>1. 0 \in G
  <2>1. \A t \in SUBSET (1..0) : t = {}
    OBVIOUS
  <2> QED BY <2>1
<1>2. ASSUME NEW m \in Nat, m \in G PROVE m + 1 \in G
  <2> SUFFICES ASSUME NEW t \in SUBSET (1..(m + 1)), t # {} PROVE \E x \in t : \A y \in t : x >= y
    OBVIOUS
  <2>1. CASE m + 1 \in t
    <3>1. \A y \in t : m + 1 >= y
      OBVIOUS
    <3> QED BY <2>1, <3>1
  <2>2. CASE m + 1 \notin t
    <3>1. t \in SUBSET (1..m)
      BY <2>2
    <3> QED BY <1>2, <3>1
  <2> QED BY <2>1, <2>2
<1>3. n \in G
  <2> HIDE DEF G
  <2> QED BY <1>1, <1>2, NatInSet
<1>4. \E x \in s : \A y \in s : x >= y
  BY <1>3
<1> QED BY <1>4 DEF Max

(* A fold over the indices of a sequence, as FoldLeft defines it by MapThenFoldSet.   *)
IsIndexFold(it, base, op, n) ==
    it = [s \in SUBSET (1..n) |-> IF s = {} THEN base ELSE op[<<it[s \ {Max(s)}], Max(s)>>]]

(* Such a fold exists: a fold over one index fewer extends to it.                     *)
LEMMA IndexFoldExists ==
    ASSUME NEW K, NEW base \in K, NEW N \in Nat, NEW op \in [K \X (1..N) -> K]
    PROVE  \E it \in [SUBSET (1..N) -> K] : IsIndexFold(it, base, op, N)
<1> DEFINE HasFold(n) == \E it \in [SUBSET (1..n) -> K] : IsIndexFold(it, base, op, n)
           G == {n \in Nat : n <= N => HasFold(n)}
<1>1. 0 \in G
  <2> DEFINE it == [s \in SUBSET (1..0) |-> base]
  <2>1. \A s \in SUBSET (1..0) : s = {}
    OBVIOUS
  <2>2. it \in [SUBSET (1..0) -> K]
    OBVIOUS
  <2>3. IsIndexFold(it, base, op, 0)
    BY <2>1 DEF IsIndexFold
  <2>4. HasFold(0)
    BY <2>2, <2>3
  <2> HIDE DEF HasFold
  <2> QED BY <2>4
<1>2. ASSUME NEW n \in Nat, n \in G PROVE n + 1 \in G
  <2> SUFFICES ASSUME n + 1 <= N PROVE HasFold(n + 1)
    <3> HIDE DEF HasFold
    <3> QED OBVIOUS
  <2>0. HasFold(n)
    <3> HIDE DEF HasFold
    <3> QED BY <1>2
  <2>1. PICK less \in [SUBSET (1..n) -> K] : IsIndexFold(less, base, op, n)
    BY <2>0
  <2> DEFINE it == [s \in SUBSET (1..(n + 1)) |->
                        IF n + 1 \in s THEN op[<<less[s \ {n + 1}], n + 1>>] ELSE less[s]]
  <2>2. \A s \in SUBSET (1..(n + 1)) : s \ {n + 1} \in SUBSET (1..n) /\ (n + 1 \notin s => s \in SUBSET (1..n))
    OBVIOUS
  <2>3. it \in [SUBSET (1..(n + 1)) -> K]
    BY <2>2
  <2>4. ASSUME NEW s \in SUBSET (1..(n + 1)), n + 1 \in s
        PROVE  it[s] = IF s = {} THEN base ELSE op[<<it[s \ {Max(s)}], Max(s)>>]
    <3>1. Max(s) = n + 1
      BY <2>4, MaxOfPrefix
    <3>2. it[s \ {n + 1}] = less[s \ {n + 1}]
      BY <2>2
    <3> QED BY <2>4, <3>1, <3>2
  <2>5. ASSUME NEW s \in SUBSET (1..(n + 1)), n + 1 \notin s
        PROVE  it[s] = IF s = {} THEN base ELSE op[<<it[s \ {Max(s)}], Max(s)>>]
    <3>1. s \in SUBSET (1..n) /\ s \ {Max(s)} \in SUBSET (1..n)
      BY <2>2, <2>5
    <3>2. it[s] = less[s] /\ it[s \ {Max(s)}] = less[s \ {Max(s)}]
      BY <2>5, <3>1
    <3>3. less[s] = IF s = {} THEN base ELSE op[<<less[s \ {Max(s)}], Max(s)>>]
      BY <2>1, <3>1 DEF IsIndexFold
    <3> QED BY <3>2, <3>3
  <2>6. \A s \in SUBSET (1..(n + 1)) :
            it[s] = IF s = {} THEN base ELSE op[<<it[s \ {Max(s)}], Max(s)>>]
    BY <2>4, <2>5
  <2>7. it = [s \in SUBSET (1..(n + 1)) |-> it[s]]
    OBVIOUS
  <2> HIDE DEF it
  <2>8. IsIndexFold(it, base, op, n + 1)
    BY <2>6, <2>7 DEF IsIndexFold
  <2> QED BY <2>3, <2>8
<1>3. N \in G
  <2> HIDE DEF G
  <2> QED BY <1>1, <1>2, NatInSet
<1>4. HasFold(N)
  <2> HIDE DEF HasFold
  <2> QED BY <1>3
<1> QED BY <1>4

--------------------------------------------------------------------------------
(* dedupeProbeVotes, vote by vote.                                                   *)
LEMMA PutType == ASSUME NEW V, NEW kept \in Seq(V), NEW vote \in V PROVE Put(kept, vote) \in Seq(V)
<1> DEFINE same == {i \in DOMAIN kept : vote.probeId # Null /\ kept[i].probeId = vote.probeId}
           changed == [i \in DOMAIN kept |-> IF i \in same THEN vote ELSE kept[i]]
<1>1. Append(kept, vote) \in Seq(V)
  OBVIOUS
<1>2. changed \in Seq(V)
  <2>1. Len(kept) \in Nat /\ DOMAIN kept = 1..Len(kept) /\ \A i \in DOMAIN kept : kept[i] \in V
    OBVIOUS
  <2>2. changed \in [1..Len(kept) -> V]
    BY <2>1
  <2> HIDE DEF changed
  <2> QED BY <2>1, <2>2
<1>3. Put(kept, vote) = IF same = {} THEN Append(kept, vote) ELSE changed
  BY DEF Put
<1> QED BY <1>1, <1>2, <1>3

IsKeptFold(it, votes) ==
    it = [s \in SUBSET (DOMAIN votes) |->
             IF s = {} THEN <<>> ELSE Put(it[s \ {Max(s)}], votes[Max(s)])]

(* What dedupeProbeVotes is, once its fold is written out.                           *)
LEMMA DedupeUnfolded ==
    ASSUME NEW votes
    PROVE  dedupeProbeVotes(votes) = (CHOOSE it : IsKeptFold(it, votes))[DOMAIN votes]
BY DEF dedupeProbeVotes, FoldLeft, MapThenFoldSet, IsKeptFold

(* It is the last of a chain of votes kept so far.                                   *)
LEMMA KeptChain ==
    ASSUME NEW V, NEW votes \in Seq(V)
    PROVE  \E kept \in [0..Len(votes) -> Seq(V)] :
               /\ kept[0] = <<>>
               /\ \A k \in 0..(Len(votes) - 1) : kept[k + 1] = Put(kept[k], votes[k + 1])
               /\ dedupeProbeVotes(votes) = kept[Len(votes)]
<1> DEFINE N == Len(votes)
           K == Seq(V)
           op == [p \in K \X (1..N) |-> Put(p[1], votes[p[2]])]
<1>1. N \in Nat /\ DOMAIN votes = 1..N /\ (\A i \in 1..N : votes[i] \in V) /\ <<>> \in K
  OBVIOUS
<1>2. op \in [K \X (1..N) -> K]
  <2>1. \A p \in K \X (1..N) : p[1] \in K /\ p[2] \in 1..N /\ votes[p[2]] \in V
    BY <1>1
  <2>2. \A p \in K \X (1..N) : Put(p[1], votes[p[2]]) \in K
    BY <2>1, PutType
  <2> HIDE DEF K, N
  <2> QED BY <2>2
<1>3. PICK fold \in [SUBSET (1..N) -> K] : IsIndexFold(fold, <<>>, op, N)
  <2> HIDE DEF K, N, op
  <2> QED BY <1>1, <1>2, IndexFoldExists
<1>4. ASSUME NEW s \in SUBSET (1..N), s # {}
      PROVE  Max(s) \in 1..N /\ s \ {Max(s)} \in SUBSET (1..N)
  <2>2. Max(s) \in s
    BY <1>1, <1>4, MaxIsIn
  <2> QED BY <2>2
<1>5. \A s \in SUBSET (1..N) : fold[s] = IF s = {} THEN <<>> ELSE Put(fold[s \ {Max(s)}], votes[Max(s)])
  <2>1. SUFFICES ASSUME NEW s \in SUBSET (1..N), s # {} PROVE fold[s] = Put(fold[s \ {Max(s)}], votes[Max(s)])
    BY <1>3 DEF IsIndexFold
  <2>2. fold[s] = op[<<fold[s \ {Max(s)}], Max(s)>>]
    BY <1>3, <2>1 DEF IsIndexFold
  <2>3. <<fold[s \ {Max(s)}], Max(s)>> \in K \X (1..N)
    <3> HIDE DEF K, N
    <3> QED BY <1>3, <1>4, <2>1
  <2> HIDE DEF K, N
  <2> QED BY <2>2, <2>3
<1>6. IsKeptFold(fold, votes)
  <2>1. fold = [s \in SUBSET (1..N) |-> fold[s]]
    OBVIOUS
  <2> QED BY <1>1, <1>5, <2>1 DEF IsKeptFold
<1>7. PICK it : IsKeptFold(it, votes) /\ dedupeProbeVotes(votes) = it[1..N]
  <2>1. IsKeptFold(CHOOSE it : IsKeptFold(it, votes), votes)
    BY <1>6
  <2> QED BY <2>1, <1>1, DedupeUnfolded
<1> DEFINE kept == [k \in 0..N |-> it[1..k]]
<1>8. kept[0] = <<>>
  <2>1. 1..0 = {} /\ {} \in SUBSET (1..N)
    OBVIOUS
  <2>2. it[{}] = <<>>
    BY <1>1, <1>7, <2>1 DEF IsKeptFold
  <2> QED BY <1>1, <2>1, <2>2
<1>9. ASSUME NEW k \in 0..(N - 1) PROVE kept[k + 1] = Put(kept[k], votes[k + 1])
  <2>1. k \in Nat /\ 1..(k + 1) \in SUBSET (1..N) /\ k + 1 \in 1..(k + 1) /\ (1..(k + 1)) \ {k + 1} = 1..k
    BY <1>1
  <2>2. Max(1..(k + 1)) = k + 1
    BY <2>1, MaxOfPrefix
  <2>3. it[1..(k + 1)] = Put(it[1..k], votes[k + 1])
    BY <1>1, <1>7, <2>1, <2>2 DEF IsKeptFold
  <2>4. k \in 0..N /\ k + 1 \in 0..N
    BY <1>1
  <2> QED BY <2>3, <2>4
<1>10. kept \in [0..N -> K]
  <2> DEFINE G == {k \in Nat : k <= N => kept[k] \in K}
  <2> HIDE DEF K, N, kept
  <2>1. 0 \in G
    BY <1>1, <1>8
  <2>2. ASSUME NEW k \in Nat, k \in G PROVE k + 1 \in G
    <3>1. SUFFICES ASSUME k + 1 <= N PROVE kept[k + 1] \in K
      OBVIOUS
    <3>2. k \in 0..(N - 1) /\ kept[k] \in K /\ votes[k + 1] \in V
      BY <1>1, <2>2, <3>1
    <3>3. Put(kept[k], votes[k + 1]) \in K
      BY <3>2, PutType DEF K
    <3> QED BY <1>9, <3>2, <3>3
  <2>3. \A k \in Nat : k \in G
    <3> HIDE DEF G
    <3> QED BY <2>1, <2>2, NatInSet
  <2>4. \A k \in 0..N : kept[k] \in K
    BY <1>1, <2>3
  <2>5. kept = [k \in 0..N |-> kept[k]]
    BY DEF kept
  <2> QED BY <2>4, <2>5
<1>11. dedupeProbeVotes(votes) = kept[N]
  BY <1>1, <1>7
<1> HIDE DEF kept
<1> QED BY <1>8, <1>9, <1>10, <1>11

--------------------------------------------------------------------------------
(* What is kept are the last replies, each in one place.                             *)
LastIn(votes, n) ==
    {i \in 1..n : votes[i].probeId = Null \/ \A j \in 1..n : j > i => votes[j].probeId # votes[i].probeId}

IndexesLast(g, kept, votes, n) ==
    /\ g \in [1..Len(kept) -> LastIn(votes, n)]
    /\ \A k, l \in 1..Len(kept) : g[k] = g[l] => k = l
    /\ \A i \in LastIn(votes, n) : \E k \in 1..Len(kept) : g[k] = i
    /\ \A k \in 1..Len(kept) : kept[k] = votes[g[k]]

(* One more reply takes the place of an earlier one of its scanner, or a new one.    *)
LEMMA PutPlaces ==
    ASSUME NEW V, NEW votes \in Seq(V), NEW n \in Nat, n + 1 <= Len(votes), NEW kept \in Seq(V),
           NEW g, IndexesLast(g, kept, votes, n)
    PROVE  \E h : IndexesLast(h, Put(kept, votes[n + 1]), votes, n + 1)
<1> DEFINE L == Len(kept)
           vote == votes[n + 1]
           same == {i \in DOMAIN kept : vote.probeId # Null /\ kept[i].probeId = vote.probeId}
<1>1. L \in Nat /\ DOMAIN kept = 1..L /\ \A i \in 1..L : kept[i] \in V
  OBVIOUS
<1>2. Put(kept, vote) = IF same = {} THEN Append(kept, vote)
                        ELSE [i \in DOMAIN kept |-> IF i \in same THEN vote ELSE kept[i]]
  BY DEF Put
<1>3. \A k \in 1..L : g[k] \in LastIn(votes, n) /\ g[k] \in 1..n /\ g[k] # n + 1 /\ kept[k] = votes[g[k]]
  BY <1>1 DEF IndexesLast, LastIn
<1>4. n + 1 \in LastIn(votes, n + 1)
  BY DEF LastIn
<1>5. \A i \in LastIn(votes, n + 1) : i = n + 1 \/ i \in LastIn(votes, n)
  BY DEF LastIn
<1>6. CASE same = {}
  <2> DEFINE h == [k \in 1..(L + 1) |-> IF k = L + 1 THEN n + 1 ELSE g[k]]
             app == Append(kept, vote)
  <2>1. Put(kept, vote) = app /\ Len(app) = L + 1 /\ app[L + 1] = vote /\ \A k \in 1..L : app[k] = kept[k]
    BY <1>1, <1>2, <1>6
  <2>2. ASSUME NEW k \in 1..L PROVE g[k] \in LastIn(votes, n + 1)
    <3>1. vote.probeId = Null \/ kept[k].probeId # vote.probeId
      BY <1>1, <1>6
    <3>2. votes[g[k]].probeId = Null \/ vote.probeId # votes[g[k]].probeId
      BY <1>3, <3>1
    <3>3. g[k] \in LastIn(votes, n)
      BY <1>3
    <3> HIDE DEF same
    <3> QED BY <3>2, <3>3 DEF LastIn
  <2>3. h \in [1..(L + 1) -> LastIn(votes, n + 1)]
    BY <1>1, <1>4, <2>2
  <2>0. h[L + 1] = n + 1 /\ L + 1 \in 1..(L + 1)
        /\ (\A k \in 1..L : k \in 1..(L + 1) /\ h[k] = g[k])
        /\ \A k \in 1..(L + 1) : k \in 1..L \/ k = L + 1
    BY <1>1
  <2>4. \A k, l \in 1..(L + 1) : h[k] = h[l] => k = l
    <3> HIDE DEF h
    <3>1. \A k, l \in 1..L : g[k] = g[l] => k = l
      BY DEF IndexesLast
    <3> QED BY <2>0, <3>1, <1>3
  <2>5. \A i \in LastIn(votes, n + 1) : \E k \in 1..(L + 1) : h[k] = i
    <3> HIDE DEF h
    <3> QED BY <1>5, <2>0 DEF IndexesLast
  <2>6. \A k \in 1..(L + 1) : app[k] = votes[h[k]]
    BY <1>1, <1>3, <2>1
  <2> HIDE DEF h, app
  <2>7. IndexesLast(h, app, votes, n + 1)
    BY <2>1, <2>3, <2>4, <2>5, <2>6 DEF IndexesLast
  <2> QED BY <2>1, <2>7
<1>7. CASE same # {}
  <2> DEFINE h == [k \in 1..L |-> IF k \in same THEN n + 1 ELSE g[k]]
             put == [i \in DOMAIN kept |-> IF i \in same THEN vote ELSE kept[i]]
  <2>0. PICK m \in 1..L : m \in same
    BY <1>1, <1>7
  <2>1. ASSUME NEW k \in same PROVE k = m
    <3>1. votes[g[k]].probeId = vote.probeId /\ votes[g[m]].probeId = vote.probeId /\ vote.probeId # Null
          /\ k \in 1..L
      BY <1>1, <1>3, <2>0, <2>1
    <3>2. g[k] \in LastIn(votes, n) /\ g[m] \in LastIn(votes, n) /\ g[k] \in 1..n /\ g[m] \in 1..n
      BY <1>3, <2>0, <3>1
    <3>3. ~(g[k] > g[m]) /\ ~(g[m] > g[k])
      BY <3>1, <3>2 DEF LastIn
    <3>4. g[k] = g[m]
      <4> DEFINE x == g[k] 
                 y == g[m]
      <4>1. x \in Int /\ y \in Int /\ ~(x > y) /\ ~(y > x)
        BY <3>2, <3>3
      <4> HIDE DEF x, y
      <4>2. x = y
        BY <4>1
      <4> QED BY <4>2 DEF x, y
    <3> QED BY <2>0, <3>1, <3>4 DEF IndexesLast
  <2>2. same = {m}
    BY <2>0, <2>1
  <2>3. Len(put) = L /\ Put(kept, vote) = put /\ put[m] = vote /\ \A k \in 1..L : k # m => put[k] = kept[k]
    <3>1. put \in Seq(V)
      <4>1. Put(kept, vote) = put
        BY <1>2, <1>7
      <4>2. vote \in V
        OBVIOUS
      <4> HIDE DEF put, vote
      <4> QED BY <4>1, <4>2, PutType
    <3>2. Len(put) \in Nat /\ DOMAIN put = 1..Len(put) /\ DOMAIN put = 1..L
      <4> HIDE DEF put
      <4>1. Len(put) \in Nat /\ DOMAIN put = 1..Len(put)
        BY <3>1
      <4>2. DOMAIN put = 1..L
        BY <1>1 DEF put
      <4> QED BY <4>1, <4>2
    <3>3. Len(put) = L
      <4> DEFINE M == Len(put)
      <4>1. M \in Nat /\ L \in Nat /\ 1..M = 1..L
        BY <1>1, <3>2
      <4> HIDE DEF put, M, L
      <4>2. M = L
        BY <4>1
      <4> QED BY <4>2 DEF M
    <3> QED BY <1>1, <1>2, <1>7, <2>0, <2>2, <3>3
  <2>4. ASSUME NEW k \in 1..L, k # m PROVE g[k] \in LastIn(votes, n + 1)
    <3>1. vote.probeId = Null \/ kept[k].probeId # vote.probeId
      BY <1>1, <2>1, <2>4
    <3>2. votes[g[k]].probeId = Null \/ vote.probeId # votes[g[k]].probeId
      BY <1>3, <3>1
    <3> QED BY <1>3, <3>2 DEF LastIn
  <2> HIDE DEF same
  <2>5. h \in [1..L -> LastIn(votes, n + 1)]
    BY <1>1, <1>4, <2>2, <2>4
  <2>6. \A k, l \in 1..L : h[k] = h[l] => k = l
    BY <1>1, <1>3, <2>2 DEF IndexesLast
  <2>7. ASSUME NEW i \in LastIn(votes, n + 1) PROVE \E k \in 1..L : h[k] = i
    <3>1. CASE i = n + 1
      BY <2>0, <3>1
    <3>2. CASE i \in LastIn(votes, n)
      <4>1. PICK k \in 1..L : g[k] = i
        BY <3>2 DEF IndexesLast
      <4>2. k # m
        <5>1. SUFFICES ASSUME k = m PROVE FALSE
          OBVIOUS
        <5>2. votes[i].probeId = vote.probeId /\ vote.probeId # Null
          BY <1>3, <2>0, <4>1, <5>1 DEF same
        <5>3. i \in 1..n
          BY <3>2 DEF LastIn
        <5> QED BY <5>2, <5>3 DEF LastIn
      <4> QED BY <2>2, <4>1, <4>2
    <3> QED BY <1>5, <3>1, <3>2
  <2>8. \A k \in 1..L : put[k] = votes[h[k]]
    <3> HIDE DEF put
    <3> QED BY <1>3, <2>2, <2>3
  <2> HIDE DEF h, put
  <2>9. IndexesLast(h, put, votes, n + 1)
    BY <2>3, <2>5, <2>6, <2>7, <2>8 DEF IndexesLast
  <2> QED BY <2>3, <2>9
<1> QED BY <1>6, <1>7

(* dedupeProbeVotes keeps the last replies.                                          *)
LEMMA KeptAreLast ==
    ASSUME NEW V, NEW votes \in Seq(V)
    PROVE  /\ dedupeProbeVotes(votes) \in Seq(V)
           /\ \E g : IndexesLast(g, dedupeProbeVotes(votes), votes, Len(votes))
<1> DEFINE N == Len(votes)
<1>0. N \in Nat
  OBVIOUS
<1>1. PICK kept \in [0..N -> Seq(V)] :
          /\ kept[0] = <<>>
          /\ \A k \in 0..(N - 1) : kept[k + 1] = Put(kept[k], votes[k + 1])
          /\ dedupeProbeVotes(votes) = kept[N]
  BY KeptChain
<1> DEFINE Placed(k) == \E g : IndexesLast(g, kept[k], votes, k)
           G == {k \in Nat : k <= N => Placed(k)}
<1>2. 0 \in G
  <2>1. IndexesLast(<<>>, kept[0], votes, 0)
    BY <1>1 DEF IndexesLast, LastIn
  <2> QED BY <2>1
<1>3. ASSUME NEW k \in Nat, k \in G PROVE k + 1 \in G
  <2> SUFFICES ASSUME k + 1 <= N PROVE Placed(k + 1)
    OBVIOUS
  <2>1. k \in 0..(N - 1) /\ kept[k] \in Seq(V) /\ kept[k + 1] = Put(kept[k], votes[k + 1])
    BY <1>0, <1>1
  <2>2. PICK g : IndexesLast(g, kept[k], votes, k)
    BY <1>0, <1>3
  <2>3. \E h : IndexesLast(h, Put(kept[k], votes[k + 1]), votes, k + 1)
    BY <2>1, <2>2, PutPlaces
  <2> QED BY <2>1, <2>3
<1>4. N \in G
  <2> HIDE DEF G
  <2> QED BY <1>0, <1>2, <1>3, NatInSet
<1>5. Placed(N)
  BY <1>0, <1>4
<1> QED BY <1>0, <1>1, <1>5

(* The votes that are kept are counted like the last replies.                        *)
LEMMA KeptCounts ==
    ASSUME NEW V, NEW votes \in Seq(V), NEW isStaticCdn
    PROVE  /\ Len(dedupeProbeVotes(votes)) = Cardinality(LastReplies(votes))
           /\ \A kind : VotesFor(kind, dedupeProbeVotes(votes), isStaticCdn) = Naming(kind, votes, isStaticCdn)
<1> DEFINE kept == dedupeProbeVotes(votes)
           L == Len(kept)
           Latest == LastReplies(votes)
<1>1. kept \in Seq(V) /\ \E g : IndexesLast(g, kept, votes, Len(votes))
  BY KeptAreLast
<1>2. PICK g : IndexesLast(g, kept, votes, Len(votes))
  BY <1>1
<1>3. LastIn(votes, Len(votes)) = Latest
  <2>1. DOMAIN votes = 1..Len(votes)
    OBVIOUS
  <2> QED BY <2>1 DEF LastIn, LastReplies
<1> HIDE DEF kept, Latest
<1>4. L \in Nat /\ DOMAIN kept = 1..L
  BY <1>1
<1>5. /\ g \in [1..L -> Latest]
      /\ \A k, l \in 1..L : g[k] = g[l] => k = l
      /\ \A i \in Latest : \E k \in 1..L : g[k] = i
      /\ \A k \in 1..L : kept[k] = votes[g[k]]
  BY <1>2, <1>3 DEF IndexesLast
<1>6. ASSUME NEW A \in SUBSET (1..L), NEW B \in SUBSET Latest, \A k \in 1..L : k \in A <=> g[k] \in B
      PROVE  Cardinality(A) = Cardinality(B)
  <2> DEFINE h == [k \in A |-> g[k]]
  <2>1. h \in [A -> B] /\ \A k \in A : k \in 1..L /\ h[k] = g[k]
    BY <1>5, <1>6
  <2>2. \A k, l \in A : h[k] = h[l] => k = l
    BY <1>5, <2>1
  <2>3. \A i \in B : \E k \in A : h[k] = i
    BY <1>5, <1>6, <2>1
  <2> HIDE DEF h
  <2>4. h \in Bijection(A, B)
    BY <2>1, <2>2, <2>3 DEF Bijection, Injection, Surjection, IsInjective
  <2>5. IsFiniteSet(1..L)
    BY <1>4, FS_Interval
  <2>6. IsFiniteSet(A) /\ ExistsBijection(A, B)
    BY <2>4, <2>5, FS_Subset DEF ExistsBijection
  <2> QED BY <2>6, FS_Bijection
<1>7. L = Cardinality(Latest)
  <2>1. Cardinality(1..L) = L
    <3> HIDE DEF L
    <3>1. Cardinality(1..L) = IF 1 > L THEN 0 ELSE L - 1 + 1
      BY <1>4, FS_Interval
    <3> QED BY <1>4, <3>1
  <2>2. \A k \in 1..L : g[k] \in Latest
    BY <1>5
  <2>3. Cardinality(1..L) = Cardinality(Latest)
    BY <1>6, <2>2
  <2> QED BY <2>1, <2>3
<1>8. ASSUME NEW kind PROVE VotesFor(kind, kept, isStaticCdn) = Naming(kind, votes, isStaticCdn)
  <2> DEFINE A == {k \in DOMAIN kept : chosenDisplayVerdict(kept[k], isStaticCdn) = kind}
             B == {i \in Latest : chosenDisplayVerdict(votes[i], isStaticCdn) = kind}
  <2>1. A \in SUBSET (1..L) /\ B \in SUBSET Latest
    BY <1>4
  <2>2. \A k \in 1..L : k \in A <=> g[k] \in B
    BY <1>4, <1>5
  <2>3. VotesFor(kind, kept, isStaticCdn) = Cardinality(A) /\ Naming(kind, votes, isStaticCdn) = Cardinality(B)
    BY DEF VotesFor, Naming, Latest
  <2> HIDE DEF A, B
  <2> QED BY <1>6, <2>1, <2>2, <2>3
<1> QED BY <1>7, <1>8 DEF kept, Latest

--------------------------------------------------------------------------------
(* selectProbeVerdict, kind by kind.                                                 *)
PriorityLen == 7

BetterOf(best, kind, votes, isStaticCdn) ==
    IF VotesFor(kind, votes, isStaticCdn) > best.votes
    THEN [kind |-> kind, votes |-> VotesFor(kind, votes, isStaticCdn)]
    ELSE best

IsBestFold(it, votes, isStaticCdn) ==
    it = [s \in SUBSET (DOMAIN VERDICT_PRIORITY) |->
             IF s = {} THEN [kind |-> Null, votes |-> 0]
             ELSE BetterOf(it[s \ {Max(s)}], VERDICT_PRIORITY[Max(s)], votes, isStaticCdn)]

WinnerOf(votes, isStaticCdn) ==
    (CHOOSE it : IsBestFold(it, votes, isStaticCdn))[DOMAIN VERDICT_PRIORITY].kind

(* What selectProbeVerdict is, once its fold is written out.                         *)
LEMMA SelectUnfolded ==
    ASSUME NEW votes, NEW isStaticCdn
    PROVE  selectProbeVerdict(votes, isStaticCdn) =
               IF WinnerOf(votes, isStaticCdn) = "uncertain" THEN Null ELSE WinnerOf(votes, isStaticCdn)
BY DEF selectProbeVerdict, FoldLeft, MapThenFoldSet, IsBestFold, WinnerOf, BetterOf

(* The list of priorities names kinds only.                                          *)
LEMMA Priorities ==
    /\ DOMAIN VERDICT_PRIORITY = 1..PriorityLen /\ PriorityLen \in Nat
    /\ \A i \in 1..PriorityLen : VERDICT_PRIORITY[i] \in Kinds
    /\ Null \notin Kinds
<1>1. DOMAIN VERDICT_PRIORITY = 1..PriorityLen /\ PriorityLen \in Nat
  BY DEF VERDICT_PRIORITY, PriorityLen
<1> QED BY <1>1, QueryAssumption DEF Kinds

(* Votes are counted.                                                                *)
LEMMA VotesForType ==
    ASSUME NEW V, NEW votes \in Seq(V), NEW kind, NEW isStaticCdn
    PROVE  VotesFor(kind, votes, isStaticCdn) \in Nat
<1>1. IsFiniteSet(DOMAIN votes)
  <2>1. DOMAIN votes = 1..Len(votes) /\ Len(votes) \in Nat
    OBVIOUS
  <2> QED BY <2>1, FS_Interval
<1>2. IsFiniteSet({i \in DOMAIN votes : chosenDisplayVerdict(votes[i], isStaticCdn) = kind})
  BY <1>1, FS_Subset
<1> QED BY <1>2, FS_CardinalityType DEF VotesFor

(* The winner is the last of a chain of the best so far.                             *)
LEMMA BestChain ==
    ASSUME NEW V, NEW votes \in Seq(V), NEW isStaticCdn
    PROVE  \E best \in [0..PriorityLen -> [kind : Kinds \cup {Null}, votes : Nat]] :
               /\ best[0] = [kind |-> Null, votes |-> 0]
               /\ \A k \in 0..(PriorityLen - 1) :
                      best[k + 1] = BetterOf(best[k], VERDICT_PRIORITY[k + 1], votes, isStaticCdn)
               /\ WinnerOf(votes, isStaticCdn) = best[PriorityLen].kind
<1> DEFINE N == PriorityLen
           base == [kind |-> Null, votes |-> 0]
           K == [kind : Kinds \cup {Null}, votes : Nat]
           op == [p \in K \X (1..N) |-> BetterOf(p[1], VERDICT_PRIORITY[p[2]], votes, isStaticCdn)]
<1>1. N \in Nat /\ DOMAIN VERDICT_PRIORITY = 1..N /\ (\A i \in 1..N : VERDICT_PRIORITY[i] \in Kinds) /\ base \in K
  BY Priorities
<1>t. ASSUME NEW b \in K, NEW i \in 1..N PROVE BetterOf(b, VERDICT_PRIORITY[i], votes, isStaticCdn) \in K
  <2>1. VotesFor(VERDICT_PRIORITY[i], votes, isStaticCdn) \in Nat
    BY VotesForType
  <2> QED BY <1>1, <2>1 DEF BetterOf
<1>2. op \in [K \X (1..N) -> K]
  <2>1. \A p \in K \X (1..N) : p[1] \in K /\ p[2] \in 1..N
    BY <1>1
  <2>2. \A p \in K \X (1..N) : BetterOf(p[1], VERDICT_PRIORITY[p[2]], votes, isStaticCdn) \in K
    BY <1>t, <2>1
  <2> HIDE DEF K, N
  <2> QED BY <2>2
<1>3. PICK fold \in [SUBSET (1..N) -> K] : IsIndexFold(fold, base, op, N)
  <2> HIDE DEF K, N, op, base
  <2> QED BY <1>1, <1>2, IndexFoldExists
<1>5. \A s \in SUBSET (1..N) : fold[s] = IF s = {} THEN base
                               ELSE BetterOf(fold[s \ {Max(s)}], VERDICT_PRIORITY[Max(s)], votes, isStaticCdn)
  <2>1. SUFFICES ASSUME NEW s \in SUBSET (1..N), s # {}
                 PROVE  fold[s] = BetterOf(fold[s \ {Max(s)}], VERDICT_PRIORITY[Max(s)], votes, isStaticCdn)
    BY <1>3 DEF IsIndexFold
  <2>2. fold[s] = op[<<fold[s \ {Max(s)}], Max(s)>>]
    BY <1>3, <2>1 DEF IsIndexFold
  <2>3. <<fold[s \ {Max(s)}], Max(s)>> \in K \X (1..N)
    <3> HIDE DEF K, N
    <3>1. Max(s) \in 1..N /\ s \ {Max(s)} \in SUBSET (1..N)
      BY <1>1, <2>1, MaxIsIn
    <3> QED BY <1>3, <3>1
  <2> HIDE DEF K, N
  <2> QED BY <2>2, <2>3
<1> HIDE DEF op
<1>6. IsBestFold(fold, votes, isStaticCdn)
  <2>1. fold = [s \in SUBSET (1..N) |-> fold[s]]
    OBVIOUS
  <2> HIDE DEF N, K
  <2> QED BY <1>1, <1>5, <2>1 DEF IsBestFold
<1>7. PICK it : IsBestFold(it, votes, isStaticCdn) /\ WinnerOf(votes, isStaticCdn) = it[1..N].kind
  <2>1. IsBestFold(CHOOSE it : IsBestFold(it, votes, isStaticCdn), votes, isStaticCdn)
    BY <1>6
  <2> QED BY <2>1, <1>1 DEF WinnerOf
<1> DEFINE best == [k \in 0..N |-> it[1..k]]
<1>8. best[0] = base
  <2>1. 1..0 = {} /\ {} \in SUBSET (1..N)
    OBVIOUS
  <2>2. it[{}] = base
    BY <1>1, <1>7, <2>1 DEF IsBestFold
  <2> QED BY <1>1, <2>1, <2>2
<1>9. ASSUME NEW k \in 0..(N - 1)
      PROVE  best[k + 1] = BetterOf(best[k], VERDICT_PRIORITY[k + 1], votes, isStaticCdn)
  <2> HIDE DEF N
  <2>1. k \in Nat /\ 1..(k + 1) \in SUBSET (1..N) /\ k + 1 \in 1..(k + 1) /\ (1..(k + 1)) \ {k + 1} = 1..k
    BY <1>1
  <2>2. Max(1..(k + 1)) = k + 1
    BY <2>1, MaxOfPrefix
  <2>3. it[1..(k + 1)] = BetterOf(it[1..k], VERDICT_PRIORITY[k + 1], votes, isStaticCdn)
    BY <1>1, <1>7, <2>1, <2>2 DEF IsBestFold
  <2>4. k \in 0..N /\ k + 1 \in 0..N
    BY <1>1
  <2> QED BY <2>3, <2>4
<1>10. best \in [0..N -> K]
  <2> DEFINE G == {k \in Nat : k <= N => best[k] \in K}
  <2> HIDE DEF K, N, best
  <2>1. 0 \in G
    BY <1>1, <1>8
  <2>2. ASSUME NEW k \in Nat, k \in G PROVE k + 1 \in G
    <3>1. SUFFICES ASSUME k + 1 <= N PROVE best[k + 1] \in K
      OBVIOUS
    <3>2. k \in 0..(N - 1) /\ best[k] \in K /\ k + 1 \in 1..N
      BY <1>1, <2>2, <3>1
    <3> QED BY <1>9, <1>t, <3>2
  <2>3. \A k \in Nat : k \in G
    <3> HIDE DEF G
    <3> QED BY <2>1, <2>2, NatInSet
  <2>4. \A k \in 0..N : best[k] \in K
    BY <1>1, <2>3
  <2>5. best = [k \in 0..N |-> best[k]]
    BY DEF best
  <2> QED BY <2>4, <2>5
<1>11. WinnerOf(votes, isStaticCdn) = best[N].kind
  BY <1>1, <1>7
<1> HIDE DEF best
<1> QED BY <1>8, <1>9, <1>10, <1>11

(* The winner is the first of the kinds with the most votes.                         *)
IsFirstMost(i, count) ==
    count[i] > 0 /\ \A j \in 1..PriorityLen : count[i] >= count[j] /\ (j < i => count[i] > count[j])

LEMMA WinnerIsFirstMost ==
    ASSUME NEW V, NEW votes \in Seq(V), NEW isStaticCdn, NEW count \in [1..PriorityLen -> Nat],
           \A i \in 1..PriorityLen : count[i] = VotesFor(VERDICT_PRIORITY[i], votes, isStaticCdn)
    PROVE  \/ WinnerOf(votes, isStaticCdn) = Null /\ \A i \in 1..PriorityLen : count[i] = 0
           \/ \E i \in 1..PriorityLen : WinnerOf(votes, isStaticCdn) = VERDICT_PRIORITY[i] /\ IsFirstMost(i, count)
<1> DEFINE N == PriorityLen
           P == VERDICT_PRIORITY
<1>0. N \in Nat
  BY Priorities
<1>1. PICK best \in [0..N -> [kind : Kinds \cup {Null}, votes : Nat]] :
          /\ best[0] = [kind |-> Null, votes |-> 0]
          /\ \A k \in 0..(N - 1) : best[k + 1] = BetterOf(best[k], P[k + 1], votes, isStaticCdn)
          /\ WinnerOf(votes, isStaticCdn) = best[N].kind
  BY BestChain
<1> DEFINE Leads(k) ==
               /\ \A j \in 1..k : best[k].votes >= count[j]
               /\ best[k].votes = 0 => best[k].kind = Null
               /\ best[k].votes > 0 =>
                     \E i \in 1..k : /\ best[k].kind = P[i] /\ best[k].votes = count[i]
                                     /\ \A j \in 1..k : j < i => count[i] > count[j]
           G == {k \in Nat : k <= N => Leads(k)}
<1> HIDE DEF N, P
<1>2. 0 \in G
  BY <1>1
<1>3. ASSUME NEW k \in Nat, k \in G PROVE k + 1 \in G
  <2> SUFFICES ASSUME k + 1 <= N PROVE Leads(k + 1)
    OBVIOUS
  <2>1. k \in 0..(N - 1) /\ k + 1 \in 1..N /\ k \in 0..N
    BY <1>0
  <2>2. best[k].votes \in Nat /\ count[k + 1] \in Nat /\ \A j \in 1..k : count[j] \in Nat
    BY <1>0, <1>1, <2>1 DEF N
  <2>3. Leads(k)
    BY <1>0, <1>3
  <2>4. best[k + 1] = IF count[k + 1] > best[k].votes THEN [kind |-> P[k + 1], votes |-> count[k + 1]] ELSE best[k]
    BY <1>1, <2>1 DEF BetterOf, N, P
  <2>5. CASE count[k + 1] > best[k].votes
    <3>1. best[k + 1].kind = P[k + 1] /\ best[k + 1].votes = count[k + 1]
      BY <2>4, <2>5
    <3>2. \A j \in 1..k : count[k + 1] > count[j]
      BY <2>2, <2>3, <2>5
    <3>3. \A j \in 1..(k + 1) : j \in 1..k \/ j = k + 1
      OBVIOUS
    <3> QED BY <2>2, <2>5, <3>1, <3>2, <3>3
  <2>6. CASE ~(count[k + 1] > best[k].votes)
    <3>1. best[k + 1] = best[k]
      BY <2>4, <2>6
    <3>2. \A j \in 1..(k + 1) : j \in 1..k \/ j = k + 1
      OBVIOUS
    <3>3. \A j \in 1..(k + 1) : best[k + 1].votes >= count[j]
      BY <2>2, <2>3, <2>6, <3>1, <3>2
    <3>4. ASSUME best[k + 1].votes > 0
          PROVE  \E i \in 1..(k + 1) : /\ best[k + 1].kind = P[i] /\ best[k + 1].votes = count[i]
                                       /\ \A j \in 1..(k + 1) : j < i => count[i] > count[j]
      <4>1. PICK i \in 1..k : /\ best[k].kind = P[i] /\ best[k].votes = count[i]
                              /\ \A j \in 1..k : j < i => count[i] > count[j]
        BY <2>3, <3>1, <3>4
      <4>2. i \in 1..(k + 1) /\ ~(k + 1 < i)
        OBVIOUS
      <4> QED BY <3>1, <3>2, <4>1, <4>2
    <3> QED BY <2>3, <3>1, <3>3, <3>4
  <2> QED BY <2>5, <2>6
<1>4. Leads(N)
  <2> HIDE DEF Leads
  <2>1. N \in G
    <3> HIDE DEF G
    <3> QED BY <1>0, <1>2, <1>3, NatInSet
  <2> QED BY <1>0, <2>1
<1>5. best[N].votes \in Nat /\ \A j \in 1..N : count[j] \in Nat
  BY <1>0, <1>1 DEF N
<1>6. CASE best[N].votes = 0
  BY <1>1, <1>4, <1>5, <1>6 DEF N
<1>7. CASE best[N].votes > 0
  <2>1. PICK i \in 1..N : /\ best[N].kind = P[i] /\ best[N].votes = count[i]
                          /\ \A j \in 1..N : j < i => count[i] > count[j]
    BY <1>4, <1>7
  <2>2. IsFirstMost(i, count)
    BY <1>4, <1>7, <2>1 DEF IsFirstMost, N
  <2> QED BY <1>1, <2>1, <2>2 DEF N, P
<1> QED BY <1>5, <1>6, <1>7

(* Of the votes that are kept, the program chooses what the last replies mostly name. *)
LEMMA ChosenIsMostNamed ==
    ASSUME NEW V, NEW votes \in Seq(V), NEW isStaticCdn
    PROVE  \E kind \in Kinds \cup {Null} :
               /\ selectProbeVerdict(dedupeProbeVotes(votes), isStaticCdn)
                      = IF kind = "uncertain" THEN Null ELSE kind
               /\ MostNamed(votes, isStaticCdn) = IF kind = Null THEN {} ELSE {kind}
<1> DEFINE kept == dedupeProbeVotes(votes)
           N == PriorityLen
           P == VERDICT_PRIORITY
           count == [j \in 1..N |-> Naming(P[j], votes, isStaticCdn)]
           winner == WinnerOf(kept, isStaticCdn)
<1>1. kept \in Seq(V)
  BY KeptAreLast
<1>2. \A kind : Naming(kind, votes, isStaticCdn) = VotesFor(kind, kept, isStaticCdn)
                /\ VotesFor(kind, kept, isStaticCdn) \in Nat
  <2> HIDE DEF kept
  <2>1. \A kind : VotesFor(kind, kept, isStaticCdn) \in Nat
    BY <1>1, VotesForType
  <2> QED BY <2>1, KeptCounts DEF kept
<1>3. count \in [1..N -> Nat] /\ \A i \in 1..N : count[i] = VotesFor(P[i], kept, isStaticCdn)
  <2> HIDE DEF kept, P, N
  <2> QED BY <1>2
<1> HIDE DEF kept
<1>4. \/ winner = Null /\ \A i \in 1..N : count[i] = 0
      \/ \E i \in 1..N : winner = P[i] /\ IsFirstMost(i, count)
  <2> HIDE DEF count
  <2> QED BY <1>1, <1>3, WinnerIsFirstMost
<1>5. MostNamed(votes, isStaticCdn) = {P[i] : i \in {i \in 1..N : IsFirstMost(i, count)}}
  <2>1. \A i \in 1..N :
            IsFirstMost(i, count) <=> \A j \in 1..N : /\ count[i] > 0 /\ count[i] >= count[j]
                                                      /\ j < i => count[i] > count[j]
    <3>1. N \in Nat /\ \A i \in 1..N : i \in 1..N
      BY Priorities
    <3> HIDE DEF count
    <3> QED BY <3>1 DEF IsFirstMost
  <2>2. MostNamed(votes, isStaticCdn)
            = {P[i] : i \in {i \in 1..N : \A j \in 1..N : /\ count[i] > 0 /\ count[i] >= count[j]
                                                          /\ j < i => count[i] > count[j]}}
    BY Priorities DEF MostNamed
  <2> HIDE DEF count, P, N
  <2> QED BY <2>1, <2>2
<1> HIDE DEF count
<1>6. selectProbeVerdict(kept, isStaticCdn) = IF winner = "uncertain" THEN Null ELSE winner
  BY SelectUnfolded
<1>7. winner \in Kinds \cup {Null} /\ MostNamed(votes, isStaticCdn) = IF winner = Null THEN {} ELSE {winner}
  <2> HIDE DEF winner, N, P
  <2>1. CASE winner = Null /\ \A i \in 1..N : count[i] = 0
    BY <1>5, <2>1 DEF IsFirstMost
  <2>2. CASE \E i \in 1..N : winner = P[i] /\ IsFirstMost(i, count)
    <3>1. PICK i \in 1..N : winner = P[i] /\ IsFirstMost(i, count)
      BY <2>2
    <3>2. ASSUME NEW j \in 1..N, IsFirstMost(j, count) PROVE j = i
      <4>1. \A k \in 1..N : count[k] \in Nat
        BY <1>3
      <4>2. N \in Nat /\ i \in Int /\ j \in Int
        BY Priorities DEF N
      <4>3. ~(i < j) /\ ~(j < i)
        BY <3>1, <3>2, <4>1 DEF IsFirstMost, N
      <4> QED BY <4>2, <4>3
    <3>3. MostNamed(votes, isStaticCdn) = {winner}
      BY <1>5, <3>1, <3>2
    <3>4. winner \in Kinds /\ winner # Null
      BY <3>1, Priorities DEF N, P
    <3> QED BY <3>3, <3>4
  <2> QED BY <1>4, <2>1, <2>2
<1> QED BY <1>6, <1>7 DEF kept

(* Of no votes nothing is chosen.                                                    *)
LEMMA NothingChosen ==
    ASSUME NEW isStaticCdn PROVE selectProbeVerdict(<<>>, isStaticCdn) = Null
<1> DEFINE count == [j \in 1..PriorityLen |-> 0]
<1>1. \A kind : VotesFor(kind, <<>>, isStaticCdn) = 0
  <2>1. \A kind : {i \in DOMAIN <<>> : chosenDisplayVerdict(<<>>[i], isStaticCdn) = kind} = {}
    OBVIOUS
  <2> QED BY <2>1, FS_EmptySet DEF VotesFor
<1>2. count \in [1..PriorityLen -> Nat] /\ \A i \in 1..PriorityLen : count[i] = 0
  OBVIOUS
<1> HIDE DEF count
<1>3. \A i \in 1..PriorityLen : count[i] = VotesFor(VERDICT_PRIORITY[i], <<>>, isStaticCdn)
  BY <1>1, <1>2
<1>4. <<>> \in Seq({})
  OBVIOUS
<1>5. \/ WinnerOf(<<>>, isStaticCdn) = Null
      \/ \E i \in 1..PriorityLen : IsFirstMost(i, count)
  BY <1>2, <1>3, <1>4, WinnerIsFirstMost
<1>6. \A i \in 1..PriorityLen : ~IsFirstMost(i, count)
  BY <1>2 DEF IsFirstMost
<1>7. WinnerOf(<<>>, isStaticCdn) = Null
  BY <1>5, <1>6
<1> QED BY <1>7, SelectUnfolded

(* The kinds: open, blocking, and "uncertain".                                       *)
LEMMA KindSets ==
    /\ Null \notin OpenKinds /\ Null \notin BlockKinds /\ "uncertain" \notin OpenKinds \cup BlockKinds
    /\ OpenKinds \cap BlockKinds = {}
    /\ Kinds = OpenKinds \cup BlockKinds \cup {"uncertain"}
<1>1. Kinds = {VERDICT_PRIORITY[i] : i \in 1..7}
  BY Priorities DEF Kinds, PriorityLen
<1>2. 1..7 = {1, 2, 3, 4, 5, 6, 7}
  OBVIOUS
<1>3. Kinds = {"tspu_block", "sni_block", "dns_spoofing", "whitelist", "cdn_block", "ok", "uncertain"}
  BY <1>1, <1>2 DEF VERDICT_PRIORITY
<1> QED BY <1>3, Priorities DEF OpenKinds, BlockKinds

(* The status, from the kind that won.                                               *)
LEMMA BadgeOf ==
    ASSUME NEW body, body.registryBlocked \in BOOLEAN, NEW votes, NEW kind \in Kinds \cup {Null},
           selectProbeVerdict(votes, body.isStaticCdn) = IF kind = "uncertain" THEN Null ELSE kind
    PROVE  resolveBadgeStatus(body, votes) =
               IF kind \in OpenKinds THEN "unrestricted"
               ELSE IF kind \in BlockKinds \/ body.registryBlocked THEN "blocked" ELSE "unknown"
<1>1. Null \notin Kinds
  BY Priorities
<1>2. Null \notin OpenKinds /\ Null \notin BlockKinds /\ "uncertain" \notin OpenKinds \cup BlockKinds
  BY KindSets
<1> DEFINE winner == selectProbeVerdict(votes, body.isStaticCdn)
<1>3. winner \in OpenKinds <=> kind \in OpenKinds
  BY <1>1, <1>2
<1>4. winner \in BlockKinds <=> kind \in BlockKinds
  BY <1>1, <1>2
<1>5. resolveBadgeStatus(body, votes) =
          IF winner \in OpenKinds THEN "unrestricted"
          ELSE IF winner \in BlockKinds \/ body.registryBlocked THEN "blocked" ELSE "unknown"
  BY DEF resolveBadgeStatus
<1> HIDE DEF winner
<1> QED BY <1>3, <1>4, <1>5

(* Streams are sequences of replies, and the votes that count are all of them or      *)
(* the last ones.                                                                    *)
LEMMA StreamType ==
    ASSUME NEW stream \in Stream
    PROVE  /\ stream.votes \in Seq(Replies) /\ stream.done \in BOOLEAN
           /\ ~stream.done => stream.responseCount = Null
           /\ stream.responseCount \in Nat \cup {Null} /\ stream.code \in Nat
<1>1. SeqOf(Replies, MaxReplies) \subseteq Seq(Replies)
  <2>1. SUFFICES ASSUME NEW m \in 0..MaxReplies, NEW votes \in [1..m -> Replies] PROVE votes \in Seq(Replies)
    BY DEF SeqOf
  <2> QED BY QueryAssumption
<1>2. Counts \subseteq Nat \cup {Null}
  BY QueryAssumption DEF Counts
<1>3. <<>> \in Seq(Replies)
  OBVIOUS
<1>4. Null \in Nat \cup {Null}
  OBVIOUS
<1> SUFFICES /\ stream.votes \in Seq(Replies) /\ stream.done \in BOOLEAN
             /\ ~stream.done => stream.responseCount = Null
             /\ stream.responseCount \in Nat \cup {Null}
  <2>1. stream.code \in {0, 200, 429, 500}
    BY DEF Stream
  <2>2. stream.code \in Nat
    BY <2>1
  <2> QED BY <2>2
<1>5. CASE stream \in [code : {0, 429, 500}, votes : {<<>>}, done : {FALSE}, responseCount : {Null}]
  BY <1>3, <1>4, <1>5
<1>6. CASE stream \in [code : {200}, votes : SeqOf(Replies, MaxReplies), done : {FALSE}, responseCount : {Null}]
  BY <1>1, <1>4, <1>6
<1>7. CASE stream \in [code : {200}, votes : SeqOf(Replies, MaxReplies), done : {TRUE}, responseCount : Counts]
  BY <1>1, <1>2, <1>7
<1> QED BY <1>5, <1>6, <1>7 DEF Stream

(* Whatever the check and the stream, of whatever length, the status is the one that  *)
(* the last reply of each scanner justifies, and there is none if the stream broke    *)
(* off or replies are missing (client.ts:261-284, verdict.ts, probe-stream.ts).       *)
THEOREM QueryFollowsReferenceHolds == QueryFollowsReference
<1> SUFFICES ASSUME NEW body \in [registryBlocked : BOOLEAN, isStaticCdn : BOOLEAN, id : {"accepted"}],
                    NEW stream \in Stream
             PROVE  LET status == queryCheburcheck([code |-> 200, body |-> body], stream).status
                        isWhole == stream.done /\ (stream.responseCount # Null
                                        => stream.responseCount <= Cardinality(LastReplies(stream.votes)))
                        most == MostNamed(stream.votes, body.isStaticCdn)
                    IN  /\ Cardinality(most) <= 1
                        /\ (status = "unrestricted") <=> (isWhole /\ most \cap OpenKinds # {})
                        /\ (status = "blocked") <=>
                              \/ isWhole /\ most \cap BlockKinds # {}
                              \/ body.registryBlocked /\ isWhole /\ most \subseteq {"uncertain"}
                              \/ body.registryBlocked /\ ~stream.done /\ stream.votes = <<>>
  BY DEF QueryFollowsReference
<1> DEFINE check == [code |-> 200, body |-> body]
           status == queryCheburcheck(check, stream).status
           most == MostNamed(stream.votes, body.isStaticCdn)
           last == Cardinality(LastReplies(stream.votes))
           kept == dedupeProbeVotes(stream.votes)
<1>1. body # Null /\ body.id = "accepted" /\ body.registryBlocked \in BOOLEAN
  <2>1. body \in Body
    BY DEF Body
  <2> QED BY <2>1, BodyAssumption
<1>2. queryCheburcheck(check, stream) = WithProbe(body, stream)
  BY <1>1 DEF queryCheburcheck, NeedsProbe
<1>3. /\ stream.votes \in Seq(Replies) /\ stream.done \in BOOLEAN
      /\ ~stream.done => stream.responseCount = Null
      /\ stream.responseCount \in Nat \cup {Null}
  BY StreamType
<1>4. PICK kind \in Kinds \cup {Null} :
          /\ selectProbeVerdict(kept, body.isStaticCdn) = IF kind = "uncertain" THEN Null ELSE kind
          /\ most = IF kind = Null THEN {} ELSE {kind}
  BY <1>3, ChosenIsMostNamed
<1>5. Len(kept) = last
  BY <1>3, KeptCounts
<1>6. Cardinality(most) <= 1
  <2>1. Cardinality({kind}) = 1 /\ Cardinality({}) = 0
    BY FS_Singleton, FS_EmptySet
  <2> HIDE DEF most
  <2> QED BY <1>4, <2>1
<1>7. resolveBadgeStatus(body, kept) =
          IF kind \in OpenKinds THEN "unrestricted"
          ELSE IF kind \in BlockKinds \/ body.registryBlocked THEN "blocked" ELSE "unknown"
  <2> HIDE DEF kept
  <2> QED BY <1>1, <1>4, BadgeOf
<1>8. resolveBadgeStatus(body, <<>>) = IF body.registryBlocked THEN "blocked" ELSE "unknown"
  <2>1. selectProbeVerdict(<<>>, body.isStaticCdn) = IF Null = "uncertain" THEN Null ELSE Null
    BY NothingChosen
  <2>2. Null \notin OpenKinds /\ Null \notin BlockKinds
    BY KindSets
  <2> QED BY <1>1, <2>1, <2>2, BadgeOf
<1>9. Null # "unrestricted" /\ Null # "blocked"
  BY QueryAssumption
<1> HIDE DEF check, most, last, kept
<1>10. CASE ~stream.done
  <2>1. ~reportedRepliesExceedParsed(Len(stream.votes), stream.responseCount)
    BY <1>3, <1>10 DEF reportedRepliesExceedParsed
  <2>2. status = IF stream.votes # <<>> \/ ~body.registryBlocked THEN Null ELSE "blocked"
    BY <1>2, <1>8, <1>10, <2>1 DEF WithProbe, Keep
  <2> HIDE DEF status
  <2> QED BY <1>6, <1>9, <1>10, <2>2 DEF most, status, check
<1>11. CASE stream.done
  <2> DEFINE isWhole == stream.responseCount # Null => stream.responseCount <= last
  <2>1. last \in Nat
    <3>1. kept \in Seq(Replies)
      BY <1>3, KeptAreLast DEF kept
    <3> QED BY <1>5, <3>1
  <2>2. reportedRepliesExceedParsed(Len(kept), stream.responseCount) <=> ~isWhole
    BY <1>3, <1>5, <2>1 DEF reportedRepliesExceedParsed
  <2> HIDE DEF isWhole
  <2>3. status = IF ~isWhole THEN Null
                 ELSE IF kind \in OpenKinds THEN "unrestricted"
                 ELSE IF kind \in BlockKinds \/ body.registryBlocked THEN "blocked" ELSE Null
    BY <1>2, <1>7, <1>11, <2>2 DEF WithProbe, Keep, kept
  <2>4. /\ most \cap OpenKinds # {} <=> kind \in OpenKinds
        /\ most \cap BlockKinds # {} <=> kind \in BlockKinds
        /\ most \subseteq {"uncertain"} <=> kind \notin OpenKinds /\ kind \notin BlockKinds
    BY <1>4, KindSets
  <2>5. ~(kind \in OpenKinds /\ kind \in BlockKinds)
    BY KindSets
  <2> HIDE DEF status
  <2>6. /\ (status = "unrestricted") <=> (isWhole /\ most \cap OpenKinds # {})
        /\ (status = "blocked") <=> \/ isWhole /\ most \cap BlockKinds # {}
                                    \/ body.registryBlocked /\ isWhole /\ most \subseteq {"uncertain"}
    BY <1>9, <2>3, <2>4, <2>5
  <2> QED BY <1>6, <1>11, <2>6 DEF isWhole, most, status, check, last
<1> QED BY <1>3, <1>10, <1>11

--------------------------------------------------------------------------------
(* Sooner orders the hosts that are due.                                             *)
LEMMA SoonerOrders ==
    ASSUME NEW known, NEW D \in SUBSET Hosts, \A h \in D : known[h] \in HostBlockState
    PROVE  /\ \A g \in D : ~Sooner(known, g, g)
           /\ \A g, h \in D : g # h => Sooner(known, g, h) \/ Sooner(known, h, g)
           /\ \A f, g, h \in D : Sooner(known, f, g) /\ Sooner(known, g, h) => Sooner(known, f, h)
<1> DEFINE age(h) == known[h].age
<1>1. \A h \in D : h \in Int /\ (age(h) = Null \/ age(h) \in Int)
  <2>1. ASSUME NEW h \in D PROVE age(h) \in 0..MaxAge \/ age(h) = Null
    BY DEF HostBlockState, Age
  <2>2. \A h \in D : h \in Nat
    BY CheckAssumption
  <2> HIDE DEF age
  <2> QED BY <2>1, <2>2
<1>2. \A g, h : Sooner(known, g, h) <=>
          \/ age(g) = Null /\ age(h) # Null
          \/ age(g) # Null /\ age(h) # Null /\ age(g) > age(h)
          \/ age(g) = age(h) /\ g < h
  BY DEF Sooner
<1> HIDE DEF age
<1>3. \A g \in D : ~Sooner(known, g, g)
  BY <1>1, <1>2
<1>4. \A g, h \in D : g # h => Sooner(known, g, h) \/ Sooner(known, h, g)
  BY <1>1, <1>2
<1>5. \A f, g, h \in D : Sooner(known, f, g) /\ Sooner(known, g, h) => Sooner(known, f, h)
  BY <1>1, <1>2
<1> QED BY <1>3, <1>4, <1>5

IsInOrder(known, order) == \A i, j \in DOMAIN order : i < j => Sooner(known, order[i], order[j])

(* So some host comes last ...                                                       *)
LEMMA LastHost ==
    ASSUME NEW known, NEW D \in SUBSET Hosts, \A h \in D : known[h] \in HostBlockState, D # {}
    PROVE  \E m \in D : \A h \in D \ {m} : Sooner(known, h, m)
<1> DEFINE HasLast(T) == \E m \in T : \A h \in T \ {m} : Sooner(known, h, m)
           G == {T \in SUBSET D : T # {} => HasLast(T)}
<1>1. ASSUME NEW T \in SUBSET D, \A U \in SUBSET T : U # T => U \in G
      PROVE  T \in G
  <2> SUFFICES ASSUME T # {} PROVE HasLast(T)
    OBVIOUS
  <2>1. PICK x \in T : TRUE
    OBVIOUS
  <2>2. CASE T = {x}
    BY <2>2
  <2>3. CASE T # {x}
    <3>1. T \ {x} \in SUBSET T /\ T \ {x} # T /\ T \ {x} # {}
      BY <2>1, <2>3
    <3>2. HasLast(T \ {x})
      BY <1>1, <3>1
    <3>3. PICK m \in T \ {x} : \A h \in (T \ {x}) \ {m} : Sooner(known, h, m)
      BY <3>2
    <3>4. x \in D /\ m \in D /\ m # x
      OBVIOUS
    <3>5. CASE Sooner(known, x, m)
      <4>1. \A h \in T \ {m} : Sooner(known, h, m)
        BY <3>3, <3>5
      <4> QED BY <4>1
    <3>6. CASE Sooner(known, m, x)
      <4>1. \A h \in T \ {x} : Sooner(known, h, x)
        BY <3>3, <3>4, <3>6, SoonerOrders
      <4> QED BY <2>1, <4>1
    <3> QED BY <3>4, <3>5, <3>6, SoonerOrders
  <2> QED BY <2>2, <2>3
<1>2. IsFiniteSet(D)
  BY CheckAssumption, FS_Subset
<1>3. D \in G
  <2> HIDE DEF G
  <2> QED BY <1>1, <1>2, SubsetInduction
<1> QED BY <1>3

(* ... and they can be put in order.                                                 *)
LEMMA OrderExists ==
    ASSUME NEW known, NEW D \in SUBSET Hosts, \A h \in D : known[h] \in HostBlockState
    PROVE  \E order \in [1..Cardinality(D) -> D] : IsInOrder(known, order)
<1> DEFINE HasOrder(T) == \E order \in [1..Cardinality(T) -> T] : IsInOrder(known, order)
           G == {T \in SUBSET D : HasOrder(T)}
<1>0. IsFiniteSet(D)
  BY CheckAssumption, FS_Subset
<1>1. ASSUME NEW T \in SUBSET D, \A U \in SUBSET T : U # T => U \in G
      PROVE  T \in G
  <2> SUFFICES HasOrder(T)
    OBVIOUS
  <2>1. CASE T = {}
    <3>1. Cardinality(T) = 0
      BY <2>1, FS_EmptySet
    <3>2. <<>> \in [1..Cardinality(T) -> T]
      BY <3>1
    <3>3. IsInOrder(known, <<>>)
      BY DEF IsInOrder
    <3> QED BY <3>2, <3>3
  <2>2. CASE T # {}
    <3>1. PICK m \in T : \A h \in T \ {m} : Sooner(known, h, m)
      BY <2>2, LastHost
    <3> DEFINE U == T \ {m}
               n == Cardinality(U)
    <3>2. U \in G
      BY <1>1
    <3>3. PICK order \in [1..n -> U] : IsInOrder(known, order)
      BY <3>2
    <3>4. IsFiniteSet(T) /\ IsFiniteSet(U) /\ n \in Nat /\ Cardinality(T) = n + 1
      <4>1. IsFiniteSet(T) /\ IsFiniteSet(U)
        BY <1>0, FS_Subset
      <4>2. n \in Nat /\ Cardinality(T) \in Nat /\ n = Cardinality(T) - 1
        BY <4>1, FS_CardinalityType, FS_RemoveElement
      <4> QED BY <4>1, <4>2
    <3> HIDE DEF n
    <3> DEFINE longer == [i \in 1..(n + 1) |-> IF i = n + 1 THEN m ELSE order[i]]
    <3>5. longer \in [1..(n + 1) -> T]
      BY <3>3, <3>4
    <3>6. longer[n + 1] = m /\ DOMAIN longer = 1..(n + 1) /\ \A i \in 1..n : longer[i] = order[i] /\ order[i] \in U
      BY <3>3, <3>4
    <3>7. \A i, j \in 1..(n + 1) : i < j => i \in 1..n /\ (j \in 1..n \/ j = n + 1)
      BY <3>4
    <3>8. \A i, j \in 1..n : i < j => Sooner(known, order[i], order[j])
      BY <3>3 DEF IsInOrder
    <3> HIDE DEF longer
    <3>9. \A i, j \in 1..(n + 1) : i < j => Sooner(known, longer[i], longer[j])
      BY <3>1, <3>6, <3>7, <3>8
    <3>10. IsInOrder(known, longer)
      BY <3>6, <3>9 DEF IsInOrder
    <3> QED BY <3>4, <3>5, <3>10
  <2> QED BY <2>1, <2>2
<1>2. D \in G
  <2> HIDE DEF G
  <2> QED BY <1>0, <1>1, SubsetInduction
<1> QED BY <1>2

dueHosts(known) == {h \in Hosts : known[h] # Null /\ isHostDue(known[h])}

(* dueHostOrder lists every host that is due exactly once, the never-checked ones     *)
(* first, then the oldest verdicts, so that none is passed over for a newer one       *)
(* (schedule.ts, dueHostOrder).                                                      *)
THEOREM DueHostsInOrder ==
    ASSUME NEW known \in [Hosts -> HostBlockState \cup {Null}]
    PROVE  /\ dueHostOrder(known) \in Bijection(1..Cardinality(dueHosts(known)), dueHosts(known))
           /\ IsInOrder(known, dueHostOrder(known))
<1> DEFINE D == dueHosts(known)
           n == Cardinality(D)
           order == dueHostOrder(known)
<1>1. D \in SUBSET Hosts /\ \A h \in D : known[h] \in HostBlockState
  BY DEF dueHosts
<1>2. order \in [1..n -> D] /\ IsInOrder(known, order)
  <2>1. dueHostOrder(known) = CHOOSE o \in [1..n -> D] : IsInOrder(known, o)
    BY DEF dueHostOrder, IsInOrder, dueHosts
  <2> HIDE DEF D, n
  <2>2. \E o \in [1..n -> D] : IsInOrder(known, o)
    BY <1>1, OrderExists DEF n
  <2> QED BY <2>1, <2>2
<1>3. IsFiniteSet(D) /\ n \in Nat
  <2> HIDE DEF D
  <2> QED BY <1>1, CheckAssumption, FS_Subset, FS_CardinalityType
<1> HIDE DEF D, order
<1>4. \A i, j \in 1..n : order[i] = order[j] => i = j
  <2>1. \A i, j \in 1..n : i < j => Sooner(known, order[i], order[j])
    BY <1>2 DEF IsInOrder
  <2>2. \A i \in 1..n : ~Sooner(known, order[i], order[i])
    BY <1>1, <1>2, SoonerOrders
  <2> HIDE DEF n
  <2> QED BY <1>3, <2>1, <2>2
<1>5. order \in Injection(1..n, D)
  BY <1>2, <1>4 DEF Injection, IsInjective
<1>6. Cardinality(1..n) = n
  <2> HIDE DEF n
  <2>1. Cardinality(1..n) = IF 1 > n THEN 0 ELSE n - 1 + 1
    BY <1>3, FS_Interval
  <2> QED BY <1>3, <2>1
<1>7. order \in Surjection(1..n, D)
  BY <1>3, <1>5, <1>6, FS_Injection
<1> QED BY <1>2, <1>5, <1>7 DEF Bijection, D, order

--------------------------------------------------------------------------------
(* What a refresh knows at each step, of the process's memory and of the rows.        *)
RefreshState ==
    [step : {"idle", "list", "check", "gap", "probe", "persist"},
     snapshot : [Servers -> Hosts \cup {Null}], due : Seq(Hosts), keeps : 0..FailLimit,
     aborted : BOOLEAN, stale : BOOLEAN, delay : 0..Gap,
     status : Statuses \cup {Null}, age : 0..MaxAge]

(* The hosts that it still has to ask about are remembered.                          *)
DueKnown(x, memory) ==
    x.step \in {"check", "gap", "probe", "persist"} =>
        x.due # <<>> /\ \A i \in 1..Len(x.due) : memory[x.due[i]] # Null

(* It has a verdict when it is to store one, and the verdict is no older than those   *)
(* it replaces.                                                                      *)
VerdictHeld(x, table) ==
    IF x.step = "persist"
    THEN /\ x.status \in Statuses
         /\ \A r \in Servers : table[r] # Null /\ table[r].age # Null => x.age <= table[r].age
    ELSE x.age = 0

(* A row that has another host than when the servers were listed was moved.           *)
MovesSeen(x, table) ==
    \A r \in Servers :
        /\ x.step \in {"idle", "list"} => x.snapshot[r] = Null
        /\ x.snapshot[r] # Null /\ table[r] # Null /\ table[r].host # x.snapshot[r] => table[r].moved

RefreshOK(x, memory, table) ==
    x \in RefreshState /\ DueKnown(x, memory) /\ VerdictHeld(x, table) /\ MovesSeen(x, table)

OneRefresh ==
    \A f, g \in Refreshes : refresh[f].step # "idle" /\ refresh[g].step # "idle" => f = g

RefreshesOK ==
    /\ refresh \in [Refreshes -> RefreshState]
    /\ \A f \in Refreshes : RefreshOK(refresh[f], mem, rows)
    /\ OneRefresh

ProcessOK ==
    /\ mem \in [Hosts -> HostBlockState \cup {Null}]
    /\ wait \in 0..RateLimit /\ sinceProbe \in 0..Gap
    /\ leased \in BOOLEAN /\ stopping \in BOOLEAN
    /\ edits \in 0..MaxEdits /\ faults \in 0..MaxFaults

(* The columns of a verdict are filled in together.                                  *)
RowsOK ==
    /\ rows \in [Servers -> Row \cup {Null}]
    /\ \A r \in Servers : rows[r] # Null =>
          /\ rows[r].status = Null <=> rows[r].about = Null
          /\ rows[r].status = Null <=> rows[r].age = Null
          /\ rows[r].about # Null => rows[r].about = rows[r].host \/ rows[r].moved

CheckInv == RowsOK /\ ProcessOK /\ RefreshesOK

(* What a step does to a verdict.                                                    *)
OnlyRenewed ==
    \A r \in Servers : rows[r] # Null /\ rows'[r] # Null /\ rows[r].status # Null =>
        /\ rows'[r].status # Null
        /\ <<rows'[r].status, rows'[r].about>> # <<rows[r].status, rows[r].about>> => rows'[r].age <= rows[r].age

(* What the assumptions say of the numbers.                                          *)
LEMMA CheckNumbers ==
    /\ Servers \subseteq Nat /\ Hosts \subseteq Nat /\ Null \notin Nat /\ Null \notin Hosts /\ Null \notin Statuses
    /\ Gap \in Nat \ {0} /\ Backoff \in Nat \ {0} /\ RateLimit \in Nat \ {0} /\ Backoff <= RateLimit
    /\ MaxAge \in Nat /\ FailLimit \in Nat \ {0} /\ MaxEdits \in Nat /\ MaxFaults \in Nat
<1>1. Servers \subseteq Nat /\ Hosts \subseteq Nat /\ MaxEdits \in Nat /\ MaxFaults \in Nat /\ MaxAge \in Nat
  BY CheckAssumption
<1>2. /\ Gap \in Nat \ {0} /\ Backoff \in Nat \ {0} /\ RateLimit \in Nat \ {0} /\ FailLimit \in Nat \ {0}
      /\ Backoff <= RateLimit
  BY CheckAssumption
<1>3. Null \notin Nat /\ Null \notin Statuses
  BY QueryAssumption DEF Statuses
<1> QED BY <1>1, <1>2, <1>3

(* The two invariants of the runs are parts of this one.                             *)
LEMMA InvTypes == CheckInv => CheckTypeOK /\ VerdictIsAboutItsHost
<1> SUFFICES ASSUME CheckInv PROVE CheckTypeOK /\ VerdictIsAboutItsHost
  OBVIOUS
<1>1. ASSUME NEW f \in Refreshes, refresh[f].step \in {"check", "gap", "probe", "persist"}
      PROVE  refresh[f].due # <<>> /\ mem[Due(f)] # Null
  <2>1. refresh[f].due \in Seq(Hosts) /\ refresh[f].due # <<>>
        /\ \A i \in 1..Len(refresh[f].due) : mem[refresh[f].due[i]] # Null
    BY <1>1 DEF CheckInv, RefreshesOK, RefreshOK, RefreshState, DueKnown
  <2>2. Due(f) = refresh[f].due[1] /\ 1 \in 1..Len(refresh[f].due)
    BY <2>1 DEF Due
  <2> QED BY <2>1, <2>2
<1>2. CheckTypeOK
  BY <1>1 DEF CheckInv, RowsOK, ProcessOK, RefreshesOK, RefreshState, CheckTypeOK
<1>3. VerdictIsAboutItsHost
  BY DEF CheckInv, RowsOK, VerdictIsAboutItsHost
<1> QED BY <1>2, <1>3

(* It holds of an idle refresh, and so initially.                                    *)
LEMMA IdleIsOK == ASSUME NEW memory, NEW table PROVE Idle \in RefreshState /\ RefreshOK(Idle, memory, table)
<1>1. Idle \in RefreshState
  BY CheckNumbers DEF Idle, RefreshState
<1>2. Idle.step = "idle" /\ Idle.age = 0 /\ \A r \in Servers : Idle.snapshot[r] = Null
  BY DEF Idle
<1> QED BY <1>1, <1>2 DEF RefreshOK, DueKnown, VerdictHeld, MovesSeen

LEMMA InitCheckInv == CheckInit => CheckInv
<1> SUFFICES ASSUME CheckInit PROVE CheckInv
  OBVIOUS
<1>1. RowsOK
  BY DEF CheckInit, RowsOK
<1>a. ProcessOK
  <2>1. Gap \in 0..Gap /\ 0 \in 0..RateLimit /\ 0 \in 0..MaxEdits /\ 0 \in 0..MaxFaults
    BY CheckNumbers
  <2> QED BY <2>1 DEF CheckInit, ProcessOK
<1>2. \A f \in Refreshes : refresh[f] = Idle
  BY DEF CheckInit
<1>3. refresh \in [Refreshes -> RefreshState] /\ \A f \in Refreshes : RefreshOK(refresh[f], mem, rows)
  BY <1>2, IdleIsOK DEF CheckInit
<1>4. OneRefresh
  BY <1>2 DEF OneRefresh, Idle
<1> QED BY <1>1, <1>a, <1>3, <1>4 DEF CheckInv, RefreshesOK

(* An idle refresh knows nothing.                                                    *)
LEMMA IdleKnowsNothing ==
    ASSUME NEW x, NEW memory, NEW table, RefreshOK(x, memory, table), x.step = "idle", NEW memory2, NEW table2
    PROVE  RefreshOK(x, memory2, table2)
BY DEF RefreshOK, DueKnown, VerdictHeld, MovesSeen

(* Whatever the one refresh that runs does, the others are idle.                     *)
LEMMA OneMoves ==
    ASSUME RefreshesOK, NEW f \in Refreshes, refresh[f].step # "idle", NEW x,
           refresh' = [refresh EXCEPT ![f] = x], RefreshOK(x, mem', rows')
    PROVE  RefreshesOK'
<1>1. x \in RefreshState
  BY DEF RefreshOK
<1>2. refresh'[f] = x /\ \A g \in Refreshes : g # f => refresh'[g] = refresh[g] /\ refresh[g].step = "idle"
  BY DEF RefreshesOK, OneRefresh
<1>3. \A g \in Refreshes : g # f => RefreshOK(refresh'[g], mem', rows')
  BY <1>2, IdleKnowsNothing DEF RefreshesOK
<1>4. \A g \in Refreshes : RefreshOK(refresh'[g], mem', rows')
  BY <1>2, <1>3
<1>5. refresh' \in [Refreshes -> RefreshState]
  BY <1>1 DEF RefreshesOK
<1>6. OneRefresh'
  BY <1>2 DEF OneRefresh
<1> QED BY <1>4, <1>5, <1>6 DEF RefreshesOK

--------------------------------------------------------------------------------
(* The rows change under a refresh.                                                  *)
LEMMA RowsSame == rows' = rows /\ RowsOK => RowsOK' /\ OnlyRenewed
<1> SUFFICES ASSUME rows' = rows, RowsOK PROVE RowsOK' /\ OnlyRenewed
  OBVIOUS
<1>1. RowsOK'
  BY DEF RowsOK
<1>2. OnlyRenewed
  BY DEF OnlyRenewed
<1> QED BY <1>1, <1>2

(* Of a row, a refresh that runs remembers the host, and a verdict it is to store is  *)
(* no older than the row's: an edit spoils neither if it leaves the age and the moved *)
(* rows alone.                                                                       *)
LEMMA EditKeeps ==
    ASSUME CheckInv, UNCHANGED processVars, edits' \in 0..MaxEdits, faults' = faults,
           NEW r \in Servers, NEW row, rows' = [rows EXCEPT ![r] = row], RowsOK', OnlyRenewed,
           row # Null =>
               /\ \/ row.age = Null
                  \/ rows[r] # Null /\ row.age = rows[r].age
               /\ \A f \in Refreshes :
                      refresh[f].snapshot[r] # Null /\ row.host # refresh[f].snapshot[r] => row.moved
    PROVE  CheckInv' /\ OnlyRenewed
<1> USE DEF processVars
<1>1. \A s \in Servers : rows'[s] = IF s = r THEN row ELSE rows[s]
  BY DEF CheckInv, RowsOK
<1>2. ASSUME NEW f \in Refreshes PROVE RefreshOK(refresh'[f], mem', rows')
  <2> DEFINE x == refresh[f]
  <2>1. RefreshOK(x, mem, rows)
    BY DEF CheckInv, RefreshesOK
  <2> HIDE DEF x
  <2>2. VerdictHeld(x, rows')
    BY <1>1, <2>1 DEF RefreshOK, VerdictHeld
  <2>3. MovesSeen(x, rows')
    BY <1>1, <2>1 DEF RefreshOK, MovesSeen, x
  <2>4. RefreshOK(x, mem, rows')
    BY <2>1, <2>2, <2>3 DEF RefreshOK
  <2> QED BY <2>4 DEF x
<1>3. RefreshesOK'
  BY <1>2 DEF CheckInv, RefreshesOK, OneRefresh
<1>4. ProcessOK'
  BY DEF CheckInv, ProcessOK
<1> QED BY <1>3, <1>4 DEF CheckInv

(* Servers are created, moved and deleted by gate-app while a refresh runs.           *)
LEMMA CheckEdits ==
    ASSUME CheckInv, NEW r \in Servers, Delete(r) \/ \E h \in Hosts : Create(r, h) \/ Move(r, h)
    PROVE  CheckInv' /\ OnlyRenewed
<1>1. edits' \in 0..MaxEdits /\ UNCHANGED <<processVars, faults>>
  <2>1. Edit(r)
    BY DEF Delete, Create, Move
  <2> QED BY <2>1, CheckNumbers DEF CheckInv, ProcessOK, Edit
<1>t. rows \in [Servers -> Row \cup {Null}]
  BY DEF CheckInv, RowsOK
<1>2. CASE Delete(r)
  <2>1. rows' = [rows EXCEPT ![r] = Null]
    BY <1>2 DEF Delete
  <2>2. \A s \in Servers : rows'[s] = IF s = r THEN Null ELSE rows[s]
    BY <1>t, <2>1
  <2>3. RowsOK'
    <3>1. rows' \in [Servers -> Row \cup {Null}]
      BY <1>t, <2>1
    <3> QED BY <2>2, <3>1 DEF CheckInv, RowsOK
  <2>4. OnlyRenewed
    BY <2>2 DEF OnlyRenewed
  <2> QED BY <1>1, <2>1, <2>3, <2>4, EditKeeps
<1>3. CASE \E h \in Hosts : Create(r, h)
  <2>1. PICK h \in Hosts : Create(r, h)
    BY <1>3
  <2> DEFINE row == [host |-> h, status |-> Null, age |-> Null, about |-> Null, moved |-> FALSE]
  <2>2. /\ rows[r] = Null /\ (\A f \in Refreshes : refresh[f].snapshot[r] = Null)
        /\ rows' = [rows EXCEPT ![r] = row]
    BY <2>1 DEF Create
  <2>3. row \in Row /\ row.status = Null /\ row.about = Null /\ row.age = Null
    BY DEF Row, Age
  <2> HIDE DEF row
  <2>4. \A s \in Servers : rows'[s] = IF s = r THEN row ELSE rows[s]
    BY <1>t, <2>2
  <2>5. RowsOK'
    <3>1. rows' \in [Servers -> Row \cup {Null}]
      BY <1>t, <2>2, <2>3
    <3> QED BY <2>3, <2>4, <3>1 DEF CheckInv, RowsOK
  <2>6. OnlyRenewed
    BY <2>2, <2>4 DEF OnlyRenewed
  <2> QED BY <1>1, <2>2, <2>3, <2>5, <2>6, EditKeeps
<1>4. CASE \E h \in Hosts : Move(r, h)
  <2>1. PICK h \in Hosts : Move(r, h)
    BY <1>4
  <2> DEFINE row == [rows[r] EXCEPT !.host = h, !.moved = TRUE]
  <2>2. rows[r] # Null /\ rows[r] \in Row /\ rows' = [rows EXCEPT ![r] = row]
    BY <1>t, <2>1 DEF Move
  <2>3. /\ row \in Row /\ row.status = rows[r].status /\ row.about = rows[r].about /\ row.age = rows[r].age
        /\ row.moved
    BY <2>2 DEF Row
  <2> HIDE DEF row
  <2>4. \A s \in Servers : rows'[s] = IF s = r THEN row ELSE rows[s]
    BY <1>t, <2>2
  <2>5. RowsOK'
    <3>1. rows' \in [Servers -> Row \cup {Null}]
      BY <1>t, <2>2, <2>3
    <3> QED BY <2>2, <2>3, <2>4, <3>1 DEF CheckInv, RowsOK
  <2>6. OnlyRenewed
    BY <2>3, <2>4 DEF OnlyRenewed
  <2> QED BY <1>1, <2>2, <2>3, <2>5, <2>6, EditKeeps
<1> QED BY <1>2, <1>3, <1>4

(* Time passes for a verdict in the row and for the one that is to replace it.        *)
LEMMA OlderType == \A age \in Age : Older(age) \in Age /\ (Older(age) = Null <=> age = Null)
BY CheckNumbers DEF Age, Older

(* All ages grow together, up to MaxAge.                                             *)
LEMMA CheckPass == ASSUME CheckInv, Pass PROVE CheckInv' /\ OnlyRenewed
<1>1. /\ rows \in [Servers -> Row \cup {Null}] /\ mem \in [Hosts -> HostBlockState \cup {Null}]
      /\ refresh \in [Refreshes -> RefreshState]
  BY DEF CheckInv, RowsOK, ProcessOK, RefreshesOK
<1>2. \A r \in Servers : rows'[r] = IF rows[r] = Null THEN Null ELSE [rows[r] EXCEPT !.age = Older(@)]
  BY DEF Pass
<1>3. ASSUME NEW r \in Servers, rows[r] # Null
      PROVE  /\ rows'[r] \in Row /\ rows'[r].host = rows[r].host /\ rows'[r].status = rows[r].status
             /\ rows'[r].about = rows[r].about /\ rows'[r].moved = rows[r].moved
             /\ rows'[r].age = Older(rows[r].age) /\ rows[r].age \in Age
  <2>1. rows[r] \in Row /\ rows[r].age \in Age
    BY <1>1, <1>3 DEF Row
  <2>2. Older(rows[r].age) \in Age
    BY <2>1, OlderType
  <2> HIDE DEF Age
  <2> QED BY <1>2, <1>3, <2>1, <2>2 DEF Row
<1>4. RowsOK'
  <2>1. rows' \in [Servers -> Row \cup {Null}]
    <3>1. \A r \in Servers : rows'[r] \in Row \cup {Null}
      BY <1>2, <1>3
    <3>2. rows' = [r \in Servers |-> rows'[r]]
      BY DEF Pass
    <3> QED BY <3>1, <3>2
  <2>2. \A r \in Servers : rows'[r] # Null => rows[r] # Null
    BY <1>2
  <2> QED BY <1>3, <2>1, <2>2, OlderType DEF CheckInv, RowsOK
<1>5. OnlyRenewed
  BY <1>3 DEF OnlyRenewed
<1>6. ProcessOK'
  <2>1. \A n \in 0..RateLimit : Less(n) \in 0..RateLimit
    BY CheckNumbers DEF Less
  <2>2. \A n \in 0..Backoff : Less(n) \in 0..Backoff
    BY CheckNumbers DEF Less
  <2>3. wait' \in 0..RateLimit
    BY <2>1 DEF Pass, CheckInv, ProcessOK
  <2>4. sinceProbe' \in 0..Gap
    <3>1. sinceProbe \in 0..Gap /\ sinceProbe' = IF sinceProbe = Gap THEN Gap ELSE sinceProbe + 1
      BY DEF Pass, CheckInv, ProcessOK
    <3>2. Gap \in Nat
      BY CheckNumbers
    <3> QED BY <3>1, <3>2
  <2>5. mem' \in [Hosts -> HostBlockState \cup {Null}]
    <3>1. ASSUME NEW h \in Hosts, mem[h] # Null
          PROVE  [age |-> Older(mem[h].age), wait |-> Less(mem[h].wait)] \in HostBlockState
      <4>1. mem[h].age \in Age /\ mem[h].wait \in 0..Backoff
        BY <1>1, <3>1 DEF HostBlockState
      <4> HIDE DEF Age
      <4> QED BY <2>2, <4>1, OlderType DEF HostBlockState
    <3> QED BY <3>1 DEF Pass
  <2> QED BY <2>3, <2>4, <2>5 DEF Pass, CheckInv, ProcessOK
<1>7. ASSUME NEW f \in Refreshes
      PROVE  /\ RefreshOK(refresh'[f], mem', rows') /\ refresh'[f].step = refresh[f].step
  <2> DEFINE x == refresh[f]
             age == IF x.step = "persist" THEN Older(x.age) ELSE x.age
             y == refresh'[f]
  <2>1. RefreshOK(x, mem, rows)
    BY DEF CheckInv, RefreshesOK
  <2>2. x \in RefreshState /\ x.age \in 0..MaxAge /\ x.delay \in 0..Gap
    BY <1>1 DEF RefreshState
  <2>3. y = [x EXCEPT !.delay = Less(@), !.age = IF x.step = "persist" THEN Older(@) ELSE @]
    BY DEF Pass
  <2>4. Less(x.delay) \in 0..Gap /\ age \in 0..MaxAge
    BY <2>2, CheckNumbers DEF Less, Older
  <2>5. /\ y \in RefreshState /\ y.step = x.step /\ y.snapshot = x.snapshot /\ y.due = x.due
        /\ y.status = x.status /\ y.age = age
    <3> HIDE DEF y
    <3>1. x.age \in 0..MaxAge /\ y = [x EXCEPT !.delay = Less(x.delay), !.age = age]
      BY <2>2, <2>3
    <3> HIDE DEF x, age
    <3> QED BY <2>2, <2>4, <3>1 DEF RefreshState
  <2> HIDE DEF y
  <2>6. DueKnown(y, mem')
    <3>1. ASSUME NEW h \in Hosts, mem[h] # Null PROVE mem'[h] # Null
      <4>1. mem'[h] = [age |-> Older(mem[h].age), wait |-> Less(mem[h].wait)]
        BY <3>1 DEF Pass
      <4>2. mem'[h] \in HostBlockState
        <5>1. mem[h].age \in Age /\ mem[h].wait \in 0..Backoff
          BY <1>1, <3>1 DEF HostBlockState
        <5>2. Less(mem[h].wait) \in 0..Backoff
          BY <5>1, CheckNumbers DEF Less
        <5> HIDE DEF Age
        <5> QED BY <4>1, <5>1, <5>2, OlderType DEF HostBlockState
      <4> QED BY <4>2, StateAssumption
    <3>2. \A i \in 1..Len(x.due) : x.due[i] \in Hosts
      BY <2>2 DEF RefreshState
    <3> HIDE DEF x
    <3> QED BY <2>1, <2>5, <3>1, <3>2 DEF RefreshOK, DueKnown
  <2>7. VerdictHeld(y, rows')
    <3>1. CASE x.step # "persist"
      BY <2>1, <2>5, <3>1 DEF RefreshOK, VerdictHeld
    <3>2. CASE x.step = "persist"
      <4>1. y.status \in Statuses /\ y.step = "persist" /\ y.age = Older(x.age)
        BY <2>1, <2>5, <3>2 DEF RefreshOK, VerdictHeld
      <4>2. ASSUME NEW r \in Servers, rows'[r] # Null, rows'[r].age # Null PROVE y.age <= rows'[r].age
        <5>1. rows[r] # Null /\ rows'[r].age = Older(rows[r].age) /\ rows[r].age \in Age /\ rows[r].age # Null
          BY <1>2, <1>3, <4>2 DEF Older
        <5>2. x.age <= rows[r].age
          BY <2>1, <3>2, <5>1 DEF RefreshOK, VerdictHeld
        <5> HIDE DEF x
        <5> QED BY <2>2, <4>1, <5>1, <5>2, CheckNumbers DEF Older, Age
      <4> QED BY <4>1, <4>2 DEF VerdictHeld
    <3> QED BY <3>1, <3>2
  <2>8. MovesSeen(y, rows')
    <3>1. \A r \in Servers : rows'[r] # Null => rows[r] # Null /\ rows'[r].host = rows[r].host /\ rows'[r].moved = rows[r].moved
      BY <1>2, <1>3
    <3> HIDE DEF x
    <3> QED BY <2>1, <2>5, <3>1 DEF RefreshOK, MovesSeen
  <2> QED BY <2>5, <2>6, <2>7, <2>8 DEF RefreshOK, y
<1>8. RefreshesOK'
  <2>1. \A f \in Refreshes : refresh'[f] \in RefreshState
    BY <1>7 DEF RefreshOK
  <2>2. refresh' = [f \in Refreshes |-> refresh'[f]]
    BY DEF Pass
  <2>3. refresh' \in [Refreshes -> RefreshState]
    BY <2>1, <2>2
  <2> QED BY <1>7, <2>3 DEF CheckInv, RefreshesOK, OneRefresh
<1> QED BY <1>4, <1>5, <1>6, <1>8 DEF CheckInv

--------------------------------------------------------------------------------
(* The process around the refresh.                                                   *)
LEMMA LostOrStopped ==
    ASSUME CheckInv, rows' = rows, mem' = mem, ProcessOK',
           refresh' \in [Refreshes -> RefreshState],
           \A f \in Refreshes :
               \/ refresh'[f] = Idle
               \/ /\ refresh[f].step # "idle" /\ refresh'[f].step = refresh[f].step
                  /\ refresh'[f].snapshot = refresh[f].snapshot /\ refresh'[f].due = refresh[f].due
                  /\ refresh'[f].status = refresh[f].status /\ refresh'[f].age = refresh[f].age
    PROVE  CheckInv' /\ OnlyRenewed
<1>1. ASSUME NEW f \in Refreshes PROVE RefreshOK(refresh'[f], mem', rows')
  <2>1. CASE refresh'[f] = Idle
    BY <2>1, IdleIsOK
  <2>2. CASE refresh'[f] # Idle
    <3> DEFINE x == refresh[f]
               y == refresh'[f]
    <3>1. /\ y \in RefreshState /\ y.step = x.step /\ y.snapshot = x.snapshot /\ y.due = x.due
          /\ y.status = x.status /\ y.age = x.age
      BY <2>2
    <3>2. RefreshOK(x, mem, rows)
      BY DEF CheckInv, RefreshesOK
    <3> HIDE DEF x, y
    <3>3. RefreshOK(y, mem, rows)
      BY <3>1, <3>2 DEF RefreshOK, DueKnown, VerdictHeld, MovesSeen
    <3> QED BY <3>3 DEF y
  <2> QED BY <2>1, <2>2
<1>2. OneRefresh'
  <2>1. \A f \in Refreshes : refresh'[f].step # "idle" => refresh[f].step # "idle"
    BY DEF Idle
  <2> QED BY <2>1 DEF CheckInv, RefreshesOK, OneRefresh
<1>3. RefreshesOK'
  BY <1>1, <1>2 DEF RefreshesOK
<1> QED BY <1>3, RowsSame DEF CheckInv

(* The lease comes and goes, the process stops, crashes and starts again.             *)
LEMMA CheckProcess ==
    ASSUME CheckInv, Lease \/ LoseLease \/ Stop \/ Stopped \/ Crash
    PROVE  CheckInv' /\ OnlyRenewed
<1>1. refresh \in [Refreshes -> RefreshState]
  BY DEF CheckInv, RefreshesOK
<1>f. Fault => faults' \in 0..MaxFaults
  BY CheckNumbers DEF Fault, CheckInv, ProcessOK
<1>2. CASE Lease
  <2>1. ProcessOK'
    BY <1>2 DEF Lease, CheckInv, ProcessOK
  <2>2. RefreshesOK'
    BY <1>2 DEF Lease, CheckInv, RefreshesOK, OneRefresh
  <2> QED BY <1>2, <2>1, <2>2, RowsSame DEF Lease, CheckInv
<1>3. CASE LoseLease
  <2>1. ProcessOK'
    BY <1>3, <1>f DEF LoseLease, CheckInv, ProcessOK
  <2>2. refresh' = [f \in Refreshes |-> IF refresh[f].step = "idle" THEN Idle ELSE [refresh[f] EXCEPT !.stale = TRUE]]
    BY <1>3 DEF LoseLease, Restamped
  <2>3. refresh' \in [Refreshes -> RefreshState]
    <3>1. \A x \in RefreshState : [x EXCEPT !.stale = TRUE] \in RefreshState
      BY DEF RefreshState
    <3>2. Idle \in RefreshState
      BY IdleIsOK
    <3> QED BY <1>1, <2>2, <3>1, <3>2
  <2>4. \A x \in RefreshState : LET y == [x EXCEPT !.stale = TRUE]
                                IN  /\ y.step = x.step /\ y.snapshot = x.snapshot /\ y.due = x.due
                                    /\ y.status = x.status /\ y.age = x.age
    BY DEF RefreshState
  <2>5. \A f \in Refreshes :
            \/ refresh'[f] = Idle
            \/ /\ refresh[f].step # "idle" /\ refresh'[f].step = refresh[f].step
               /\ refresh'[f].snapshot = refresh[f].snapshot /\ refresh'[f].due = refresh[f].due
               /\ refresh'[f].status = refresh[f].status /\ refresh'[f].age = refresh[f].age
    BY <1>1, <2>2, <2>4
  <2>6. rows' = rows /\ mem' = mem
    BY <1>3 DEF LoseLease
  <2> QED BY <2>1, <2>3, <2>5, <2>6, LostOrStopped
<1>4. CASE Stop
  <2>1. ProcessOK'
    BY <1>4, <1>f DEF Stop, CheckInv, ProcessOK
  <2>2. refresh' = [f \in Refreshes |-> IF refresh[f].step = "idle" THEN Idle ELSE [refresh[f] EXCEPT !.aborted = TRUE]]
    BY <1>4 DEF Stop
  <2>3. refresh' \in [Refreshes -> RefreshState]
    <3>1. \A x \in RefreshState : [x EXCEPT !.aborted = TRUE] \in RefreshState
      BY DEF RefreshState
    <3>2. Idle \in RefreshState
      BY IdleIsOK
    <3> QED BY <1>1, <2>2, <3>1, <3>2
  <2>4. \A x \in RefreshState : LET y == [x EXCEPT !.aborted = TRUE]
                                IN  /\ y.step = x.step /\ y.snapshot = x.snapshot /\ y.due = x.due
                                    /\ y.status = x.status /\ y.age = x.age
    BY DEF RefreshState
  <2>5. \A f \in Refreshes :
            \/ refresh'[f] = Idle
            \/ /\ refresh[f].step # "idle" /\ refresh'[f].step = refresh[f].step
               /\ refresh'[f].snapshot = refresh[f].snapshot /\ refresh'[f].due = refresh[f].due
               /\ refresh'[f].status = refresh[f].status /\ refresh'[f].age = refresh[f].age
    BY <1>1, <2>2, <2>4
  <2>6. rows' = rows /\ mem' = mem
    BY <1>4 DEF Stop
  <2> QED BY <2>1, <2>3, <2>5, <2>6, LostOrStopped
<1>5. CASE Stopped \/ Crash
  <2>1. Restart /\ (Fault \/ UNCHANGED faults)
    BY <1>5 DEF Stopped, Crash
  <2>2. ProcessOK'
    <3>1. 0 \in 0..RateLimit /\ Gap \in 0..Gap
      BY CheckNumbers
    <3> QED BY <2>1, <1>f, <3>1 DEF Restart, CheckInv, ProcessOK
  <2>3. \A f \in Refreshes : refresh'[f] = Idle
    BY <2>1 DEF Restart
  <2>4. RefreshesOK'
    <3>1. refresh' \in [Refreshes -> RefreshState]
      BY <2>1, IdleIsOK DEF Restart
    <3>2. OneRefresh'
      BY <2>3 DEF OneRefresh, Idle
    <3> QED BY <2>3, <3>1, <3>2, IdleIsOK DEF RefreshesOK
  <2> QED BY <2>1, <2>2, <2>4, RowsSame DEF Restart, CheckInv
<1> QED BY <1>2, <1>3, <1>4, <1>5

--------------------------------------------------------------------------------
(* The refresh: it starts, and it lists the servers.                                 *)
LEMMA CheckEnsure == ASSUME CheckInv, NEW f \in Refreshes, Ensure(f) PROVE CheckInv' /\ OnlyRenewed
<1>1. /\ rows' = rows /\ mem' = mem /\ UNCHANGED <<wait, sinceProbe, leased, stopping, edits, faults>>
      /\ \A g \in Refreshes : refresh[g].step = "idle"
      /\ refresh' = [refresh EXCEPT ![f].step = "list"]
  BY DEF Ensure, shouldStartBlockCheckRefresh, refreshInflight
<1>2. refresh \in [Refreshes -> RefreshState] /\ \A g \in Refreshes : RefreshOK(refresh[g], mem, rows)
  BY DEF CheckInv, RefreshesOK
<1> DEFINE x == refresh[f]
           y == [x EXCEPT !.step = "list"]
<1>3. refresh' = [refresh EXCEPT ![f] = y]
  BY <1>1
<1>4. /\ y \in RefreshState /\ y.step = "list" /\ y.snapshot = x.snapshot /\ y.age = x.age
  BY <1>2 DEF RefreshState
<1>5. RefreshOK(x, mem, rows) /\ x.step = "idle"
  BY <1>1, <1>2
<1> HIDE DEF x, y
<1>6. RefreshOK(y, mem, rows)
  BY <1>4, <1>5 DEF RefreshOK, DueKnown, VerdictHeld, MovesSeen
<1>7. refresh' \in [Refreshes -> RefreshState] /\ \A g \in Refreshes : refresh'[g] = IF g = f THEN y ELSE refresh[g]
  BY <1>2, <1>3, <1>4
<1>8. RefreshesOK'
  <2>1. OneRefresh'
    BY <1>1, <1>7 DEF OneRefresh
  <2>2. \A g \in Refreshes : RefreshOK(refresh'[g], mem', rows')
    BY <1>1, <1>2, <1>6, <1>7
  <2> QED BY <1>7, <2>1, <2>2 DEF RefreshesOK
<1>9. ProcessOK'
  BY <1>1 DEF CheckInv, ProcessOK
<1> QED BY <1>1, <1>8, <1>9, RowsSame DEF CheckInv

(* A host that some server has is known, with the age of a verdict.                   *)
LEMMA KnownType == ASSUME CheckInv PROVE Known \in [Hosts -> HostBlockState \cup {Null}]
<1>1. SUFFICES ASSUME NEW h \in Hosts, Listed(h) PROVE hydrateHost(h) \in HostBlockState \cup {Null}
  BY DEF Known
<1>2. CASE mem[h] # Null
  BY <1>2 DEF hydrateHost, CheckInv, ProcessOK
<1>3. CASE mem[h] = Null
  <2> DEFINE named == {r \in Servers : rows[r] # Null /\ rows[r].host = h}
             first == CHOOSE r \in named : \A s \in named : r <= s
  <2>1. named \in SUBSET Nat /\ named # {}
    BY <1>1, CheckNumbers DEF Listed
  <2>2. first \in named
    <3> HIDE DEF named
    <3>1. \E r \in named : \A s \in named : r <= s
      BY <2>1, LeastNumber
    <3> QED BY <3>1
  <2>3. rows[first] \in Row
    BY <2>2 DEF CheckInv, RowsOK
  <2>4. 0 \in 0..Backoff
    BY CheckNumbers
  <2>5. hydrateHost(h) = [age |-> rows[first].age, wait |-> 0]
    BY <1>3 DEF hydrateHost
  <2> HIDE DEF first
  <2> QED BY <2>3, <2>4, <2>5 DEF Row, HostBlockState
<1> QED BY <1>2, <1>3

(* The order names known hosts only.                                                 *)
LEMMA DueOrderType ==
    ASSUME NEW known \in [Hosts -> HostBlockState \cup {Null}]
    PROVE  /\ dueHostOrder(known) \in Seq(Hosts)
           /\ \A i \in 1..Len(dueHostOrder(known)) : known[dueHostOrder(known)[i]] # Null
<1> DEFINE D == dueHosts(known)
           n == Cardinality(D)
           order == dueHostOrder(known)
<1>1. D \in SUBSET Hosts /\ \A h \in D : known[h] # Null
  BY DEF dueHosts
<1>2. n \in Nat
  <2> HIDE DEF D
  <2> QED BY <1>1, CheckAssumption, FS_Subset, FS_CardinalityType
<1>3. order \in [1..n -> D]
  BY DueHostsInOrder DEF Bijection, Injection
<1> HIDE DEF D, n, order
<1>4. order \in Seq(Hosts) /\ Len(order) = n
  BY <1>1, <1>2, <1>3
<1>5. \A i \in 1..n : known[order[i]] # Null
  BY <1>1, <1>3
<1> QED BY <1>4, <1>5 DEF order

(* The refresh lists the servers and puts the hosts that are due in order.           *)
LEMMA CheckList == ASSUME CheckInv, NEW f \in Refreshes, List(f) PROVE CheckInv' /\ OnlyRenewed
<1> DEFINE x == refresh[f]
           order == dueHostOrder(Known)
           hosts == [r \in Servers |-> IF rows[r] = Null THEN Null ELSE rows[r].host]
           y == [x EXCEPT !.step = "check", !.due = order, !.snapshot = hosts]
<1>1. /\ x.step = "list" /\ mem' = Known /\ rows' = rows
      /\ UNCHANGED <<wait, sinceProbe, leased, stopping, edits, faults>>
      /\ refresh' = [refresh EXCEPT ![f] = Idle] \/ (refresh' = [refresh EXCEPT ![f] = y] /\ order # <<>>)
  BY DEF List
<1>2. Known \in [Hosts -> HostBlockState \cup {Null}]
  BY KnownType
<1>3. order \in Seq(Hosts) /\ \A i \in 1..Len(order) : Known[order[i]] # Null
  BY <1>2, DueOrderType
<1>4. x \in RefreshState /\ RefreshOK(x, mem, rows) /\ RefreshesOK
  BY DEF CheckInv, RefreshesOK
<1>5. ProcessOK'
  BY <1>1, <1>2 DEF CheckInv, ProcessOK
<1>6. CASE refresh' = [refresh EXCEPT ![f] = Idle]
  <2>1. RefreshesOK'
    BY <1>1, <1>4, <1>6, IdleIsOK, OneMoves
  <2> QED BY <1>1, <1>5, <2>1, RowsSame DEF CheckInv
<1>7. CASE refresh' = [refresh EXCEPT ![f] = y] /\ order # <<>>
  <2>1. hosts \in [Servers -> Hosts \cup {Null}]
    BY DEF CheckInv, RowsOK, Row
  <2>2. y \in RefreshState /\ y.step = "check" /\ y.due = order /\ y.snapshot = hosts /\ y.age = x.age
    <3> HIDE DEF order, hosts
    <3> QED BY <1>3, <1>4, <2>1 DEF RefreshState
  <2>3. x.age = 0
    BY <1>1, <1>4 DEF RefreshOK, VerdictHeld
  <2>4. \A r \in Servers : rows[r] # Null => hosts[r] = rows[r].host
    OBVIOUS
  <2> HIDE DEF x, y, order, hosts
  <2>5. RefreshOK(y, mem', rows')
    BY <1>1, <1>3, <1>7, <2>2, <2>3, <2>4 DEF RefreshOK, DueKnown, VerdictHeld, MovesSeen
  <2>6. RefreshesOK'
    BY <1>1, <1>4, <1>7, <2>5, OneMoves DEF x
  <2> QED BY <1>1, <1>5, <2>6, RowsSame DEF CheckInv
<1> QED BY <1>1, <1>6, <1>7

--------------------------------------------------------------------------------
(* The loop: an answer has a status and a code, and with it the refresh goes on.      *)
LEMMA OutcomeType ==
    ASSUME NEW outcome \in ProbelessOutcomes \cup ProbedOutcomes
    PROVE  outcome.status \in Statuses \cup {Null} /\ outcome.code \in Nat
<1>1. \A body, votes : resolveBadgeStatus(body, votes) # "unknown" => resolveBadgeStatus(body, votes) \in Statuses
  BY DEF resolveBadgeStatus, Statuses
<1> HIDE DEF Statuses
<1>2. ASSUME NEW check \in Check, outcome = WithoutProbe(check)
      PROVE  outcome.status \in Statuses \cup {Null} /\ outcome.code \in Nat
  <2>1. check.code \in Nat
    BY DEF Check
  <2> QED BY <1>1, <1>2, <2>1 DEF WithoutProbe, Keep
<1>3. ASSUME NEW body, NEW stream \in Stream, outcome = WithProbe(body, stream)
      PROVE  outcome.status \in Statuses \cup {Null} /\ outcome.code \in Nat
  <2>1. stream.code \in Nat
    BY StreamType
  <2> QED BY <1>1, <1>3, <2>1 DEF WithProbe, Keep
<1> QED BY <1>2, <1>3 DEF ProbelessOutcomes, ProbedOutcomes

(* From one host to the next.                                                        *)
LEMMA AfterOK ==
    ASSUME CheckInv, NEW f \in Refreshes, refresh[f].step \in {"check", "probe", "persist"},
           NEW keeps \in 0..FailLimit, MovesSeen(refresh[f], rows'),
           \A h \in Hosts : mem[h] # Null => mem'[h] # Null
    PROVE  RefreshOK(After(f, keeps), mem', rows')
<1> DEFINE x == refresh[f]
           y == [Idle EXCEPT !.step = "check", !.snapshot = x.snapshot, !.due = Tail(x.due), !.keeps = keeps]
<1>1. x \in RefreshState /\ RefreshOK(x, mem, rows)
  BY DEF CheckInv, RefreshesOK
<1>2. x.due \in Seq(Hosts) /\ x.due # <<>> /\ \A i \in 1..Len(x.due) : mem[x.due[i]] # Null /\ x.due[i] \in Hosts
  BY <1>1 DEF RefreshOK, RefreshState, DueKnown
<1>3. CASE After(f, keeps) = Idle
  BY <1>3, IdleIsOK
<1>4. CASE After(f, keeps) = y /\ Len(x.due) # 1
  <2> DEFINE rest == Tail(x.due)
             due == x.due
  <2>1. rest \in Seq(Hosts) /\ rest # <<>> /\ \A i \in 1..Len(rest) : i + 1 \in 1..Len(x.due) /\ rest[i] = x.due[i + 1]
    <3>1. due \in Seq(Hosts) /\ due # <<>> /\ Len(due) # 1
      BY <1>2, <1>4
    <3> HIDE DEF due
    <3>2. Tail(due) \in Seq(Hosts) /\ Len(Tail(due)) = Len(due) - 1 /\ Len(due) \in Nat \ {0}
          /\ \A i \in 1..Len(Tail(due)) : Tail(due)[i] = due[i + 1]
      BY <3>1
    <3>3. Tail(due) # <<>>
      <4>1. Len(<<>>) = 0 /\ Len(Tail(due)) # 0
        BY <3>1, <3>2
      <4> QED BY <4>1
    <3> QED BY <3>2, <3>3 DEF due
  <2>2. \A i \in 1..Len(rest) : mem'[rest[i]] # Null
    <3> HIDE DEF rest
    <3> QED BY <1>2, <2>1
  <2>3. Idle \in RefreshState /\ Idle.age = 0
    BY IdleIsOK DEF Idle
  <2>4. y \in RefreshState /\ y.step = "check" /\ y.due = rest /\ y.snapshot = x.snapshot /\ y.age = 0
    <3> HIDE DEF rest
    <3>1. x.snapshot \in [Servers -> Hosts \cup {Null}]
      BY <1>1 DEF RefreshState
    <3>2. y = [Idle EXCEPT !.step = "check", !.snapshot = x.snapshot, !.due = rest, !.keeps = keeps]
      BY DEF rest
    <3> HIDE DEF x, y
    <3> QED BY <2>1, <2>3, <3>1, <3>2 DEF RefreshState
  <2> HIDE DEF y, rest
  <2>5. DueKnown(y, mem')
    BY <2>1, <2>2, <2>4 DEF DueKnown
  <2>6. VerdictHeld(y, rows')
    BY <2>4 DEF VerdictHeld
  <2>7. MovesSeen(y, rows')
    BY <2>4 DEF MovesSeen
  <2> QED BY <1>4, <2>4, <2>5, <2>6, <2>7 DEF RefreshOK
<1> QED BY <1>3, <1>4 DEF After

(* A query ends, with a verdict or without one.                                      *)
LEMMA CheckAnswered ==
    ASSUME CheckInv, NEW f \in Refreshes, refresh[f].step \in {"check", "probe"},
           NEW outcome, outcome.status \in Statuses \cup {Null}, outcome.code \in Nat,
           QueryEnds(f, outcome), Fault \/ UNCHANGED faults, UNCHANGED <<rows, sinceProbe, leased, stopping, edits>>
    PROVE  CheckInv' /\ OnlyRenewed
<1> DEFINE x == refresh[f]
           code == outcome.code
<1>1. x \in RefreshState /\ RefreshOK(x, mem, rows) /\ RefreshesOK /\ ProcessOK
  BY DEF CheckInv, RefreshesOK
<1>f. faults' \in 0..MaxFaults
  BY <1>1, CheckNumbers DEF Fault, ProcessOK
<1>d. Due(f) \in Hosts /\ mem[Due(f)] # Null /\ mem[Due(f)] \in HostBlockState
  <2>1. x.due \in Seq(Hosts) /\ x.due # <<>> /\ \A i \in 1..Len(x.due) : mem[x.due[i]] # Null /\ x.due[i] \in Hosts
    BY <1>1 DEF RefreshOK, RefreshState, DueKnown
  <2>2. 1 \in 1..Len(x.due) /\ Due(f) = x.due[1]
    BY <2>1 DEF Due
  <2> QED BY <1>1, <2>1, <2>2 DEF ProcessOK
<1>m. MovesSeen(x, rows')
  BY <1>1 DEF RefreshOK
<1>2. CASE outcome.status = Null
  <2> DEFINE keeps == IF isOutboundKeep(code) THEN x.keeps + 1 ELSE 0
             pause == globalBackoffAfterOutcome(code, keeps)
             y == IF pause > 0 THEN Idle ELSE After(f, keeps)
  <2>1. /\ mem' = IF GoesOn(f) THEN [mem EXCEPT ![Due(f)].wait = Backoff] ELSE mem
        /\ wait' = IF GoesOn(f) /\ pause > 0 THEN pause ELSE wait
        /\ refresh' = [refresh EXCEPT ![f] = y]
    BY <1>2 DEF QueryEnds, KeepVerdict
  <2>2. x.keeps \in 0..FailLimit
    BY <1>1 DEF RefreshState
  <2>3. pause = IF code = 429 THEN RateLimit ELSE IF keeps >= FailLimit THEN Backoff ELSE 0
    BY DEF globalBackoffAfterOutcome
  <2>4. pause \in 0..RateLimit /\ (~(pause > 0) => keeps \in 0..FailLimit)
    <3> HIDE DEF pause
    <3>1. keeps \in Nat
      BY <2>2
    <3>2. keeps <= FailLimit \/ keeps >= FailLimit
      BY <2>2, CheckNumbers
    <3> HIDE DEF keeps
    <3> QED BY <2>3, <3>1, <3>2, CheckNumbers
  <2>5. mem' \in [Hosts -> HostBlockState \cup {Null}] /\ \A h \in Hosts : mem[h] # Null => mem'[h] # Null
    <3> DEFINE s == [mem[Due(f)] EXCEPT !.wait = Backoff]
    <3>1. s \in HostBlockState /\ s # Null
      <4>1. Backoff \in 0..Backoff
        BY CheckNumbers
      <4>2. s \in HostBlockState
        BY <1>d, <4>1 DEF HostBlockState
      <4> HIDE DEF s
      <4> QED BY <4>2, StateAssumption
    <3>2. mem' = mem \/ mem' = [mem EXCEPT ![Due(f)] = s]
      BY <2>1
    <3>3. mem \in [Hosts -> HostBlockState \cup {Null}]
      BY <1>1 DEF ProcessOK
    <3> HIDE DEF s
    <3> QED BY <1>d, <3>1, <3>2, <3>3
  <2>6. ProcessOK'
    <3> HIDE DEF pause
    <3> QED BY <1>1, <1>f, <2>1, <2>4, <2>5 DEF ProcessOK
  <2>7. RefreshOK(y, mem', rows')
    <3>1. CASE pause > 0
      BY <3>1, IdleIsOK
    <3>2. CASE ~(pause > 0)
      <4>1. keeps \in 0..FailLimit
        BY <2>4, <3>2
      <4> HIDE DEF keeps
      <4>2. RefreshOK(After(f, keeps), mem', rows')
        BY <1>m, <2>5, <4>1, AfterOK
      <4> QED BY <3>2, <4>2
    <3> QED BY <3>1, <3>2
  <2> HIDE DEF y
  <2>8. RefreshesOK'
    BY <1>1, <2>1, <2>7, OneMoves
  <2> QED BY <2>6, <2>8, RowsSame DEF CheckInv
<1>3. CASE outcome.status # Null
  <2> DEFINE y == [x EXCEPT !.step = "persist", !.status = outcome.status]
  <2>1. mem' = mem /\ wait' = wait
        /\ (refresh' = [refresh EXCEPT ![f] = Idle] \/ refresh' = [refresh EXCEPT ![f] = y])
    BY <1>3 DEF QueryEnds, TakeVerdict
  <2>2. ProcessOK'
    BY <1>1, <1>f, <2>1 DEF ProcessOK
  <2>3. CASE refresh' = [refresh EXCEPT ![f] = Idle]
    <3>1. RefreshesOK'
      BY <1>1, <2>3, IdleIsOK, OneMoves
    <3> QED BY <2>2, <3>1, RowsSame DEF CheckInv
  <2>4. CASE refresh' = [refresh EXCEPT ![f] = y]
    <3>1. /\ y \in RefreshState /\ y.step = "persist" /\ y.status \in Statuses /\ y.age = x.age
          /\ y.snapshot = x.snapshot /\ y.due = x.due
      BY <1>1, <1>3 DEF RefreshState
    <3>2. x.age = 0 /\ x.due # <<>> /\ \A i \in 1..Len(x.due) : mem[x.due[i]] # Null
      BY <1>1 DEF RefreshOK, VerdictHeld, DueKnown
    <3>3. \A r \in Servers : rows[r] # Null /\ rows[r].age # Null => 0 <= rows[r].age
      BY CheckNumbers DEF CheckInv, RowsOK, Row, Age
    <3> HIDE DEF x, y
    <3>4. RefreshOK(y, mem', rows')
      <4>1. DueKnown(y, mem')
        BY <2>1, <3>1, <3>2 DEF DueKnown
      <4>2. VerdictHeld(y, rows')
        BY <3>1, <3>2, <3>3 DEF VerdictHeld
      <4>3. MovesSeen(y, rows')
        BY <1>m, <3>1 DEF MovesSeen
      <4> QED BY <3>1, <4>1, <4>2, <4>3 DEF RefreshOK
    <3>5. RefreshesOK'
      BY <1>1, <2>4, <3>4, OneMoves
    <3> QED BY <2>2, <3>5, RowsSame DEF CheckInv
  <2> QED BY <2>1, <2>3, <2>4
<1> QED BY <1>2, <1>3

(* Steps between two answers.                                                        *)
LEMMA CheckWaits ==
    ASSUME CheckInv, NEW f \in Refreshes,
           StatementFails(f) \/ CheckNamesProbe(f) \/ BeginProbe(f) \/ AbortedInGap(f)
    PROVE  CheckInv' /\ OnlyRenewed
<1> DEFINE x == refresh[f]
<1>1. x \in RefreshState /\ RefreshOK(x, mem, rows) /\ RefreshesOK /\ ProcessOK
  BY DEF CheckInv, RefreshesOK
<1>2. rows' = rows /\ mem' = mem /\ x.step # "idle"
  BY DEF StatementFails, CheckNamesProbe, BeginProbe, AbortedInGap
<1>3. ProcessOK'
  <2>1. Backoff \in 0..RateLimit /\ 0 \in 0..Gap
    BY CheckNumbers
  <2>2. Fault => faults' \in 0..MaxFaults
    BY <1>1, CheckNumbers DEF Fault, ProcessOK
  <2> QED BY <1>1, <2>1, <2>2 DEF ProcessOK, StatementFails, CheckNamesProbe, BeginProbe, AbortedInGap
<1>4. CASE refresh' = [refresh EXCEPT ![f] = Idle]
  <2>1. RefreshesOK'
    BY <1>1, <1>2, <1>4, IdleIsOK, OneMoves
  <2> QED BY <1>2, <1>3, <2>1, RowsSame DEF CheckInv
<1>5. ASSUME NEW y \in RefreshState, refresh' = [refresh EXCEPT ![f] = y], x.step \in {"check", "gap"},
             y.step \in {"gap", "probe"}, y.snapshot = x.snapshot, y.due = x.due, y.age = x.age
      PROVE  CheckInv' /\ OnlyRenewed
  <2> HIDE DEF x
  <2>1. RefreshOK(y, mem', rows')
    BY <1>1, <1>2, <1>5 DEF RefreshOK, DueKnown, VerdictHeld, MovesSeen
  <2>2. RefreshesOK'
    BY <1>1, <1>2, <1>5, <2>1, OneMoves DEF x
  <2> QED BY <1>2, <1>3, <2>2, RowsSame DEF CheckInv
<1>6. CASE CheckNamesProbe(f)
  <2> DEFINE y == [x EXCEPT !.step = "gap", !.delay = probeDelay]
  <2>1. probeDelay \in 0..Gap
    <3>1. sinceProbe \in 0..Gap /\ Gap \in Nat
      BY <1>1, CheckNumbers DEF ProcessOK
    <3> QED BY <3>1 DEF probeDelay
  <2>2. y \in RefreshState /\ y.step = "gap" /\ y.snapshot = x.snapshot /\ y.due = x.due /\ y.age = x.age
    BY <1>1, <2>1 DEF RefreshState
  <2>3. refresh' = [refresh EXCEPT ![f] = y] /\ x.step = "check"
    BY <1>6 DEF CheckNamesProbe
  <2> HIDE DEF x, y
  <2> QED BY <1>5, <2>2, <2>3
<1>7. CASE BeginProbe(f)
  <2> DEFINE y == [x EXCEPT !.step = "probe"]
  <2>1. y \in RefreshState /\ y.step = "probe" /\ y.snapshot = x.snapshot /\ y.due = x.due /\ y.age = x.age
    BY <1>1 DEF RefreshState
  <2>2. refresh' = [refresh EXCEPT ![f] = y] /\ x.step = "gap"
    BY <1>7 DEF BeginProbe
  <2> HIDE DEF x, y
  <2> QED BY <1>5, <2>1, <2>2
<1> QED BY <1>4, <1>6, <1>7 DEF StatementFails, AbortedInGap

(* persistVerdict: the rows that had the host when the servers were listed.           *)
LEMMA CheckPersist == ASSUME CheckInv, NEW f \in Refreshes, Persist(f) PROVE CheckInv' /\ OnlyRenewed
<1> DEFINE x == refresh[f]
           host == Due(f)
           Written(r) == [rows[r] EXCEPT !.status = x.status, !.age = x.age, !.about = host,
                                         !.moved = @ /\ rows[r].host # host]
           kept == [age |-> x.age, wait |-> 0]
<1>1. x \in RefreshState /\ RefreshOK(x, mem, rows) /\ RefreshesOK /\ ProcessOK /\ RowsOK
  BY DEF CheckInv, RefreshesOK
<1>2. /\ x.step = "persist" /\ refresh' = [refresh EXCEPT ![f] = After(f, 0)]
      /\ mem' = [mem EXCEPT ![host] = kept]
      /\ UNCHANGED <<wait, sinceProbe, leased, stopping, edits, faults>>
  BY DEF Persist
<1>3. rows' = [r \in Servers |-> IF x.snapshot[r] = host /\ rows[r] # Null THEN Written(r) ELSE rows[r]]
  BY DEF Persist, idsForHost
<1>d. host \in Hosts /\ host # Null
  <2>1. x.due \in Seq(Hosts) /\ x.due # <<>> /\ \A i \in 1..Len(x.due) : x.due[i] \in Hosts
    BY <1>1, <1>2 DEF RefreshOK, RefreshState, DueKnown
  <2>2. 1 \in 1..Len(x.due) /\ host = x.due[1]
    BY <2>1 DEF Due
  <2> QED BY <2>1, <2>2, CheckNumbers
<1>v. x.status \in Statuses /\ x.status # Null /\ x.age \in 0..MaxAge /\ x.age # Null
  BY <1>1, <1>2, CheckNumbers DEF RefreshOK, VerdictHeld, RefreshState
<1>4. ASSUME NEW r \in Servers, rows[r] # Null, x.snapshot[r] = host
      PROVE  /\ rows'[r] = Written(r) /\ Written(r) \in Row /\ Written(r).host = rows[r].host
             /\ Written(r).status = x.status /\ Written(r).age = x.age /\ Written(r).about = host
             /\ Written(r).moved <=> rows[r].host # host
  <2>1. rows[r] \in Row
    BY <1>1, <1>4 DEF RowsOK
  <2>2. rows[r].host # host => rows[r].moved
    BY <1>1, <1>4, <1>d DEF RefreshOK, MovesSeen
  <2>3. rows[r].moved \in BOOLEAN
    BY <2>1 DEF Row
  <2>4. (rows[r].moved /\ rows[r].host # host) \in BOOLEAN
        /\ ((rows[r].moved /\ rows[r].host # host) <=> rows[r].host # host)
    BY <2>2, <2>3
  <2>5. Written(r) = [rows[r] EXCEPT !.status = x.status, !.age = x.age, !.about = host,
                                     !.moved = (rows[r].moved /\ rows[r].host # host)]
    BY <2>1 DEF Row
  <2>6. x.age \in Age
    BY <1>v DEF Age
  <2>7. rows'[r] = Written(r)
    BY <1>3, <1>4
  <2> HIDE DEF x, host, Written, Age
  <2> QED BY <1>v, <1>d, <2>1, <2>4, <2>5, <2>6, <2>7 DEF Row
<1> HIDE DEF Written
<1>5. \A r \in Servers : rows'[r] = rows[r] \/ (rows[r] # Null /\ x.snapshot[r] = host)
  BY <1>3
<1>6. RowsOK'
  <2>1. \A r \in Servers : rows'[r] \in Row \cup {Null}
    BY <1>1, <1>4, <1>5 DEF RowsOK
  <2>2. rows' \in [Servers -> Row \cup {Null}]
    <3>1. rows' = [r \in Servers |-> rows'[r]]
      BY <1>3
    <3> QED BY <2>1, <3>1
  <2>3. ASSUME NEW r \in Servers, rows'[r] # Null
        PROVE  /\ rows'[r].status = Null <=> rows'[r].about = Null
               /\ rows'[r].status = Null <=> rows'[r].age = Null
               /\ rows'[r].about # Null => rows'[r].about = rows'[r].host \/ rows'[r].moved
    <3>1. CASE rows'[r] = rows[r]
      BY <1>1, <2>3, <3>1 DEF RowsOK
    <3>2. CASE rows[r] # Null /\ x.snapshot[r] = host
      <4>1. /\ rows'[r].status = x.status /\ rows'[r].age = x.age /\ rows'[r].about = host
            /\ rows'[r].host = rows[r].host /\ (rows'[r].moved <=> rows[r].host # host)
        BY <1>4, <3>2
      <4> HIDE DEF x, host
      <4> QED BY <1>v, <1>d, <4>1
    <3> QED BY <1>5, <3>1, <3>2
  <2> QED BY <2>2, <2>3 DEF RowsOK
<1>7. OnlyRenewed
  <2>1. ASSUME NEW r \in Servers, rows[r] # Null, rows[r].status # Null, x.snapshot[r] = host
        PROVE  rows'[r].status # Null /\ rows'[r].age <= rows[r].age
    <3>1. rows'[r].status = x.status /\ rows'[r].age = x.age
      BY <1>4, <2>1
    <3>2. rows[r].age # Null
      BY <1>1, <2>1 DEF RowsOK
    <3>3. x.age <= rows[r].age
      BY <1>1, <1>2, <2>1, <3>2 DEF RefreshOK, VerdictHeld
    <3> QED BY <1>v, <3>1, <3>3
  <2> QED BY <1>5, <2>1 DEF OnlyRenewed
<1>8. mem' \in [Hosts -> HostBlockState \cup {Null}] /\ \A h \in Hosts : mem[h] # Null => mem'[h] # Null
  <2>1. kept \in HostBlockState /\ kept # Null
    <3>1. 0 \in 0..Backoff
      BY CheckNumbers
    <3>2. kept \in HostBlockState
      <4>1. x.age \in Age
        BY <1>v DEF Age
      <4> HIDE DEF x, Age
      <4> QED BY <3>1, <4>1 DEF HostBlockState
    <3> HIDE DEF kept
    <3> QED BY <3>2, StateAssumption
  <2> HIDE DEF kept, host
  <2> QED BY <1>1, <1>2, <1>d, <2>1 DEF ProcessOK
<1>9. ProcessOK'
  BY <1>1, <1>2, <1>8 DEF ProcessOK
<1>10. MovesSeen(x, rows')
  <2>1. ASSUME NEW r \in Servers, x.snapshot[r] # Null, rows'[r] # Null, rows'[r].host # x.snapshot[r]
        PROVE  rows'[r].moved
    <3>1. CASE rows'[r] = rows[r]
      BY <1>1, <2>1, <3>1 DEF RefreshOK, MovesSeen
    <3>2. CASE rows[r] # Null /\ x.snapshot[r] = host
      BY <1>4, <2>1, <3>2
    <3> QED BY <1>5, <3>1, <3>2
  <2>2. x.step \notin {"idle", "list"}
    BY <1>2
  <2> HIDE DEF x
  <2> QED BY <2>1, <2>2 DEF MovesSeen
<1>11. RefreshOK(After(f, 0), mem', rows')
  <2>1. 0 \in 0..FailLimit
    BY CheckNumbers
  <2> QED BY <1>2, <1>8, <1>10, <2>1, AfterOK
<1>12. RefreshesOK'
  BY <1>1, <1>2, <1>11, OneMoves
<1> QED BY <1>6, <1>7, <1>9, <1>12 DEF CheckInv

--------------------------------------------------------------------------------
(* Every step keeps the invariant, and makes no verdict older.                       *)
LEMMA CheckStutters == CheckInv /\ UNCHANGED checkVars => CheckInv' /\ OnlyRenewed
<1> SUFFICES ASSUME CheckInv, UNCHANGED checkVars PROVE CheckInv' /\ OnlyRenewed
  OBVIOUS
<1> USE DEF checkVars
<1>1. RefreshesOK'
  BY DEF CheckInv, RefreshesOK, OneRefresh
<1>2. ProcessOK'
  BY DEF CheckInv, ProcessOK
<1> QED BY <1>1, <1>2, RowsSame DEF CheckInv

LEMMA CheckStep == CheckInv /\ [CheckNext]_checkVars => CheckInv' /\ OnlyRenewed
<1> SUFFICES ASSUME CheckInv, [CheckNext]_checkVars PROVE CheckInv' /\ OnlyRenewed
  OBVIOUS
<1>1. CASE \E r \in Servers : Delete(r) \/ \E h \in Hosts : Create(r, h) \/ Move(r, h)
  BY <1>1, CheckEdits
<1>2. CASE Pass
  BY <1>2, CheckPass
<1>3. CASE Lease \/ LoseLease \/ Stop \/ Stopped \/ Crash
  BY <1>3, CheckProcess
<1>4. ASSUME NEW f \in Refreshes, Ensure(f) \/ List(f) PROVE CheckInv' /\ OnlyRenewed
  BY <1>4, CheckEnsure, CheckList
<1>5. ASSUME NEW f \in Refreshes, StatementFails(f) \/ CheckNamesProbe(f) \/ BeginProbe(f) \/ AbortedInGap(f)
      PROVE  CheckInv' /\ OnlyRenewed
  BY <1>5, CheckWaits
<1>6. ASSUME NEW f \in Refreshes, CheckIsAll(f) \/ ProbeEnds(f) PROVE CheckInv' /\ OnlyRenewed
  <2>1. PICK outcome \in ProbelessOutcomes \cup ProbedOutcomes :
            /\ QueryEnds(f, outcome) /\ (Fault \/ UNCHANGED faults)
            /\ UNCHANGED <<rows, sinceProbe, leased, stopping, edits>>
    BY <1>6 DEF CheckIsAll, ProbeEnds, Answered
  <2>2. refresh[f].step \in {"check", "probe"}
    BY <1>6 DEF CheckIsAll, ProbeEnds
  <2>3. outcome.status \in Statuses \cup {Null} /\ outcome.code \in Nat
    BY OutcomeType
  <2> QED BY <2>1, <2>2, <2>3, CheckAnswered
<1>7. ASSUME NEW f \in Refreshes, Persist(f) PROVE CheckInv' /\ OnlyRenewed
  BY <1>7, CheckPersist
<1> QED BY <1>1, <1>2, <1>3, <1>4, <1>5, <1>6, <1>7, CheckStutters DEF CheckNext

(* The invariant of the block check holds.                                           *)
LEMMA CheckInvHolds == CheckSpec => []CheckInv
BY InitCheckInv, CheckStep, PTL DEF CheckSpec

(* The variables have their types, and a refresh that asks has a host to ask about,   *)
(* which the process remembers (block-check.service.ts:207).                         *)
THEOREM CheckTypesHold == CheckSpec => []CheckTypeOK
BY CheckInvHolds, InvTypes, PTL

(* A verdict in a row is about the host of the row, unless the host was changed after *)
(* the verdict or while the query was under way (block-check.service.ts:85).         *)
THEOREM VerdictIsAboutItsHostHolds == CheckSpec => []VerdictIsAboutItsHost
BY CheckInvHolds, InvTypes, PTL

(* No step loses the verdict of a row or replaces it by an older one, whatever fails, *)
(* hangs, crashes or is edited meanwhile (block-check.service.ts:142).               *)
THEOREM VerdictsAreOnlyRenewedHolds == CheckSpec => VerdictsAreOnlyRenewed
<1>1. CheckInv /\ [CheckNext]_checkVars => [OnlyRenewed]_checkVars
  BY CheckStep
<1> QED BY <1>1, CheckInvHolds, PTL DEF CheckSpec, VerdictsAreOnlyRenewed, OnlyRenewed

(* Whatever replies end a probe, in whatever number and order, the verdict is the one *)
(* that the whole and current set of them justifies (client.ts:261-284).             *)
THEOREM VerdictRestsOnWholeProbeHolds == CheckSpec => []VerdictRestsOnWholeProbe
<1>1. VerdictRestsOnWholeProbe
  BY QueryFollowsReferenceHolds DEF VerdictRestsOnWholeProbe
<1> QED BY <1>1, PTL
================================================================================
