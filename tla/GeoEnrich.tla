------------------------------- MODULE GeoEnrich -------------------------------
(* Where a peer connects from.  A poll stores the endpoint of a peer and writes it  *)
(* into the journal; after the poll the addresses are looked up, through a cache     *)
(* and a budget shared by all servers, and what is found is stored with every peer   *)
(* and event that has the address by then (src/src/server/services/geoip.service.ts, *)
(* lib/geoip.ts, collector.service.ts).  Seen are one peer, the polls of its server, *)
(* and the lookups of other servers at the same time.                                *)
EXTENDS Naturals, FiniteSets

CONSTANTS
    None,
    PeerHosts,   \* hosts of endpoints of the peer
    Lookupable,  \* hosts that may be looked up; as a value of geo, what is known of one
    Own, Others, \* the enrichment after a poll of the server, and those of other servers
    Concurrency, \* GEOIP_LOOKUP_CONCURRENCY
    PerTick,     \* GEOIP_MAX_API_PER_TICK
    PerMinute,   \* GEOIP_MAX_API_PER_MINUTE
    MaxFailures  \* how many lookups fail

ASSUME GeoAssumption ==
    /\ None \notin PeerHosts \cup Lookupable /\ Own \notin Others
    /\ Concurrency \in Nat \ {0} /\ PerTick \in Nat \ {0} /\ PerMinute \in Nat \ {0}
    /\ MaxFailures \in Nat

VARIABLES
    peer,     \* the row of the peer
    event,    \* one event of its journal
    poll,     \* what persistPoll has read and is about to write
    cache,    \* ip_geo_cache
    inflight, \* addresses of which a lookup is under way
    slots,    \* what is left of the budget of this minute
    run,      \* the enrichments
    failures

vars == <<peer, event, poll, cache, inflight, slots, run, failures>>

Enrichments == {Own} \cup Others
Host == PeerHosts \cup {None}
Geo == Lookupable \cup {None}
Peer == [endpoint : Host, geo : Geo, active : BOOLEAN]
Event == [endpoint : Host, geo : Geo]
CacheRow == [ok : BOOLEAN, fresh : BOOLEAN]
Polls == [step : {"idle", "upsert", "journal", "removals", "enrich"}, prev : Peer \cup {None},
          fillIn : BOOLEAN, remote : Host, written : Peer \cup {None}]
NoPoll == [step |-> "idle", prev |-> None, fillIn |-> FALSE, remote |-> None, written |-> None]
Runs == [step : {"idle", "resolve", "apply"}, todo : SUBSET Lookupable, calling : SUBSET Lookupable,
         resolved : SUBSET Lookupable, half : Lookupable \cup {None},
         stopped : BOOLEAN, late : BOOLEAN, calls : 0..PerTick]
NoRun == [step |-> "idle", todo |-> {}, calling |-> {}, resolved |-> {}, half |-> None,
          stopped |-> FALSE, late |-> FALSE, calls |-> 0]

ASSUME NoneAssumption == None \notin Peer

TypeOK ==
    /\ peer \in Peer \cup {None}
    /\ event \in Event \cup {None} /\ (peer = None => event = None)
    /\ poll \in Polls
    /\ cache \in [Lookupable -> CacheRow \cup {None}]
    /\ inflight \subseteq Lookupable
    /\ slots \in 0..PerMinute /\ failures \in 0..MaxFailures
    /\ run \in [Enrichments -> Runs]
    /\ inflight = UNION {run[e].calling : e \in Enrichments}
    /\ \A e \in Enrichments : Cardinality(run[e].calling) <= Concurrency

Init ==
    /\ peer = None /\ event = None /\ poll = NoPoll
    /\ cache = [ip \in Lookupable |-> None]
    /\ inflight = {} /\ slots = PerMinute
    /\ run = [e \in Enrichments |-> NoRun]
    /\ failures = 0

geoVars == <<cache, inflight, slots, run, failures>>

--------------------------------------------------------------------------------
(* persistPoll: the rows are read once, before any of them is written.  The queue of *)
(* the server starts no poll before the one before is enriched.                     *)
BeginPersist(remote) ==
    /\ poll.step = "idle" /\ run[Own].step = "idle"
    /\ poll' = [NoPoll EXCEPT !.step = "upsert", !.prev = peer, !.remote = remote,
                             !.fillIn = remote # None /\ event # None /\ event.endpoint = None]
    /\ UNCHANGED <<peer, event, geoVars>>

(* The poll does not list the peer.                                                *)
BeginPersistAbsent ==
    /\ poll.step = "idle" /\ run[Own].step = "idle"
    /\ poll' = [NoPoll EXCEPT !.step = "removals", !.prev = peer]
    /\ UNCHANGED <<peer, event, geoVars>>

EndpointOf(source) == IF source = None THEN None ELSE source.endpoint

(* Mutant: the geo of the row goes with whatever endpoint it has now.              *)
snapshotWhatever(source, endpoint) == IF source = None THEN None ELSE source.geo

snapshotGeo(source, endpoint) ==
    IF source = None \/ EndpointOf(source) # endpoint THEN None ELSE source.geo

Upsert ==
    LET hostChanged == EndpointOf(poll.prev) # poll.remote
        kept == IF peer = None \/ hostChanged THEN None ELSE peer.geo
        row == [endpoint |-> poll.remote, geo |-> kept, active |-> TRUE]
    IN  /\ poll.step = "upsert"
        /\ peer' = row
        /\ poll' = [poll EXCEPT !.step = "journal", !.written = row]
        /\ UNCHANGED <<event, geoVars>>

(* An event is written, or the last one gets its endpoint, or neither.             *)
WriteEvent ==
    event' = [endpoint |-> poll.remote, geo |-> snapshotGeo(poll.prev, poll.remote)]

FillIn ==
    event' = IF poll.fillIn
             THEN [endpoint |-> poll.remote, geo |-> snapshotGeo(poll.written, poll.remote)]
             ELSE event

Journal ==
    /\ poll.step = "journal"
    /\ WriteEvent \/ FillIn
    /\ poll' = [NoPoll EXCEPT !.step = "enrich"]
    /\ UNCHANGED <<peer, geoVars>>

(* A peer that is missing is marked, and deleted when it is missing again.          *)
Removals ==
    /\ poll.step = "removals"
    /\ LET goes == poll.prev # None /\ ~poll.prev.active
       IN  /\ peer' = IF poll.prev = None \/ goes THEN None ELSE [peer EXCEPT !.active = FALSE]
           /\ event' = IF goes THEN None ELSE event
    /\ poll' = [NoPoll EXCEPT !.step = "enrich"]
    /\ UNCHANGED geoVars

--------------------------------------------------------------------------------
(* enrichServerPeerEndpoints: the addresses of active peers and of their journal.  *)
Begin(e, ips) == run' = [run EXCEPT ![e] = [NoRun EXCEPT !.step = "resolve", !.todo = ips \cap Lookupable]]

EnrichOwn ==
    /\ poll.step = "enrich"
    /\ Begin(Own, IF peer # None /\ peer.active THEN {peer.endpoint, EndpointOf(event)} ELSE {})
    /\ poll' = NoPoll
    /\ UNCHANGED <<peer, event, cache, inflight, slots, failures>>

EnrichOther(e) ==
    /\ run[e].step = "idle"
    /\ \E ips \in SUBSET Lookupable \ {{}} : Begin(e, ips)
    /\ UNCHANGED <<peer, event, poll, cache, inflight, slots, failures>>

(* resolveIp, by one of the workers of mapPool.                                     *)
Free(e, ip) ==
    run[e].step = "resolve" /\ ip \in run[e].todo /\ Cardinality(run[e].calling) < Concurrency

isFresh(ip) == cache[ip] # None /\ cache[ip].fresh
isKnown(ip) == cache[ip] # None /\ cache[ip].ok

(* Mutant: only the budget of the minute counts.                                    *)
AllowByMinute(e) == ~run[e].stopped /\ ~run[e].late /\ slots > 0

allowApi(e) == ~run[e].stopped /\ ~run[e].late /\ run[e].calls < PerTick /\ slots > 0

(* The cache answers; it does so with an old row, too, when the API may not be asked. *)
FromCache(e, ip) ==
    /\ Free(e, ip) /\ (isFresh(ip) \/ ~allowApi(e))
    /\ run' = [run EXCEPT ![e].todo = @ \ {ip},
                          ![e].resolved = IF isKnown(ip) THEN @ \cup {ip} ELSE @]
    /\ UNCHANGED <<peer, event, poll, cache, inflight, slots, failures>>

(* The API is asked, or the lookup joined that another server has under way.        *)
FromApi(e, ip) ==
    /\ Free(e, ip) /\ ~isFresh(ip) /\ allowApi(e)
    /\ slots' = slots - 1
    /\ inflight' = inflight \cup {ip}
    /\ run' = [run EXCEPT ![e].todo = @ \ {ip}, ![e].calling = @ \cup {ip}, ![e].calls = @ + 1]
    /\ UNCHANGED <<peer, event, poll, cache, failures>>

(* The end of a lookup reaches everyone who waits for it.                           *)
Returned(ip, heard) ==
    /\ ip \in inflight
    /\ inflight' = inflight \ {ip}
    /\ run' = [e \in Enrichments |-> IF ip \in run[e].calling
                                     THEN [heard[e] EXCEPT !.calling = @ \ {ip}] ELSE run[e]]
    /\ UNCHANGED <<peer, event, poll, slots>>

Found(ip) ==
    /\ Returned(ip, [e \in Enrichments |-> [run[e] EXCEPT !.resolved = @ \cup {ip}]])
    /\ cache' = [cache EXCEPT ![ip] = [ok |-> TRUE, fresh |-> TRUE]]
    /\ UNCHANGED failures

Fails == failures < MaxFailures /\ failures' = failures + 1

(* An empty, refused or failed lookup is cached over what was known before.         *)
NotFound(ip) ==
    /\ Returned(ip, run)
    /\ cache' = [cache EXCEPT ![ip] = [ok |-> FALSE, fresh |-> TRUE]]
    /\ Fails

RateLimited(ip) ==
    /\ Returned(ip, [e \in Enrichments |-> [run[e] EXCEPT !.stopped = TRUE]])
    /\ Fails /\ UNCHANGED cache

(* GEOIP_ENRICH_DEADLINE_MS passes while a lookup takes its time and others wait.     *)
Late(e) ==
    /\ run[e].calling # {} /\ run[e].todo # {} /\ ~run[e].late
    /\ run' = [run EXCEPT ![e].late = TRUE]
    /\ UNCHANGED <<peer, event, poll, cache, inflight, slots, failures>>

(* Mutant: a failure stays in the cache for good.                                   *)
AnswersOnly == {ip \in Lookupable : isKnown(ip)}

(* Rows whose GEOIP_SUCCESS_TTL_MS or GEOIP_FAILURE_TTL_MS may end.                  *)
Expiring == {ip \in Lookupable : isFresh(ip)}

(* A minute passes: tryConsumeGeoipApiSlot counts anew, and rows of the cache, which *)
(* live for many minutes, come to their end.                                        *)
MinutePasses(ended) ==
    /\ slots' = PerMinute
    /\ cache' = [ip \in Lookupable |-> IF ip \in ended THEN [cache[ip] EXCEPT !.fresh = FALSE] ELSE cache[ip]]
    /\ UNCHANGED <<peer, event, poll, inflight, run, failures>>

NewMinute == \E ended \in SUBSET Expiring : MinutePasses(ended)

(* pruneOldSamples deletes a row that is as old as the journal may be, which is one *)
(* that nobody has asked for since it expired.                                      *)
PruneCache(ip) ==
    /\ cache[ip] # None /\ ~isFresh(ip) /\ ip \notin {EndpointOf(peer), EndpointOf(event)}
    /\ cache' = [cache EXCEPT ![ip] = None]
    /\ UNCHANGED <<peer, event, poll, inflight, slots, run, failures>>

--------------------------------------------------------------------------------
(* applyResolvedGeos: first the peers, then the events, one address after another.  *)
Resolved(e) ==
    /\ run[e].step = "resolve" /\ run[e].todo = {} /\ run[e].calling = {}
    /\ run' = [run EXCEPT ![e] = IF run[e].resolved = {} THEN NoRun
                                 ELSE [NoRun EXCEPT !.step = "apply", !.resolved = run[e].resolved]]
    /\ UNCHANGED <<peer, event, poll, cache, inflight, slots, failures>>

ApplyToPeers(e, ip) ==
    /\ run[e].step = "apply" /\ run[e].half = None /\ ip \in run[e].resolved
    /\ peer' = IF peer # None /\ peer.active /\ peer.endpoint = ip THEN [peer EXCEPT !.geo = ip] ELSE peer
    /\ run' = [run EXCEPT ![e].half = ip, ![e].resolved = @ \ {ip}]
    /\ UNCHANGED <<event, poll, cache, inflight, slots, failures>>

ApplyToEvents(e) ==
    LET ip == run[e].half
    IN  /\ ip # None
        /\ event' = IF event # None /\ peer.active /\ event.endpoint = ip /\ event.geo = None
                    THEN [event EXCEPT !.geo = ip] ELSE event
        /\ run' = [run EXCEPT ![e] = IF @.resolved = {} THEN NoRun ELSE [@ EXCEPT !.half = None]]
        /\ UNCHANGED <<peer, poll, cache, inflight, slots, failures>>

--------------------------------------------------------------------------------
PollStep ==
    \/ \E remote \in Host : BeginPersist(remote)
    \/ BeginPersistAbsent \/ Upsert \/ Journal \/ Removals \/ EnrichOwn

EnrichStep(e) ==
    \/ \E ip \in Lookupable : FromCache(e, ip) \/ FromApi(e, ip) \/ ApplyToPeers(e, ip)
    \/ Resolved(e) \/ ApplyToEvents(e)

LookupEnds(ip) == Found(ip) \/ NotFound(ip) \/ RateLimited(ip)

Next ==
    \/ PollStep \/ NewMinute
    \/ \E e \in Others : EnrichOther(e)
    \/ \E ip \in Lookupable : LookupEnds(ip) \/ PruneCache(ip)
    \/ \E e \in Enrichments : EnrichStep(e) \/ Late(e)

Spec == Init /\ [][Next]_vars

(* The server is polled again and again; statements return, lookups have a timeout, *)
(* and rows of the cache expire.                                                     *)
Fairness ==
    /\ WF_vars(PollStep)
    /\ \A e \in Enrichments : WF_vars(EnrichStep(e))
    /\ \A ip \in Lookupable : WF_vars(LookupEnds(ip))
    /\ WF_vars(MinutePasses(Expiring))

FairSpec == Spec /\ Fairness

--------------------------------------------------------------------------------
(* What the pages say of an address is about that address: an endpoint that changes *)
(* between a lookup and its result never gets the place of the old one, nor does an  *)
(* event that is written or filled in from a row read before                         *)
(* (collector.service.ts:558-571, geoip.service.ts:243).                            *)
GeoBelongsToEndpoint ==
    /\ peer # None => peer.geo \in {None, peer.endpoint}
    /\ event # None => event.geo \in {None, event.endpoint}

(* A peer that stays connected from a public address gets its place in the end,      *)
(* whatever failed, was rate limited or was cached as unknown before, and although    *)
(* others may take the calls of a minute (geoip.service.ts:141-161).                *)
PlaceIsFound ==
    \A ip \in Lookupable \cap PeerHosts :
        <>[](peer # None /\ peer.active /\ peer.endpoint = ip) => <>(peer # None /\ peer.geo = ip)
================================================================================
