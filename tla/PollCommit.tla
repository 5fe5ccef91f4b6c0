----------------------------- MODULE PollCommit -----------------------------
(***************************************************************************)
(* How one poll of one VPN server becomes rows in the database             *)
(* (src/server/services/collector.service.ts, lib/amnezia/peer-sync.ts,    *)
(* lib/presence.ts, computeDelta of lib/amnezia/parse.ts).                 *)
(*                                                                         *)
(* The VPN counts bytes per peer; its counters go back to 0 when the       *)
(* container restarts or a peer is set up again.  A poll reads them all at *)
(* once and then persists peer by peer: persistPollUnlocked is not one     *)
(* transaction, so a crash, a database error or the fence can end it       *)
(* between any two of its statements.  One direction of traffic stands for *)
(* both, and this module has one poll at a time: PollerPunctual and        *)
(* PollSchedule say when that is so.                                       *)
(***************************************************************************)
EXTENDS PollOutput, Functions

CONSTANTS
    None,        \* SQL NULL
    Before,      \* what every counter shows when Gate first sees the VPN
    MaxBytes,    \* bound: bytes all peers ever transfer
    MaxPolls,    \* bound: polls
    MaxAborts    \* bound: polls that end before their last statement

Kinds == {"ONLINE", "OFFLINE"}

ASSUME NoneAssumption == None \notin Nat \cup BOOLEAN \cup Peers \cup Kinds
ASSUME BoundsAssumption ==
    /\ Before \in Nat /\ MaxBytes \in Nat /\ MaxPolls \in Nat
    /\ MaxAborts \in Nat

VARIABLES
    counter,      \* VPN: [Peers -> bytes since the counter was last reset]
    traffic,      \* history: [Peers -> bytes transferred since then]
    row,          \* table "peers": [Peers -> status, last_rx_bytes, last_online]
    journal,      \* table "peer_presence_events": [Peers -> kinds, oldest first]
    hourly,       \* table "peer_hourly_samples": [Peers -> rx_delta of its rows]
    orphaned,     \* the same for rows whose peer is gone (peer_id is NULL)
    serverTotal,  \* table "server_samples": sum of rx_delta
    phase,        \* where pollServer is
    listing,      \* what the poll read from the VPN
    prev,         \* existing and lastEvents: rows as they were when loaded
    todo,         \* peers of the listing still to be persisted
    sampling,     \* the peer that was upserted and waits for its sample, or None
    deltaSum,     \* rxDeltaSum
    polls,        \* polls so far
    aborts,       \* polls that ended before their last statement
    absent        \* history: [Peers -> whole answers of a VPN without the peer
                  \*           since its row was last made ACTIVE]

device == <<counter, traffic>>
tables == <<row, journal, hourly, orphaned, serverTotal>>
poll == <<phase, listing, prev, todo, sampling, deltaSum>>
vars == <<device, tables, poll, polls, aborts, absent>>

NoRow == [status |-> "none", last |-> None, online |-> None]
NoListing == [seen |-> {}, fresh |-> {}, bytes |-> [p \in Peers |-> 0],
              complete |-> FALSE]
NoPrev == [p \in Peers |-> [was |-> NoRow, lastKind |-> None]]

Rows == [status : {"none", "ACTIVE", "REMOVED"}, last : Nat \cup {None},
         online : BOOLEAN \cup {None}]
Phases == {"idle", "read", "peers", "mark", "total"}

TypeOK ==
    /\ counter \in [Peers -> Nat]
    /\ traffic \in [Peers -> Nat]
    /\ row \in [Peers -> Rows]
    /\ journal \in [Peers -> Seq(Kinds)]
    /\ hourly \in [Peers -> Nat]
    /\ orphaned \in [Peers -> Nat]
    /\ serverTotal \in Nat
    /\ phase \in Phases
    /\ listing \in [seen : SUBSET Peers, fresh : SUBSET Peers,
                    bytes : [Peers -> Nat], complete : BOOLEAN]
    /\ prev \in [Peers -> [was : Rows, lastKind : Kinds \cup {None}]]
    /\ todo \subseteq Peers
    /\ sampling \in Peers \cup {None}
    /\ deltaSum \in Nat
    /\ polls \in 0..MaxPolls
    /\ aborts \in 0..MaxAborts
    /\ absent \in [Peers -> Nat]

Init ==
    /\ counter = [p \in Peers |-> Before]
    /\ traffic = [p \in Peers |-> 0]
    /\ row = [p \in Peers |-> NoRow]
    /\ journal = [p \in Peers |-> <<>>]
    /\ hourly = [p \in Peers |-> 0]
    /\ orphaned = [p \in Peers |-> 0]
    /\ serverTotal = 0
    /\ phase = "idle"
    /\ listing = NoListing
    /\ prev = NoPrev
    /\ todo = {}
    /\ sampling = None
    /\ deltaSum = 0
    /\ polls = 0
    /\ aborts = 0
    /\ absent = [p \in Peers |-> 0]

-----------------------------------------------------------------------------
(* Pure rules *)

\* Mutant: a counter that went back is not noticed.
DeltaWithoutReset(bytes, previous) ==
    IF previous = None THEN 0 ELSE bytes - previous

\* The first sample of a row has no delta; a counter that went back was reset.
computeDelta(bytes, previous) ==
    IF previous = None THEN 0
    ELSE IF bytes < previous THEN bytes
    ELSE bytes - previous

\* Mutant: only the last sample tells what the peer was.
PreviousOfSample(lastKind, lastOnline) == lastOnline

\* The journal tells what the peer was; without one, the last sample does.
previousPresenceOnline(lastKind, lastOnline) ==
    IF lastKind = None THEN lastOnline ELSE lastKind = "ONLINE"

\* The events to write, none or one.
presenceTransition(online, previousOnline) ==
    IF previousOnline = online \/ (previousOnline = None /\ ~online) THEN <<>>
    ELSE IF online THEN <<"ONLINE">> ELSE <<"OFFLINE">>

\* planPeerRemovals over the rows that were loaded
Missing == IF listing.complete
           THEN {p \in Peers \ listing.seen : prev[p].was.status # "none"}
           ELSE {}
DeleteIds == {p \in Missing : prev[p].was.status = "REMOVED"}
MarkRemovedIds == {p \in Missing : prev[p].was.status = "ACTIVE"}

-----------------------------------------------------------------------------
(* The VPN *)

Transfer(p) ==
    /\ SumFunction(traffic) < MaxBytes
    /\ counter' = [counter EXCEPT ![p] = @ + 1]
    /\ traffic' = [traffic EXCEPT ![p] = @ + 1]
    /\ UNCHANGED <<tables, poll, polls, aborts, absent>>

\* The container restarts, or some peers are removed and added again.
ResetCounters ==
    /\ \E reset \in SUBSET Peers :
          counter' = [p \in Peers |-> IF p \in reset THEN 0 ELSE counter[p]]
    /\ UNCHANGED <<traffic, tables, poll, polls, aborts, absent>>

-----------------------------------------------------------------------------
(* pollServer *)

\* isPeerOnline: never one without a handshake; which of the others shook hands
\* within ONLINE_THRESHOLD_SEC is up to them.
OnlineAmong(shaken) == SUBSET shaken

\* awg show answers, and the answer is accepted; a poll whose answer is not
\* changes nothing here.
Read ==
    /\ phase = "idle"
    /\ polls < MaxPolls
    /\ polls' = polls + 1
    /\ phase' = "read"
    /\ \E reading \in Readings : \E fresh \in OnlineAmong(reading.shaken) :
          /\ listing' = [seen |-> reading.seen, fresh |-> fresh,
                         bytes |-> [p \in Peers |-> IF p \in reading.uncounted
                                                    THEN 0 ELSE counter[p]],
                         complete |-> reading.complete]
          /\ absent' = [p \in Peers |->
                IF p \in reading.gone /\ row[p] # NoRow
                THEN absent[p] + 1 ELSE absent[p]]
    /\ UNCHANGED <<device, tables, prev, todo, sampling, deltaSum, aborts>>

\* persistPollUnlocked loads the peers and the last event of each.
LoadRows ==
    /\ phase = "read"
    /\ phase' = "peers"
    /\ prev' = [p \in Peers |->
                  [was |-> row[p],
                   lastKind |-> IF journal[p] = <<>> THEN None
                                ELSE journal[p][Len(journal[p])]]]
    /\ todo' = listing.seen
    /\ deltaSum' = 0
    /\ UNCHANGED <<device, tables, listing, sampling, polls, aborts, absent>>

\* db.peer.upsert: the row exists and is ACTIVE, its sample is still to come.
UpsertPeer(p) ==
    /\ phase = "peers"
    /\ sampling = None
    /\ p \in todo
    /\ sampling' = p
    /\ row' = [row EXCEPT ![p] = [status |-> "ACTIVE", last |-> @.last,
                                  online |-> @.online]]
    /\ absent' = [absent EXCEPT ![p] = 0]
    /\ UNCHANGED <<device, journal, hourly, orphaned, serverTotal, phase,
                   listing, prev, todo, deltaSum, polls, aborts>>

\* Mutant: the sum starts again with every peer.
SampleWithoutSum(p) ==
    LET delta == computeDelta(listing.bytes[p], prev[p].was.last)
        online == p \in listing.fresh
        event == presenceTransition(online,
                    previousPresenceOnline(prev[p].lastKind, prev[p].was.online))
    IN  /\ sampling = p
        /\ sampling' = None
        /\ todo' = todo \ {p}
        /\ row' = [row EXCEPT ![p] = [status |-> @.status, last |-> listing.bytes[p],
                                      online |-> online]]
        /\ journal' = [journal EXCEPT ![p] = @ \o event]
        /\ hourly' = [hourly EXCEPT ![p] = @ + delta]
        /\ deltaSum' = delta
        /\ UNCHANGED <<device, orphaned, serverTotal, phase, listing, prev,
                       polls, aborts, absent>>

\* The transaction that follows: sample, last_* columns, event, hourly row.
SamplePeer(p) ==
    LET delta == computeDelta(listing.bytes[p], prev[p].was.last)
        online == p \in listing.fresh
        event == presenceTransition(online,
                    previousPresenceOnline(prev[p].lastKind, prev[p].was.online))
    IN  /\ sampling = p
        /\ sampling' = None
        /\ todo' = todo \ {p}
        /\ row' = [row EXCEPT ![p] = [status |-> @.status, last |-> listing.bytes[p],
                                      online |-> online]]
        /\ journal' = [journal EXCEPT ![p] = @ \o event]
        /\ hourly' = [hourly EXCEPT ![p] = @ + delta]
        /\ deltaSum' = deltaSum + delta
        /\ UNCHANGED <<device, orphaned, serverTotal, phase, listing, prev,
                       polls, aborts, absent>>

\* db.peer.deleteMany: samples and events go with the peer, hourly rows stay
\* without it.
DeletePeers ==
    /\ phase = "peers"
    /\ sampling = None
    /\ todo = {}
    /\ phase' = "mark"
    /\ row' = [p \in Peers |-> IF p \in DeleteIds THEN NoRow ELSE row[p]]
    /\ journal' = [p \in Peers |-> IF p \in DeleteIds THEN <<>> ELSE journal[p]]
    /\ hourly' = [p \in Peers |-> IF p \in DeleteIds THEN 0 ELSE hourly[p]]
    /\ orphaned' = [p \in Peers |-> IF p \in DeleteIds
                                   THEN orphaned[p] + hourly[p] ELSE orphaned[p]]
    /\ absent' = [p \in Peers |-> IF p \in DeleteIds THEN 0 ELSE absent[p]]
    /\ UNCHANGED <<device, serverTotal, listing, prev, todo, sampling, deltaSum,
                   polls, aborts>>

\* db.peer.updateMany: no event is written for a peer that was online.
MarkRemoved ==
    /\ phase = "mark"
    /\ phase' = "total"
    /\ row' = [p \in Peers |->
                 IF p \in MarkRemovedIds
                 THEN [status |-> "REMOVED", last |-> row[p].last, online |-> FALSE]
                 ELSE row[p]]
    /\ UNCHANGED <<device, journal, hourly, orphaned, serverTotal, listing, prev,
                   todo, sampling, deltaSum, polls, aborts, absent>>

EndPoll ==
    /\ phase' = "idle"
    /\ listing' = NoListing
    /\ prev' = NoPrev
    /\ todo' = {}
    /\ sampling' = None
    /\ deltaSum' = 0

\* db.serverSample.create is the last statement.
StoreServerSample ==
    /\ phase = "total"
    /\ serverTotal' = serverTotal + deltaSum
    /\ EndPoll
    /\ UNCHANGED <<device, row, journal, hourly, orphaned, polls, aborts, absent>>

\* The fence drops the poll, a statement fails, or the process dies: what was
\* written stays.
Abort ==
    /\ phase # "idle"
    /\ aborts < MaxAborts
    /\ aborts' = aborts + 1
    /\ EndPoll
    /\ UNCHANGED <<device, tables, polls, absent>>

\* pruneOldSamples deletes the oldest event of a peer, whatever the poll does.
PruneJournal(p) ==
    /\ journal[p] # <<>>
    /\ journal' = [journal EXCEPT ![p] = Tail(@)]
    /\ UNCHANGED <<device, row, hourly, orphaned, serverTotal, poll, polls,
                   aborts, absent>>

Next ==
    \/ Read \/ LoadRows \/ DeletePeers \/ MarkRemoved \/ StoreServerSample
    \/ Abort \/ ResetCounters
    \/ \E p \in Peers : Transfer(p) \/ UpsertPeer(p) \/ SamplePeer(p) \/ PruneJournal(p)

Spec == Init /\ [][Next]_vars

-----------------------------------------------------------------------------
(* Properties *)

\* No byte is counted twice and none is invented: what the hourly rows say of
\* a peer never exceeds what it transferred since Gate knows the server, across
\* counter resets, polls that end half way, answers that break off elsewhere
\* than in "transfer", and peers that go and come back.
NeverOvercounts == \A p \in Peers : hourly[p] + orphaned[p] <= traffic[p]

Total == SumFunction(hourly) + SumFunction(orphaned)

\* The traffic of the server is the traffic of its peers, deleted ones
\* included; a poll that ended early can only make the server's sum the lower
\* one.
ServerTotalMatchesPeers ==
    /\ serverTotal + deltaSum <= Total
    /\ aborts = 0 => serverTotal + deltaSum = Total

\* A peer row is deleted only when the VPN gave two whole answers without having
\* the peer since it was last seen: neither an answer that broke off nor a
\* selector that failed deletes anything.
DeletedOnlyAfterTwoAbsences ==
    [][\A p \in Peers : row[p].status # "none" /\ row'[p].status = "none"
                            => absent[p] >= 2]_vars

\* The journal of a peer alternates, also after old events were pruned or the
\* peer was away, and a peer whose last sample was online has no OFFLINE
\* event at the end of its journal.
JournalIsSound == \A p \in Peers :
    /\ \A i \in 1..Len(journal[p]) - 1 : journal[p][i] # journal[p][i + 1]
    /\ row[p].online = TRUE /\ journal[p] # <<>>
          => journal[p][Len(journal[p])] = "ONLINE"
=============================================================================
