-------------------------- MODULE PollCommitProofs --------------------------
(***************************************************************************)
(* Proofs about PollCommit, for any set of peers and any bounds: what the  *)
(* tables count never exceeds what was transferred, the journal of a peer  *)
(* is sound, and a peer is deleted only after two absences.  The first and *)
(* the last need that the section "transfer" has a line for every peer.    *)
(***************************************************************************)
EXTENDS PollCommit, Sums, TLAPS

-----------------------------------------------------------------------------
(* What a reading can be *)

TransferIsWhole == "transfer" \notin Faulty

\* parsePollOutput names peers only.
LEMMA ReadingTypes ==
    ASSUME NEW r \in Readings
    PROVE  /\ r.seen \subseteq Peers
           /\ r.shaken \subseteq Peers
           /\ r.complete \in BOOLEAN
    <1>1. PICK o \in Outputs : r = parsePollOutput(o)
        BY DEF Readings
    <1>2. \A s \in PeerSelectors : peersIn(o, s) \subseteq Peers
        BY DEF Outputs, peersIn
    <1>3. "latest-handshakes" \in PeerSelectors
        BY DEF PeerSelectors
    <1>4. /\ r.seen = UNION {peersIn(o, s) : s \in PeerSelectors}
          /\ r.shaken = peersIn(o, "latest-handshakes")
          /\ r.complete = isPeerListComplete(o)
        BY <1>1 DEF parsePollOutput
    <1>5. r.complete \in BOOLEAN
        BY <1>4 DEF isPeerListComplete
    <1> QED
        BY <1>2, <1>3, <1>4, <1>5, Zenon

\* An output is accepted only when the section "transfer" arrived, so that a
\* whole one has a line for every peer another section names, and what it names
\* is what the VPN has.
LEMMA WholeReading ==
    ASSUME TransferIsWhole, NEW r \in Readings
    PROVE  /\ r.uncounted = {}
           /\ \A p \in Peers : r.complete /\ p \notin r.seen => p \in r.gone
    <1>1. PICK o \in Outputs : accepted(o) /\ r = parsePollOutput(o)
        BY DEF Readings, accepted, readLocalAwg
    <1>2. "transfer" \in sections(o)
        BY <1>1 DEF accepted, selectorOk, peersIn
    <1>3. "transfer" \in PeerSelectors
        BY DEF PeerSelectors
    <1>4. /\ \A s \in PeerSelectors : o.lines[s] \subseteq o.configured
          /\ o.lines["transfer"] = o.configured
        BY <1>3 DEF Outputs, TransferIsWhole
    <1>5. peersIn(o, "transfer") = o.configured
        BY <1>2, <1>4 DEF peersIn
    <1>6. \A s \in PeerSelectors : peersIn(o, s) \subseteq o.configured
        BY <1>4 DEF peersIn
    <1>7. UNION {peersIn(o, s) : s \in PeerSelectors} = o.configured
        BY <1>3, <1>5, <1>6, Zenon
    <1>8. /\ r.seen = o.configured
          /\ r.uncounted = o.configured \ o.configured
          /\ r.complete = isPeerListComplete(o)
          /\ r.gone = gone(o)
        BY <1>1, <1>5, <1>7 DEF parsePollOutput
    <1>9. isPeerListComplete(o) => "clients-table" \in sections(o)
        <2>1. o.last \in 1..12
            BY DEF Outputs, Script
        <2>2. ASSUME NEW i \in 1..o.last, Script[i] \in {"clients-table", "end"}
              PROVE  o.last >= 11
            BY <2>1, <2>2 DEF Script
        <2>3. Script[11] = "clients-table"
            BY DEF Script
        <2>4. o.last >= 11 => "clients-table" \in {Script[i] : i \in 1..o.last}
            BY <2>1, <2>3
        <2> QED
            BY <2>2, <2>4 DEF isPeerListComplete, sections
    <1> QED
        BY <1>8, <1>9 DEF gone

-----------------------------------------------------------------------------
(* The pure rules *)

\* computeDelta returns a number of bytes, and none for a first sample or for
\* a counter that stands still.
LEMMA DeltaIsNat ==
    ASSUME NEW b \in Nat, NEW l \in Nat \cup {None}
    PROVE  /\ computeDelta(b, l) \in Nat
           /\ computeDelta(b, b) = 0
           /\ computeDelta(b, None) = 0
           /\ computeDelta(0, l) = 0
    BY NoneAssumption, SMT DEF computeDelta

\* A byte more raises a delta by one at most.
LEMMA DeltaOfOneByte ==
    ASSUME NEW b \in Nat, NEW l \in Nat \cup {None}
    PROVE  computeDelta(b + 1, l) <= computeDelta(b, l) + 1
    BY NoneAssumption, SMT DEF computeDelta

\* A sample in between never lowers the sum of the deltas: leaving one out, as
\* a poll that ends early does, does not count too much.
LEMMA DeltaTriangle ==
    ASSUME NEW c \in Nat, NEW b \in Nat, NEW l \in Nat \cup {None}
    PROVE  computeDelta(c, l) <= computeDelta(b, l) + computeDelta(c, b)
    BY NoneAssumption, SMT DEF computeDelta

-----------------------------------------------------------------------------
(* What the actions do to the rows and to the journal *)

\* UpsertPeer changes the status of one row, to ACTIVE.
LEMMA UpsertEffect ==
    ASSUME TypeOK, NEW p \in Peers, UpsertPeer(p)
    PROVE  /\ row' \in [Peers -> Rows]
           /\ \A q \in Peers : q # p => row'[q] = row[q]
           /\ row'[p].status = "ACTIVE"
           /\ row'[p].last = row[p].last
           /\ row'[p].online = row[p].online
    <1> DEFINE new == [status |-> "ACTIVE", last |-> row[p].last,
                       online |-> row[p].online]
    <1>1. row \in [Peers -> Rows] /\ row[p] \in Rows
        BY DEF TypeOK
    <1>2. new \in Rows
        BY <1>1 DEF Rows
    <1>3. row' = [row EXCEPT ![p] = new]
        BY DEF UpsertPeer
    <1>4. new.status = "ACTIVE" /\ new.last = row[p].last /\ new.online = row[p].online
        OBVIOUS
    <1> HIDE DEF new
    <1> QED
        BY <1>1, <1>2, <1>3, <1>4

\* SamplePeer stores what the poll read of one peer.
LEMMA SampleEffect ==
    ASSUME TypeOK, NEW p \in Peers, SamplePeer(p)
    PROVE  /\ row' \in [Peers -> Rows]
           /\ \A q \in Peers : q # p => row'[q] = row[q]
           /\ row'[p].status = row[p].status
           /\ row'[p].last = listing.bytes[p]
           /\ row'[p].online = (p \in listing.fresh)
    <1> DEFINE online == (p \in listing.fresh)
               new == [status |-> row[p].status, last |-> listing.bytes[p],
                       online |-> online]
    <1>1. row \in [Peers -> Rows] /\ row[p] \in Rows /\ listing.bytes[p] \in Nat
        BY DEF TypeOK
    <1>2. online \in BOOLEAN
        OBVIOUS
    <1>3. row' = [row EXCEPT ![p] = new]
        BY DEF SamplePeer
    <1> HIDE DEF online
    <1>4. new \in Rows
        BY <1>1, <1>2 DEF Rows
    <1>5. new.status = row[p].status /\ new.last = listing.bytes[p] /\ new.online = online
        OBVIOUS
    <1> HIDE DEF new
    <1>6. /\ row' \in [Peers -> Rows] /\ row'[p] = new
          /\ \A q \in Peers : q # p => row'[q] = row[q]
        BY <1>1, <1>3, <1>4
    <1> QED
        BY <1>5, <1>6 DEF online

\* SamplePeer writes an event, or none, and adds the delta to the hour.
LEMMA SampleWrites ==
    ASSUME TypeOK, NEW p \in Peers, SamplePeer(p)
    PROVE  /\ \E event \in {<<>>, <<"ONLINE">>, <<"OFFLINE">>} :
                 journal' = [journal EXCEPT ![p] = @ \o event]
           /\ \E delta \in Nat :
                 /\ delta = computeDelta(listing.bytes[p], prev[p].was.last)
                 /\ hourly' = [hourly EXCEPT ![p] = @ + delta]
                 /\ deltaSum' = deltaSum + delta
    <1> DEFINE online == p \in listing.fresh
               before == previousPresenceOnline(prev[p].lastKind, prev[p].was.online)
               event == presenceTransition(online, before)
               delta == computeDelta(listing.bytes[p], prev[p].was.last)
    <1>1. event \in {<<>>, <<"ONLINE">>, <<"OFFLINE">>}
        <2> HIDE DEF online, before
        <2> QED
            BY Zenon DEF presenceTransition
    <1>2. listing.bytes[p] \in Nat /\ prev[p].was.last \in Nat \cup {None}
        BY DEF TypeOK, Rows
    <1>3. delta \in Nat
        BY <1>2, DeltaIsNat
    <1>4. /\ journal' = [journal EXCEPT ![p] = @ \o event]
          /\ hourly' = [hourly EXCEPT ![p] = @ + delta]
          /\ deltaSum' = deltaSum + delta
        BY Zenon DEF SamplePeer
    <1> HIDE DEF event, delta
    <1>5. delta = computeDelta(listing.bytes[p], prev[p].was.last)
        BY DEF delta
    <1> QED
        BY <1>1, <1>3, <1>4, <1>5, Zenon

\* MarkRemoved sets the status and the online flag of some rows.
LEMMA MarkEffect ==
    ASSUME TypeOK, MarkRemoved
    PROVE  /\ row' \in [Peers -> Rows]
           /\ \A q \in Peers : q \notin MarkRemovedIds => row'[q] = row[q]
           /\ \A q \in MarkRemovedIds : /\ row'[q].status = "REMOVED"
                                        /\ row'[q].last = row[q].last
                                        /\ row'[q].online = FALSE
    <1>1. row \in [Peers -> Rows]
        BY DEF TypeOK
    <1>2. ASSUME NEW q \in Peers
          PROVE  /\ [status |-> "REMOVED", last |-> row[q].last, online |-> FALSE] \in Rows
                 /\ row[q] \in Rows
        BY <1>1 DEF Rows
    <1>3. row' = [q \in Peers |->
                    IF q \in MarkRemovedIds
                    THEN [status |-> "REMOVED", last |-> row[q].last, online |-> FALSE]
                    ELSE row[q]]
        BY DEF MarkRemoved
    <1>4. MarkRemovedIds \subseteq Peers
        BY DEF MarkRemovedIds, Missing
    <1> QED
        BY <1>2, <1>3, <1>4

-----------------------------------------------------------------------------
(* Types *)

\* The tables of a fresh database and a poller that has not polled have their types.
LEMMA InitTypes == Init => TypeOK
    BY NoneAssumption, BoundsAssumption, SMT
       DEF Init, TypeOK, NoRow, NoListing, NoPrev, Rows, Phases, Kinds

\* No statement of a poll, and nothing the VPN does, leaves the types.
LEMMA StepTypes == TypeOK /\ [Next]_vars => TypeOK'
    <1> SUFFICES ASSUME TypeOK, [Next]_vars PROVE TypeOK'
        OBVIOUS
    <1> USE NoneAssumption, BoundsAssumption
    <1>1. CASE UNCHANGED vars
        BY <1>1 DEF TypeOK, vars, device, tables, poll
    <1>2. CASE Read
        <2>1. PICK r \in Readings : \E fresh \in OnlineAmong(r.shaken) :
                 /\ listing' = [seen |-> r.seen, fresh |-> fresh,
                                bytes |-> [p \in Peers |-> IF p \in r.uncounted
                                                           THEN 0 ELSE counter[p]],
                                complete |-> r.complete]
                 /\ absent' = [p \in Peers |->
                       IF p \in r.gone /\ row[p] # NoRow
                       THEN absent[p] + 1 ELSE absent[p]]
            BY <1>2, Zenon DEF Read
        <2>2. listing' \in [seen : SUBSET Peers, fresh : SUBSET Peers,
                            bytes : [Peers -> Nat], complete : BOOLEAN]
            <3>1. [p \in Peers |-> IF p \in r.uncounted THEN 0 ELSE counter[p]]
                     \in [Peers -> Nat]
                BY DEF TypeOK
            <3> QED
                BY <2>1, <3>1, ReadingTypes DEF OnlineAmong
        <2>3. absent' \in [Peers -> Nat]
            <3> HIDE DEF NoRow
            <3> QED BY <2>1 DEF TypeOK
        <2>4. /\ polls < MaxPolls /\ polls' = polls + 1 /\ phase' = "read"
              /\ UNCHANGED <<device, tables, prev, todo, sampling, deltaSum, aborts>>
            BY <1>2 DEF Read
        <2>5. polls' \in 0..MaxPolls
            BY <2>4 DEF TypeOK
        <2> QED
            BY <2>2, <2>3, <2>4, <2>5 DEF TypeOK, device, tables, Phases
    <1>3. CASE LoadRows
        <2>1. prev' \in [Peers -> [was : Rows, lastKind : Kinds \cup {None}]]
            <3> SUFFICES ASSUME NEW p \in Peers
                         PROVE  [was |-> row[p],
                                 lastKind |-> IF journal[p] = <<>> THEN None
                                              ELSE journal[p][Len(journal[p])]]
                                \in [was : Rows, lastKind : Kinds \cup {None}]
                BY <1>3 DEF LoadRows
            <3>1. journal[p] \in Seq(Kinds) /\ row[p] \in Rows
                BY DEF TypeOK
            <3>2. journal[p] # <<>> => journal[p][Len(journal[p])] \in Kinds
                BY <3>1
            <3> QED
                BY <3>1, <3>2
        <2> QED
            BY <1>3, <2>1 DEF TypeOK, LoadRows, device, tables, Phases
    <1>4. CASE DeletePeers
        <2>1. row' \in [Peers -> Rows]
            BY <1>4 DEF TypeOK, DeletePeers, NoRow, Rows
        <2>2. journal' \in [Peers -> Seq(Kinds)]
            BY <1>4 DEF TypeOK, DeletePeers, Kinds
        <2>3. /\ hourly' \in [Peers -> Nat] /\ orphaned' \in [Peers -> Nat]
              /\ absent' \in [Peers -> Nat]
            BY <1>4 DEF TypeOK, DeletePeers
        <2> QED
            BY <1>4, <2>1, <2>2, <2>3 DEF TypeOK, DeletePeers, device, Phases
    <1>5. CASE MarkRemoved
        <2>1. row' \in [Peers -> Rows]
            BY <1>5, MarkEffect
        <2> QED
            BY <1>5, <2>1 DEF TypeOK, MarkRemoved, device, Phases
    <1>6. CASE StoreServerSample
        BY <1>6 DEF TypeOK, StoreServerSample, EndPoll, device, Phases, NoListing,
                    NoPrev, NoRow, Rows
    <1>7. CASE Abort
        BY <1>7 DEF TypeOK, Abort, EndPoll, device, tables, Phases, NoListing,
                    NoPrev, NoRow, Rows
    <1>8. CASE ResetCounters
        BY <1>8 DEF TypeOK, ResetCounters, tables, poll
    <1>9. ASSUME NEW p \in Peers, Transfer(p) PROVE TypeOK'
        <2>1. /\ counter' = [counter EXCEPT ![p] = @ + 1]
              /\ traffic' = [traffic EXCEPT ![p] = @ + 1]
              /\ UNCHANGED <<tables, poll, polls, aborts, absent>>
            BY <1>9 DEF Transfer
        <2>2. counter' \in [Peers -> Nat] /\ traffic' \in [Peers -> Nat]
            BY <2>1 DEF TypeOK
        <2> QED
            BY <2>1, <2>2 DEF TypeOK, tables, poll
    <1>10. ASSUME NEW p \in Peers, UpsertPeer(p) PROVE TypeOK'
        <2>1. row' \in [Peers -> Rows]
            BY <1>10, UpsertEffect
        <2> QED
            BY <1>10, <2>1 DEF TypeOK, UpsertPeer, device
    <1>11. ASSUME NEW p \in Peers, SamplePeer(p) PROVE TypeOK'
        <2>1. row' \in [Peers -> Rows]
            BY <1>11, SampleEffect
        <2>2. journal' \in [Peers -> Seq(Kinds)]
            <3>1. PICK event \in {<<>>, <<"ONLINE">>, <<"OFFLINE">>} :
                      journal' = [journal EXCEPT ![p] = @ \o event]
                BY <1>11, SampleWrites
            <3>2. /\ <<>> \in Seq(Kinds)
                  /\ <<"ONLINE">> \in Seq(Kinds)
                  /\ <<"OFFLINE">> \in Seq(Kinds)
                BY DEF Kinds
            <3>3. event \in Seq(Kinds)
                BY <3>1, <3>2, Zenon
            <3> QED
                BY <3>1, <3>3 DEF TypeOK
        <2>3. hourly' \in [Peers -> Nat] /\ deltaSum' \in Nat
            <3>1. PICK delta \in Nat : /\ hourly' = [hourly EXCEPT ![p] = @ + delta]
                                       /\ deltaSum' = deltaSum + delta
                BY <1>11, SampleWrites
            <3> QED
                BY <3>1 DEF TypeOK
        <2>4. /\ sampling' = None /\ todo' = todo \ {p}
              /\ UNCHANGED <<device, orphaned, serverTotal, phase, listing, prev,
                             polls, aborts, absent>>
            BY <1>11 DEF SamplePeer
        <2> QED
            BY <2>1, <2>2, <2>3, <2>4 DEF TypeOK, device
    <1>12. ASSUME NEW p \in Peers, PruneJournal(p) PROVE TypeOK'
        <2>1. journal' \in [Peers -> Seq(Kinds)]
            BY <1>12 DEF TypeOK, PruneJournal
        <2> QED
            BY <1>12, <2>1 DEF TypeOK, PruneJournal, device, poll
    <1> QED
        BY <1>1, <1>2, <1>3, <1>4, <1>5, <1>6, <1>7, <1>8, <1>9, <1>10, <1>11, <1>12
        DEF Next

\* Every variable of PollCommit keeps its type.
THEOREM TypesHold == Spec => []TypeOK
    BY InitTypes, StepTypes, PTL DEF Spec

-----------------------------------------------------------------------------
(* No byte is counted twice *)

\* The peers whose bytes the running poll has read and not stored yet.
Pending == IF phase = "read" THEN listing.seen ELSE todo

\* What the polls to come may still count for a peer: from last_rx_bytes to the
\* counter, by way of what the running poll read of it.
Uncounted(p) ==
    IF p \in Pending
    THEN computeDelta(listing.bytes[p], row[p].last)
            + computeDelta(counter[p], listing.bytes[p])
    ELSE computeDelta(counter[p], row[p].last)

\* The poll's own variables agree with its phase and with the rows it loaded.
PollSound ==
    /\ phase # "peers" => todo = {} /\ sampling = None
    /\ todo \subseteq listing.seen
    /\ sampling # None => sampling \in todo
    /\ \A p \in todo : prev[p].was.last = row[p].last

CountedOf(p) == TransferIsWhole => hourly[p] + orphaned[p] + Uncounted(p) <= traffic[p]

Counting == TypeOK /\ PollSound /\ \A p \in Peers : CountedOf(p)

\* Uncounted is a number, and with the poll given up it is not larger.
LEMMA UncountedIsNat ==
    ASSUME TypeOK, NEW p \in Peers
    PROVE  /\ Uncounted(p) \in Nat
           /\ computeDelta(counter[p], row[p].last) \in Nat
           /\ computeDelta(counter[p], row[p].last) <= Uncounted(p)
    <1>1. /\ counter[p] \in Nat /\ listing.bytes[p] \in Nat
          /\ row[p].last \in Nat \cup {None}
        BY DEF TypeOK, Rows
    <1>2. /\ computeDelta(counter[p], row[p].last) \in Nat
          /\ computeDelta(listing.bytes[p], row[p].last) \in Nat
          /\ computeDelta(counter[p], listing.bytes[p]) \in Nat
        BY <1>1, DeltaIsNat
    <1>3. computeDelta(counter[p], row[p].last)
             <= computeDelta(listing.bytes[p], row[p].last)
                  + computeDelta(counter[p], listing.bytes[p])
        BY <1>1, DeltaTriangle
    <1> QED
        BY <1>2, <1>3 DEF Uncounted

\* Gate has counted nothing when it first sees the server.
LEMMA InitCounting == Init => Counting
    <1> SUFFICES ASSUME Init PROVE PollSound /\ \A p \in Peers : CountedOf(p)
        BY InitTypes DEF Counting
    <1>1. PollSound
        BY DEF Init, PollSound, NoListing
    <1>2. ASSUME NEW p \in Peers PROVE CountedOf(p)
        <2>1. row[p].last = None /\ counter[p] \in Nat /\ p \notin Pending
            BY BoundsAssumption DEF Init, NoRow, Pending
        <2>2. Uncounted(p) = 0
            BY <2>1, DeltaIsNat DEF Uncounted
        <2> QED
            BY <2>2 DEF Init, CountedOf
    <1> QED
        BY <1>1, <1>2

\* A poll that ends, at its last statement or before, leaves nothing pending.
LEMMA EndSound ==
    ASSUME Counting, EndPoll, UNCHANGED <<device, row, hourly, orphaned>>
    PROVE  PollSound' /\ \A p \in Peers : CountedOf(p)'
    <1>1. PollSound'
        BY DEF PollSound, EndPoll, NoListing
    <1>2. ASSUME NEW p \in Peers PROVE CountedOf(p)'
        <2>1. Uncounted(p)' = computeDelta(counter[p], row[p].last)
            BY DEF EndPoll, Uncounted, Pending, device
        <2>2. /\ Uncounted(p) \in Nat /\ Uncounted(p)' \in Nat
              /\ Uncounted(p)' <= Uncounted(p)
            BY <2>1, UncountedIsNat DEF Counting
        <2>3. hourly[p] \in Nat /\ orphaned[p] \in Nat /\ traffic[p] \in Nat
            BY DEF Counting, TypeOK
        <2>4. /\ hourly' = hourly /\ orphaned' = orphaned /\ traffic' = traffic
              /\ CountedOf(p)
            BY DEF Counting, device
        <2> HIDE DEF Uncounted
        <2> QED
            BY <2>2, <2>3, <2>4 DEF CountedOf
    <1> QED
        BY <1>1, <1>2

\* No step counts a byte that was not transferred.
LEMMA StepCounting == Counting /\ [Next]_vars => Counting'
    <1> SUFFICES ASSUME Counting, [Next]_vars
                 PROVE  PollSound' /\ \A q \in Peers : CountedOf(q)'
        BY StepTypes DEF Counting
    <1>t. TypeOK /\ TypeOK' /\ PollSound
        BY StepTypes DEF Counting
    <1>n. ASSUME NEW q \in Peers
          PROVE  /\ hourly[q] \in Nat /\ orphaned[q] \in Nat /\ traffic[q] \in Nat
                 /\ Uncounted(q) \in Nat
                 /\ CountedOf(q)
                 /\ counter[q] \in Nat /\ listing.bytes[q] \in Nat
                 /\ row[q] \in Rows /\ row[q].last \in Nat \cup {None}
        BY <1>t, UncountedIsNat DEF Counting, TypeOK, Rows
    <1>1. CASE UNCHANGED vars
        <2>1. \A q \in Peers : Uncounted(q)' = Uncounted(q)
            BY <1>1 DEF Uncounted, Pending, vars, device, tables, poll
        <2> QED
            BY <1>t, <1>n, <1>1, <2>1 DEF PollSound, CountedOf, vars, device, tables, poll
    <1>2. CASE Read
        <2>1. /\ phase = "idle" /\ phase' = "read"
              /\ UNCHANGED <<counter, traffic, row, hourly, orphaned, todo, sampling>>
            BY <1>2 DEF Read, device, tables
        <2>2. PollSound'
            BY <1>t, <2>1 DEF PollSound
        <2>3. TransferIsWhole => listing'.bytes = counter
            <3>1. PICK r \in Readings :
                     listing'.bytes = [p \in Peers |-> IF p \in r.uncounted
                                                       THEN 0 ELSE counter[p]]
                BY <1>2 DEF Read
            <3>2. TransferIsWhole => r.uncounted = {}
                BY WholeReading
            <3>3. counter \in [Peers -> Nat]
                BY <1>t DEF TypeOK
            <3> QED
                BY <3>1, <3>2, <3>3
        <2>4. ASSUME NEW q \in Peers, TransferIsWhole PROVE CountedOf(q)'
            <3>1. Uncounted(q) = computeDelta(counter[q], row[q].last)
                BY <1>t, <2>1 DEF Uncounted, Pending, PollSound
            <3>2. computeDelta(counter[q], counter[q]) = 0
                BY <1>n, DeltaIsNat
            <3>3. Uncounted(q)' = Uncounted(q)
                BY <1>n, <2>1, <2>3, <2>4, <3>1, <3>2 DEF Uncounted
            <3> QED
                BY <1>n, <2>1, <3>3 DEF CountedOf
        <2>5. ASSUME NEW q \in Peers PROVE CountedOf(q)'
            BY <2>4 DEF CountedOf
        <2> QED
            BY <2>2, <2>5
    <1>3. CASE LoadRows
        <2>1. /\ phase = "read" /\ phase' = "peers" /\ todo' = listing.seen
              /\ UNCHANGED <<counter, traffic, row, hourly, orphaned, listing, sampling>>
              /\ \A q \in Peers : prev'[q].was = row[q]
            BY <1>3 DEF LoadRows, device, tables
        <2>2. PollSound'
            BY <1>t, <2>1 DEF PollSound, TypeOK
        <2>3. \A q \in Peers : Uncounted(q)' = Uncounted(q)
            BY <2>1 DEF Uncounted, Pending
        <2> QED
            BY <1>n, <2>1, <2>2, <2>3 DEF CountedOf
    <1>4. CASE DeletePeers
        <2>1. /\ phase = "peers" /\ phase' = "mark" /\ todo = {} /\ todo' = {}
              /\ sampling = None /\ sampling' = None
              /\ UNCHANGED <<counter, traffic, listing>>
            BY <1>4 DEF DeletePeers, device
        <2>2. PollSound'
            BY <2>1 DEF PollSound
        <2>3. ASSUME NEW q \in Peers, q \in DeleteIds PROVE CountedOf(q)'
            <3>1. /\ row'[q].last = None /\ hourly'[q] = 0
                  /\ orphaned'[q] = orphaned[q] + hourly[q]
                BY <1>4, <2>3 DEF DeletePeers, NoRow
            <3>2. Uncounted(q)' = 0
                BY <1>n, <2>1, <3>1, DeltaIsNat DEF Uncounted, Pending
            <3> QED
                BY <1>n, <2>1, <3>1, <3>2 DEF CountedOf
        <2>4. ASSUME NEW q \in Peers, q \notin DeleteIds PROVE CountedOf(q)'
            <3>1. row'[q] = row[q] /\ hourly'[q] = hourly[q] /\ orphaned'[q] = orphaned[q]
                BY <1>4, <2>4 DEF DeletePeers
            <3>2. Uncounted(q)' = Uncounted(q)
                BY <2>1, <3>1 DEF Uncounted, Pending
            <3> QED
                BY <1>n, <2>1, <3>1, <3>2 DEF CountedOf
        <2> QED
            BY <2>2, <2>3, <2>4
    <1>5. CASE MarkRemoved
        <2>1. /\ phase = "mark" /\ phase' = "total"
              /\ UNCHANGED <<counter, traffic, hourly, orphaned, listing, todo, sampling>>
            BY <1>5 DEF MarkRemoved, device
        <2>2. PollSound'
            BY <1>t, <2>1 DEF PollSound
        <2>3. ASSUME NEW q \in Peers PROVE Uncounted(q)' = Uncounted(q)
            <3>1. row'[q].last = row[q].last
                BY <1>t, <1>5, MarkEffect
            <3> QED
                BY <2>1, <3>1 DEF Uncounted, Pending
        <2> QED
            BY <1>n, <2>1, <2>2, <2>3 DEF CountedOf
    <1>6. CASE StoreServerSample
        BY <1>6, EndSound DEF StoreServerSample
    <1>7. CASE Abort
        <2>1. UNCHANGED <<device, row, hourly, orphaned>>
            BY <1>7 DEF Abort, tables
        <2> QED
            BY <1>7, <2>1, EndSound DEF Abort
    <1>8. CASE ResetCounters
        <2>1. UNCHANGED <<traffic, tables, poll>>
            BY <1>8 DEF ResetCounters
        <2>2. PollSound'
            BY <1>t, <2>1 DEF PollSound, tables, poll
        <2>3. ASSUME NEW q \in Peers PROVE CountedOf(q)'
            <3>1. counter'[q] = 0 \/ counter'[q] = counter[q]
                BY <1>8 DEF ResetCounters
            <3>2. /\ computeDelta(0, row[q].last) = 0
                  /\ computeDelta(0, listing.bytes[q]) = 0
                  /\ computeDelta(counter[q], row[q].last) \in Nat
                  /\ computeDelta(listing.bytes[q], row[q].last) \in Nat
                  /\ computeDelta(counter[q], listing.bytes[q]) \in Nat
                BY <1>n, DeltaIsNat
            <3>3. Uncounted(q)' <= Uncounted(q) /\ Uncounted(q)' \in Nat
                BY <2>1, <3>1, <3>2 DEF Uncounted, Pending, tables, poll
            <3> HIDE DEF Uncounted
            <3> QED
                BY <1>n, <2>1, <3>3 DEF CountedOf, tables
        <2> QED
            BY <2>2, <2>3
    <1>9. ASSUME NEW p \in Peers, Transfer(p)
          PROVE  PollSound' /\ \A q \in Peers : CountedOf(q)'
        <2>1. /\ counter' = [counter EXCEPT ![p] = @ + 1]
              /\ traffic' = [traffic EXCEPT ![p] = @ + 1]
              /\ UNCHANGED <<tables, poll>>
            BY <1>9 DEF Transfer
        <2>2. PollSound'
            BY <1>t, <2>1 DEF PollSound, tables, poll
        <2>3. ASSUME NEW q \in Peers, q # p PROVE CountedOf(q)'
            <3>1. counter'[q] = counter[q] /\ traffic'[q] = traffic[q]
                BY <1>t, <2>1, <2>3 DEF TypeOK
            <3>2. Uncounted(q)' = Uncounted(q)
                BY <2>1, <3>1 DEF Uncounted, Pending, tables, poll
            <3> QED
                BY <1>n, <2>1, <3>1, <3>2 DEF CountedOf, tables
        <2>4. CountedOf(p)'
            <3>1. counter'[p] = counter[p] + 1 /\ traffic'[p] = traffic[p] + 1
                BY <1>t, <2>1 DEF TypeOK
            <3>2. /\ computeDelta(counter[p] + 1, row[p].last)
                        <= computeDelta(counter[p], row[p].last) + 1
                  /\ computeDelta(counter[p] + 1, listing.bytes[p])
                        <= computeDelta(counter[p], listing.bytes[p]) + 1
                BY <1>n, DeltaOfOneByte
            <3>3. /\ computeDelta(counter[p] + 1, row[p].last) \in Nat
                  /\ computeDelta(counter[p] + 1, listing.bytes[p]) \in Nat
                  /\ computeDelta(counter[p], row[p].last) \in Nat
                  /\ computeDelta(counter[p], listing.bytes[p]) \in Nat
                  /\ computeDelta(listing.bytes[p], row[p].last) \in Nat
                <4>1. counter[p] + 1 \in Nat
                    BY <1>n
                <4> QED
                    BY <1>n, <4>1, DeltaIsNat
            <3>4. Uncounted(p)' <= Uncounted(p) + 1 /\ Uncounted(p)' \in Nat
                BY <2>1, <3>1, <3>2, <3>3 DEF Uncounted, Pending, tables, poll
            <3> HIDE DEF Uncounted
            <3> QED
                BY <1>n, <2>1, <3>1, <3>4 DEF CountedOf, tables
        <2> QED
            BY <2>2, <2>3, <2>4
    <1>10. ASSUME NEW p \in Peers, UpsertPeer(p)
           PROVE  PollSound' /\ \A q \in Peers : CountedOf(q)'
        <2>1. /\ phase = "peers" /\ p \in todo /\ sampling' = p
              /\ UNCHANGED <<counter, traffic, hourly, orphaned, phase, listing, prev,
                             todo>>
            BY <1>10 DEF UpsertPeer, device
        <2>2. \A q \in Peers : row'[q].last = row[q].last
            BY <1>t, <1>10, UpsertEffect
        <2>3. PollSound'
            BY <1>t, <2>1, <2>2 DEF PollSound, TypeOK
        <2>4. \A q \in Peers : Uncounted(q)' = Uncounted(q)
            BY <2>1, <2>2 DEF Uncounted, Pending
        <2> QED
            BY <1>n, <2>1, <2>3, <2>4 DEF CountedOf
    <1>11. ASSUME NEW p \in Peers, SamplePeer(p)
           PROVE  PollSound' /\ \A q \in Peers : CountedOf(q)'
        <2>1. /\ sampling = p /\ sampling' = None /\ todo' = todo \ {p}
              /\ UNCHANGED <<counter, traffic, orphaned, phase, listing, prev>>
            BY <1>11 DEF SamplePeer, device
        <2>2. phase = "peers" /\ p \in todo /\ prev[p].was.last = row[p].last
            BY <1>t, <2>1, NoneAssumption DEF PollSound, Phases
        <2>3. /\ row'[p].last = listing.bytes[p]
              /\ \A q \in Peers : q # p => row'[q] = row[q]
            BY <1>t, <1>11, SampleEffect
        <2>4. PollSound'
            BY <1>t, <2>1, <2>2, <2>3 DEF PollSound, TypeOK
        <2>5. PICK delta \in Nat : /\ delta = computeDelta(listing.bytes[p], row[p].last)
                                   /\ hourly' = [hourly EXCEPT ![p] = @ + delta]
            BY <1>t, <1>11, <2>2, SampleWrites
        <2>6. ASSUME NEW q \in Peers, q # p PROVE CountedOf(q)'
            <3>1. hourly'[q] = hourly[q]
                BY <1>t, <2>5, <2>6 DEF TypeOK
            <3>2. Uncounted(q)' = Uncounted(q)
                BY <2>1, <2>2, <2>3, <2>6 DEF Uncounted, Pending
            <3> QED
                BY <1>n, <2>1, <3>1, <3>2 DEF CountedOf
        <2>7. CountedOf(p)'
            <3>1. hourly'[p] = hourly[p] + delta
                BY <1>t, <2>5 DEF TypeOK
            <3>2. Uncounted(p) = delta + computeDelta(counter[p], listing.bytes[p])
                BY <2>2, <2>5 DEF Uncounted, Pending
            <3>3. Uncounted(p)' = computeDelta(counter[p], listing.bytes[p])
                BY <2>1, <2>2, <2>3 DEF Uncounted, Pending
            <3>4. computeDelta(counter[p], listing.bytes[p]) \in Nat
                BY <1>n, DeltaIsNat
            <3> QED
                BY <1>n, <2>1, <2>5, <3>1, <3>2, <3>3, <3>4 DEF CountedOf
        <2> QED
            BY <2>4, <2>6, <2>7
    <1>12. ASSUME NEW p \in Peers, PruneJournal(p)
           PROVE  PollSound' /\ \A q \in Peers : CountedOf(q)'
        <2>1. UNCHANGED <<device, row, hourly, orphaned, poll>>
            BY <1>12 DEF PruneJournal
        <2>2. \A q \in Peers : Uncounted(q)' = Uncounted(q)
            BY <2>1 DEF Uncounted, Pending, device, poll
        <2> QED
            BY <1>t, <1>n, <2>1, <2>2 DEF PollSound, CountedOf, device, poll
    <1> QED
        BY <1>1, <1>2, <1>3, <1>4, <1>5, <1>6, <1>7, <1>8, <1>9, <1>10, <1>11, <1>12
        DEF Next

\* Whatever the number of peers, polls, crashes and counter resets: the hourly
\* rows never say more than the VPN transferred, as long as no answer of "awg
\* show all transfer" lacks a peer that another selector names.
THEOREM NeverOvercountsHolds ==
    ASSUME "transfer" \notin Faulty
    PROVE  Spec => []NeverOvercounts
    <1>0. TransferIsWhole
        BY DEF TransferIsWhole
    <1>1. Counting => NeverOvercounts
        <2> SUFFICES ASSUME Counting, NEW p \in Peers
                     PROVE  hourly[p] + orphaned[p] <= traffic[p]
            BY DEF NeverOvercounts
        <2>1. /\ hourly[p] \in Nat /\ orphaned[p] \in Nat /\ traffic[p] \in Nat
              /\ Uncounted(p) \in Nat /\ CountedOf(p)
            BY UncountedIsNat DEF Counting, TypeOK
        <2> HIDE DEF Uncounted
        <2> QED
            BY <1>0, <2>1 DEF CountedOf
    <1> QED
        BY <1>1, InitCounting, StepCounting, PTL DEF Spec

-----------------------------------------------------------------------------
(* A peer is deleted only after two absences *)

\* What absent counts, against the row, what the poll read and what it loaded.
SightedOf(p) ==
    /\ row[p].status = "REMOVED" => absent[p] >= 1
    /\ phase \in {"read", "peers", "mark"} /\ listing.complete /\ p \notin listing.seen
          => /\ row[p].status # "none" => absent[p] >= 1
             /\ row[p].status = "REMOVED" /\ phase # "mark" => absent[p] >= 2
    /\ phase = "peers" /\ p \notin listing.seen => prev[p].was.status = row[p].status
    /\ phase = "mark" /\ p \notin listing.seen /\ prev[p].was.status = "ACTIVE"
          => row[p].status = "ACTIVE"

Sighted == Counting /\ \A p \in Peers : SightedOf(p)

\* Before the first poll no peer has a row, so none was absent.
LEMMA InitSighted == Init => Sighted
    <1>1. ASSUME Init, NEW p \in Peers PROVE SightedOf(p)
        <2>1. row[p] = NoRow /\ NoRow.status = "none" /\ phase = "idle"
            BY <1>1 DEF Init, NoRow
        <2> QED
            BY <2>1 DEF SightedOf
    <1> QED
        BY <1>1, InitCounting DEF Sighted

\* A poll that ends leaves the peers that are marked REMOVED seen absent.
LEMMA EndSighted ==
    ASSUME Sighted, EndPoll, UNCHANGED <<row, absent>>
    PROVE  \A p \in Peers : SightedOf(p)'
    BY DEF Sighted, SightedOf, EndPoll

\* Rows are marked REMOVED after one absence and stay so until the next listing.
LEMMA StepSighted ==
    ASSUME TransferIsWhole
    PROVE  Sighted /\ [Next]_vars => Sighted'
    <1> SUFFICES ASSUME Sighted, [Next]_vars PROVE \A q \in Peers : SightedOf(q)'
        BY StepCounting DEF Sighted
    <1>t. TypeOK /\ PollSound
        BY DEF Sighted, Counting
    <1>n. ASSUME NEW q \in Peers
          PROVE  SightedOf(q) /\ absent[q] \in Nat
        BY <1>t DEF Sighted, TypeOK
    <1>s. ASSUME UNCHANGED <<row, phase, listing, prev, absent>>
          PROVE  \A q \in Peers : SightedOf(q)'
        BY <1>n, <1>s DEF SightedOf
    <1>1. CASE UNCHANGED vars
        BY <1>1, <1>s DEF vars, tables, poll
    <1>2. CASE Read
        <2>1. /\ phase' = "read" /\ row' = row
            BY <1>2 DEF Read, tables
        <2>3. PICK r \in Readings :
                 /\ listing'.complete = r.complete /\ listing'.seen = r.seen
                 /\ absent' = [p \in Peers |-> IF p \in r.gone /\ row[p] # NoRow
                                               THEN absent[p] + 1 ELSE absent[p]]
            BY <1>2 DEF Read
        <2>4. \A q \in Peers :
                 /\ absent'[q] = absent[q] \/ absent'[q] = absent[q] + 1
                 /\ listing'.complete /\ q \notin listing'.seen /\ row[q] # NoRow
                       => absent'[q] = absent[q] + 1
            BY <2>3, WholeReading
        <2>2. ASSUME NEW q \in Peers PROVE SightedOf(q)'
            <3>1. row[q].status # "none" => row[q] # NoRow
                BY DEF NoRow
            <3> QED
                BY <1>n, <2>1, <2>4, <3>1 DEF SightedOf
        <2> QED
            BY <2>2
    <1>3. CASE LoadRows
        <2>1. /\ phase = "read" /\ phase' = "peers"
              /\ UNCHANGED <<row, listing, absent>>
              /\ \A q \in Peers : prev'[q].was = row[q]
            BY <1>3 DEF LoadRows, tables
        <2> QED
            BY <1>n, <2>1 DEF SightedOf
    <1>4. CASE DeletePeers
        <2>1. phase = "peers" /\ phase' = "mark" /\ UNCHANGED <<listing, prev>>
            BY <1>4 DEF DeletePeers
        <2>2. ASSUME NEW q \in Peers PROVE SightedOf(q)'
            <3>1. CASE q \in DeleteIds
                <4>1. row'[q].status = "none" /\ absent'[q] = 0
                    BY <1>4, <3>1 DEF DeletePeers, NoRow
                <4>2. prev[q].was.status = "REMOVED"
                    BY <3>1 DEF DeleteIds
                <4> QED
                    BY <2>1, <4>1, <4>2 DEF SightedOf
            <3>2. CASE q \notin DeleteIds
                <4>1. row'[q] = row[q] /\ absent'[q] = absent[q]
                    BY <1>4, <3>2 DEF DeletePeers
                <4> QED
                    BY <1>n, <2>1, <4>1 DEF SightedOf
            <3> QED
                BY <3>1, <3>2
        <2> QED
            BY <2>2
    <1>5. CASE MarkRemoved
        <2>1. phase = "mark" /\ phase' = "total" /\ UNCHANGED <<listing, prev, absent>>
            BY <1>5 DEF MarkRemoved
        <2>2. ASSUME NEW q \in Peers PROVE SightedOf(q)'
            <3>1. CASE q \in MarkRemovedIds
                <4>1. /\ listing.complete /\ q \notin listing.seen
                      /\ prev[q].was.status = "ACTIVE"
                    BY <3>1 DEF MarkRemovedIds, Missing
                <4>2. row[q].status = "ACTIVE" /\ absent[q] >= 1
                    BY <1>n, <2>1, <4>1 DEF SightedOf
                <4> QED
                    BY <2>1, <4>2 DEF SightedOf
            <3>2. CASE q \notin MarkRemovedIds
                <4>1. row'[q] = row[q]
                    BY <1>t, <1>5, <3>2, MarkEffect
                <4> QED
                    BY <1>n, <2>1, <4>1 DEF SightedOf
            <3> QED
                BY <3>1, <3>2
        <2> QED
            BY <2>2
    <1>6. CASE StoreServerSample
        BY <1>6, EndSighted DEF StoreServerSample
    <1>7. CASE Abort
        BY <1>7, EndSighted DEF Abort, tables
    <1>8. CASE ResetCounters
        BY <1>8, <1>s DEF ResetCounters, tables, poll
    <1>9. ASSUME NEW p \in Peers, Transfer(p) PROVE \A q \in Peers : SightedOf(q)'
        BY <1>9, <1>s DEF Transfer, tables, poll
    <1>10. ASSUME NEW p \in Peers, UpsertPeer(p) PROVE \A q \in Peers : SightedOf(q)'
        <2>1. /\ p \in listing.seen
              /\ absent' = [absent EXCEPT ![p] = 0]
              /\ UNCHANGED <<phase, listing, prev>>
            BY <1>t, <1>10 DEF UpsertPeer, PollSound
        <2>2. row'[p].status = "ACTIVE" /\ \A q \in Peers : q # p => row'[q] = row[q]
            BY <1>t, <1>10, UpsertEffect
        <2>3. SightedOf(p)'
            BY <2>1, <2>2 DEF SightedOf
        <2>4. ASSUME NEW q \in Peers, q # p PROVE SightedOf(q)'
            <3>1. absent'[q] = absent[q] /\ row'[q] = row[q]
                BY <1>t, <2>1, <2>2, <2>4 DEF TypeOK
            <3> QED
                BY <1>n, <2>1, <3>1 DEF SightedOf
        <2> QED
            BY <2>3, <2>4
    <1>11. ASSUME NEW p \in Peers, SamplePeer(p) PROVE \A q \in Peers : SightedOf(q)'
        <2>1. UNCHANGED <<phase, listing, prev, absent>>
            BY <1>11 DEF SamplePeer
        <2>2. \A q \in Peers : row'[q].status = row[q].status
            BY <1>t, <1>11, SampleEffect
        <2> QED
            BY <1>n, <2>1, <2>2 DEF SightedOf
    <1>12. ASSUME NEW p \in Peers, PruneJournal(p) PROVE \A q \in Peers : SightedOf(q)'
        BY <1>12, <1>s DEF PruneJournal, poll
    <1> QED
        BY <1>1, <1>2, <1>3, <1>4, <1>5, <1>6, <1>7, <1>8, <1>9, <1>10, <1>11, <1>12
        DEF Next

\* A step that deletes a peer finds it absent from two complete listings.
LEMMA StepDeletes ==
    Sighted /\ [Next]_vars
      => [\A p \in Peers : row[p].status # "none" /\ row'[p].status = "none"
                              => absent[p] >= 2]_vars
    <1> SUFFICES ASSUME Sighted, Next, NEW q \in Peers,
                        row[q].status # "none", row'[q].status = "none"
                 PROVE  absent[q] >= 2
        OBVIOUS
    <1>t. TypeOK /\ SightedOf(q)
        BY DEF Sighted, Counting
    <1>1. row' # row
        OBVIOUS
    <1>2. CASE DeletePeers
        <2>1. q \in DeleteIds
            BY <1>2 DEF DeletePeers
        <2>2. /\ phase = "peers" /\ listing.complete /\ q \notin listing.seen
              /\ prev[q].was.status = "REMOVED"
            BY <1>2, <2>1 DEF DeletePeers, DeleteIds, Missing
        <2> QED
            BY <1>t, <2>2 DEF SightedOf
    <1>3. CASE MarkRemoved
        BY <1>t, <1>3, MarkEffect
    <1>4. ASSUME NEW p \in Peers, UpsertPeer(p) PROVE FALSE
        BY <1>t, <1>4, UpsertEffect
    <1>5. ASSUME NEW p \in Peers, SamplePeer(p) PROVE FALSE
        BY <1>t, <1>5, SampleEffect
    <1>6. ~(Read \/ LoadRows \/ StoreServerSample \/ Abort \/ ResetCounters)
        BY <1>1 DEF Read, LoadRows, StoreServerSample, Abort, ResetCounters, tables
    <1>7. ASSUME NEW p \in Peers, Transfer(p) \/ PruneJournal(p) PROVE FALSE
        BY <1>1, <1>7 DEF Transfer, PruneJournal, tables
    <1> QED
        BY <1>2, <1>3, <1>4, <1>5, <1>6, <1>7 DEF Next

\* An answer that broke off, or a single one, never deletes a peer, however
\* polls, crashes and returns of the peer follow one another.
THEOREM DeletedOnlyAfterTwoAbsencesHolds ==
    ASSUME "transfer" \notin Faulty
    PROVE  Spec => DeletedOnlyAfterTwoAbsences
    <1>1. Sighted /\ [Next]_vars => Sighted'
        BY StepSighted DEF TransferIsWhole
    <1> QED
        BY <1>1, InitSighted, StepDeletes, PTL DEF Spec, DeletedOnlyAfterTwoAbsences

-----------------------------------------------------------------------------
(* The journal of a peer is sound *)

Alternates(s) == \A i \in 1..Len(s) - 1 : s[i] # s[i + 1]

\* An event of the other kind keeps a journal alternating, and is its last.
LEMMA AppendAlternates ==
    ASSUME NEW s \in Seq(Kinds), Alternates(s), NEW k \in Kinds,
           s # <<>> => s[Len(s)] # k
    PROVE  /\ Alternates(s \o <<k>>) /\ s \o <<k>> # <<>>
           /\ (s \o <<k>>)[Len(s \o <<k>>)] = k
    <1> DEFINE t == s \o <<k>>
    <1>1. /\ Len(s) \in Nat /\ Len(t) = Len(s) + 1 /\ t[Len(s) + 1] = k
          /\ \A i \in 1..Len(s) : t[i] = s[i]
        OBVIOUS
    <1>2. Len(s) # 0 => s # <<>>
        OBVIOUS
    <1>3. t # <<>>
        BY <1>1
    <1> HIDE DEF t
    <1>4. ASSUME NEW i \in 1..Len(t) - 1 PROVE t[i] # t[i + 1]
        <2>1. CASE i = Len(s)
            BY <1>1, <1>2, <2>1
        <2>2. CASE i # Len(s)
            BY <1>1, <2>2 DEF Alternates
        <2> QED
            BY <2>1, <2>2
    <1>5. Alternates(t) /\ t # <<>> /\ t[Len(t)] = k
        BY <1>1, <1>3, <1>4 DEF Alternates
    <1> QED
        BY <1>5 DEF t

\* Without its oldest event a journal still alternates and ends the same way.
LEMMA TailAlternates ==
    ASSUME NEW s \in Seq(Kinds), Alternates(s), s # <<>>
    PROVE  /\ Alternates(Tail(s))
           /\ Tail(s) # <<>> => Tail(s)[Len(Tail(s))] = s[Len(s)]
    <1>1. /\ Len(s) \in Nat /\ Len(Tail(s)) = Len(s) - 1
          /\ \A i \in 1..Len(s) - 1 : Tail(s)[i] = s[i + 1]
        OBVIOUS
    <1>2. Tail(s) # <<>> => Len(s) - 1 \in 1..Len(s) - 1
        BY <1>1
    <1> QED
        BY <1>1, <1>2 DEF Alternates

\* The journal alternates and ends as the row says; a peer still to be
\* persisted has the last event the poll loaded, unless it was pruned since.
JournalOf(p) ==
    /\ Alternates(journal[p])
    /\ row[p].online = TRUE /\ journal[p] # <<>>
          => journal[p][Len(journal[p])] = "ONLINE"
    /\ p \in todo /\ journal[p] # <<>>
          => prev[p].lastKind = journal[p][Len(journal[p])]

Journalled == Counting /\ \A p \in Peers : JournalOf(p)

\* Every journal starts empty.
LEMMA InitJournalled == Init => Journalled
    <1>1. ASSUME Init, NEW p \in Peers PROVE JournalOf(p)
        <2>1. journal[p] = <<>> /\ todo = {}
            BY <1>1 DEF Init
        <2>2. Alternates(<<>>)
            BY DEF Alternates
        <2> QED
            BY <2>1, <2>2 DEF JournalOf
    <1> QED
        BY <1>1, InitCounting DEF Journalled

\* The event SamplePeer writes, seen from the peer's own journal.
LEMMA SampleJournal ==
    ASSUME Journalled, NEW p \in Peers, SamplePeer(p)
    PROVE  JournalOf(p)'
    <1> DEFINE online == p \in listing.fresh
               before == previousPresenceOnline(prev[p].lastKind, prev[p].was.online)
               event == presenceTransition(online, before)
    <1>1. /\ TypeOK /\ p \in todo /\ JournalOf(p) /\ journal[p] \in Seq(Kinds)
          /\ prev[p].lastKind \in Kinds \cup {None}
        BY NoneAssumption DEF Journalled, Counting, PollSound, SamplePeer, TypeOK
    <1>2. journal'[p] = journal[p] \o event /\ p \notin todo'
        BY <1>1, Zenon DEF SamplePeer, TypeOK
    <1>3. row'[p].online = online
        BY <1>1, SampleEffect
    <1>4. journal[p] # <<>> =>
             /\ prev[p].lastKind \in Kinds /\ prev[p].lastKind = journal[p][Len(journal[p])]
             /\ before = (journal[p][Len(journal[p])] = "ONLINE")
        <2>1. journal[p] # <<>> => /\ prev[p].lastKind = journal[p][Len(journal[p])]
                                  /\ journal[p][Len(journal[p])] \in Kinds
            BY <1>1 DEF JournalOf
        <2>2. \A k \in Kinds : k # None
            BY NoneAssumption
        <2>3. \A k \in Kinds :
                 previousPresenceOnline(k, prev[p].was.online) = (k = "ONLINE")
            BY <2>2, Zenon DEF previousPresenceOnline
        <2> QED
            BY <2>1, <2>3, Zenon
    <1>5. online \in BOOLEAN
        OBVIOUS
    <1>6. \/ event = <<>> /\ (before = online \/ (before = None /\ ~online))
          \/ event = <<"ONLINE">> /\ online /\ before # online
          \/ event = <<"OFFLINE">> /\ ~online /\ before # online
        <2> HIDE DEF before, online
        <2>1. CASE before = online \/ (before = None /\ ~online)
            <3>1. event = <<>>
                <4>1. CASE before = online
                    BY <4>1, Zenon DEF presenceTransition
                <4>2. CASE before = None /\ ~online
                    BY <4>2, Zenon DEF presenceTransition
                <4> QED
                    BY <2>1, <4>1, <4>2
            <3> HIDE DEF event
            <3> QED
                BY <2>1, <3>1, Zenon
        <2>2. CASE ~(before = online \/ (before = None /\ ~online)) /\ online
            BY <2>2, Zenon DEF presenceTransition
        <2>3. CASE ~(before = online \/ (before = None /\ ~online)) /\ ~online
            BY <2>3, Zenon DEF presenceTransition
        <2> QED
            BY <2>1, <2>2, <2>3, Zenon
    <1>7. "ONLINE" \in Kinds /\ "OFFLINE" \in Kinds /\ "ONLINE" # "OFFLINE"
        BY DEF Kinds
    <1> HIDE DEF event, before, online
    <1>8. CASE event = <<>>
        <2>1. journal'[p] = journal[p]
            BY <1>1, <1>2, <1>8
        <2>2. journal[p] # <<>> /\ online = TRUE => journal[p][Len(journal[p])] = "ONLINE"
            BY <1>4, <1>6, <1>8, NoneAssumption
        <2> QED
            BY <1>1, <1>2, <1>3, <2>1, <2>2 DEF JournalOf
    <1>9. CASE event = <<"ONLINE">>
        <2>1. journal[p] # <<>> => journal[p][Len(journal[p])] # "ONLINE"
            BY <1>4, <1>5, <1>6, <1>9
        <2>2. journal'[p] = journal[p] \o <<"ONLINE">> /\ Alternates(journal[p])
            BY <1>1, <1>2, <1>9 DEF JournalOf
        <2>3. /\ Alternates(journal'[p]) /\ journal'[p] # <<>>
              /\ journal'[p][Len(journal'[p])] = "ONLINE"
            BY <1>1, <1>7, <2>1, <2>2, AppendAlternates
        <2> QED
            BY <1>2, <2>3 DEF JournalOf
    <1>10. CASE event = <<"OFFLINE">>
        <2>1. journal[p] # <<>> => journal[p][Len(journal[p])] # "OFFLINE"
            BY <1>1, <1>4, <1>5, <1>6, <1>7, <1>10
        <2>2. journal'[p] = journal[p] \o <<"OFFLINE">> /\ Alternates(journal[p])
            BY <1>1, <1>2, <1>10 DEF JournalOf
        <2>3. Alternates(journal'[p])
            BY <1>1, <1>7, <2>1, <2>2, AppendAlternates
        <2>4. ~online
            BY <1>6, <1>7, <1>10
        <2> QED
            BY <1>2, <1>3, <2>3, <2>4 DEF JournalOf
    <1> QED
        BY <1>6, <1>8, <1>9, <1>10

\* No step makes a journal repeat an event or contradict its row.
LEMMA StepJournalled == Journalled /\ [Next]_vars => Journalled'
    <1> SUFFICES ASSUME Journalled, [Next]_vars PROVE \A q \in Peers : JournalOf(q)'
        BY StepCounting DEF Journalled
    <1>t. TypeOK /\ PollSound
        BY DEF Journalled, Counting
    <1>n. \A q \in Peers : JournalOf(q) /\ journal[q] \in Seq(Kinds)
        BY <1>t DEF Journalled, TypeOK
    <1>s. ASSUME UNCHANGED <<journal, prev>>, todo' \subseteq todo,
                 \A q \in Peers : row'[q].online = TRUE => row[q].online = TRUE
          PROVE  \A q \in Peers : JournalOf(q)'
        BY <1>n, <1>s DEF JournalOf
    <1>e. ASSUME EndPoll, UNCHANGED <<row, journal>>
          PROVE  \A q \in Peers : JournalOf(q)'
        BY <1>n, <1>e DEF JournalOf, EndPoll
    <1>1. CASE UNCHANGED vars
        BY <1>1, <1>s DEF vars, tables, poll
    <1>2. CASE Read
        BY <1>2, <1>s DEF Read, tables
    <1>3. CASE LoadRows
        <2>1. /\ row' = row /\ journal' = journal
              /\ \A q \in Peers : journal[q] # <<>>
                    => prev'[q].lastKind = journal[q][Len(journal[q])]
            BY <1>3 DEF LoadRows, tables
        <2> QED
            BY <1>n, <2>1 DEF JournalOf
    <1>4. CASE DeletePeers
        <2>1. todo = {} /\ todo' = {}
            BY <1>4 DEF DeletePeers
        <2>2. ASSUME NEW q \in Peers PROVE JournalOf(q)'
            <3>1. \/ journal'[q] = <<>>
                  \/ journal'[q] = journal[q] /\ row'[q] = row[q]
                BY <1>4 DEF DeletePeers
            <3>2. Alternates(<<>>)
                BY DEF Alternates
            <3> QED
                BY <1>n, <2>1, <3>1, <3>2 DEF JournalOf
        <2> QED
            BY <2>2
    <1>5. CASE MarkRemoved
        <2>1. UNCHANGED <<journal, prev, todo>>
            BY <1>5 DEF MarkRemoved
        <2>2. \A q \in Peers : row'[q].online = TRUE => row[q].online = TRUE
            BY <1>t, <1>5, MarkEffect
        <2> QED
            BY <2>1, <2>2, <1>s
    <1>6. CASE StoreServerSample
        BY <1>6, <1>e DEF StoreServerSample
    <1>7. CASE Abort
        BY <1>7, <1>e DEF Abort, tables
    <1>8. CASE ResetCounters
        BY <1>8, <1>s DEF ResetCounters, tables, poll
    <1>9. ASSUME NEW p \in Peers, Transfer(p) PROVE \A q \in Peers : JournalOf(q)'
        BY <1>9, <1>s DEF Transfer, tables, poll
    <1>10. ASSUME NEW p \in Peers, UpsertPeer(p) PROVE \A q \in Peers : JournalOf(q)'
        <2>1. UNCHANGED <<journal, prev, todo>>
            BY <1>10 DEF UpsertPeer
        <2>2. \A q \in Peers : row'[q].online = row[q].online
            BY <1>t, <1>10, UpsertEffect
        <2> QED
            BY <2>1, <2>2, <1>s
    <1>11. ASSUME NEW p \in Peers, SamplePeer(p) PROVE \A q \in Peers : JournalOf(q)'
        <2>1. todo' \subseteq todo /\ prev' = prev
            BY <1>11 DEF SamplePeer
        <2>2. PICK event \in {<<>>, <<"ONLINE">>, <<"OFFLINE">>} :
                  journal' = [journal EXCEPT ![p] = @ \o event]
            BY <1>t, <1>11, SampleWrites
        <2>3. ASSUME NEW q \in Peers, q # p PROVE JournalOf(q)'
            <3>1. journal'[q] = journal[q] /\ row'[q] = row[q]
                BY <1>t, <1>11, <2>2, <2>3, SampleEffect DEF TypeOK
            <3> QED
                BY <1>n, <2>1, <3>1 DEF JournalOf
        <2> QED
            BY <1>11, <2>3, SampleJournal
    <1>12. ASSUME NEW p \in Peers, PruneJournal(p) PROVE \A q \in Peers : JournalOf(q)'
        <2>1. /\ journal[p] # <<>> /\ journal' = [journal EXCEPT ![p] = Tail(@)]
              /\ UNCHANGED <<row, todo, prev>>
            BY <1>12 DEF PruneJournal, poll
        <2>2. JournalOf(p)'
            <3>1. journal'[p] = Tail(journal[p])
                BY <1>t, <2>1 DEF TypeOK
            <3> QED
                BY <1>n, <2>1, <3>1, TailAlternates DEF JournalOf
        <2>3. ASSUME NEW q \in Peers, q # p PROVE JournalOf(q)'
            <3>1. journal'[q] = journal[q]
                BY <1>t, <2>1, <2>3 DEF TypeOK
            <3> QED
                BY <1>n, <2>1, <3>1 DEF JournalOf
        <2> QED
            BY <2>2, <2>3
    <1> QED
        BY <1>1, <1>2, <1>3, <1>4, <1>5, <1>6, <1>7, <1>8, <1>9, <1>10, <1>11, <1>12
        DEF Next

\* The journal of a peer alternates and ends as its row says, for journals of
\* any length, whenever old events are pruned and polls end early.
THEOREM JournalIsSoundHolds == Spec => []JournalIsSound
    <1>1. Journalled => JournalIsSound
        BY DEF Journalled, JournalOf, Alternates, JournalIsSound
    <1> QED
        BY <1>1, InitJournalled, StepJournalled, PTL DEF Spec

-----------------------------------------------------------------------------
(* The server's traffic is its peers' *)

\* The running poll has summed nothing before it loads the rows.
SumFollowsPoll == phase \in {"idle", "read"} => deltaSum = 0

Accounted == Counting /\ SumFollowsPoll /\ ServerTotalMatchesPeers

\* The total of a table of bytes is a number.
LEMMA TableTotal ==
    ASSUME NEW f \in [Peers -> Nat]
    PROVE  SumFunction(f) = SumFunctionOnSet(f, Peers) /\ SumFunction(f) \in Nat
    <1>1. SumFunctionOnSet(f, Peers) \in Nat
        BY PeersAssumption, SumNat
    <1> QED
        BY <1>1 DEF SumFunction

\* A peer's bytes that grow make the total grow by as much.
LEMMA GrownTotal ==
    ASSUME NEW f \in [Peers -> Nat], NEW p \in Peers, NEW delta \in Nat
    PROVE  SumFunction([f EXCEPT ![p] = @ + delta]) = SumFunction(f) + delta
    <1> DEFINE g == [f EXCEPT ![p] = @ + delta]
    <1>1. /\ g \in [Peers -> Nat] /\ g[p] - f[p] = delta
          /\ \A q \in Peers \ {p} : g[q] = f[q]
        OBVIOUS
    <1> HIDE DEF g
    <1>2. SumFunctionOnSet(g, Peers) = SumFunctionOnSet(f, Peers) + (g[p] - f[p])
        BY <1>1, PeersAssumption, SumUpdate
    <1>3. SumFunction(g) = SumFunction(f) + delta
        BY <1>1, <1>2, TableTotal
    <1> QED
        BY <1>3 DEF g

\* Bytes that go from one table to the other leave the sum of the totals.
LEMMA MovedTotal ==
    ASSUME NEW f \in [Peers -> Nat], NEW g \in [Peers -> Nat], NEW D \in SUBSET Peers
    PROVE  SumFunction([p \in Peers |-> IF p \in D THEN 0 ELSE f[p]])
               + SumFunction([p \in Peers |-> IF p \in D THEN g[p] + f[p] ELSE g[p]])
           = SumFunction(f) + SumFunction(g)
    <1> DEFINE ff == [p \in Peers |-> IF p \in D THEN 0 ELSE f[p]]
               gg == [p \in Peers |-> IF p \in D THEN g[p] + f[p] ELSE g[p]]
               h == [p \in Peers |-> f[p] + g[p]]
    <1>1. ff \in [Peers -> Nat] /\ gg \in [Peers -> Nat]
        OBVIOUS
    <1>2. \A p \in Peers : f[p] \in Int /\ g[p] \in Int /\ h[p] = f[p] + g[p]
        OBVIOUS
    <1>3. \A p \in Peers : ff[p] \in Int /\ gg[p] \in Int /\ h[p] = ff[p] + gg[p]
        OBVIOUS
    <1> HIDE DEF ff, gg, h
    <1>4. SumFunctionOnSet(h, Peers) = SumFunctionOnSet(f, Peers) + SumFunctionOnSet(g, Peers)
        BY <1>2, PeersAssumption, SumPlus
    <1>5. SumFunctionOnSet(h, Peers) = SumFunctionOnSet(ff, Peers) + SumFunctionOnSet(gg, Peers)
        BY <1>3, PeersAssumption, SumPlus
    <1>6. SumFunction(ff) + SumFunction(gg) = SumFunction(f) + SumFunction(g)
        BY <1>1, <1>4, <1>5, TableTotal
    <1> QED
        BY <1>6 DEF ff, gg

\* Empty tables add up to nothing.
LEMMA InitAccounted == Init => Accounted
    <1> SUFFICES ASSUME Init PROVE SumFollowsPoll /\ ServerTotalMatchesPeers
        BY InitCounting DEF Accounted
    <1> DEFINE zero == [p \in Peers |-> 0]
    <1>1. \A p \in Peers : zero[p] = 0
        OBVIOUS
    <1>2. zero \in [Peers -> Nat]
        OBVIOUS
    <1>3. hourly = zero /\ orphaned = zero /\ serverTotal = 0 /\ deltaSum = 0
        BY DEF Init
    <1> HIDE DEF zero
    <1>4. SumFunction(zero) = 0
        BY <1>1, <1>2, PeersAssumption, SumZeros, TableTotal
    <1> QED
        BY <1>3, <1>4 DEF SumFollowsPoll, ServerTotalMatchesPeers, Total

\* Every statement keeps the books: what SamplePeer adds to an hour it adds to
\* the sum, what DeletePeers takes from a peer it leaves with the server.
LEMMA StepAccounted == Accounted /\ [Next]_vars => Accounted'
    <1> SUFFICES ASSUME Accounted, [Next]_vars
                 PROVE  SumFollowsPoll' /\ ServerTotalMatchesPeers'
        BY StepCounting DEF Accounted
    <1>t. TypeOK /\ PollSound /\ SumFollowsPoll /\ ServerTotalMatchesPeers
        BY DEF Accounted, Counting
    <1>n. /\ hourly \in [Peers -> Nat] /\ orphaned \in [Peers -> Nat]
          /\ serverTotal \in Nat /\ deltaSum \in Nat /\ aborts \in Nat
          /\ SumFunction(hourly) \in Nat /\ SumFunction(orphaned) \in Nat
        BY <1>t, TableTotal DEF TypeOK
    <1>1. ASSUME UNCHANGED <<hourly, orphaned, serverTotal, aborts, deltaSum>>,
                 phase' \in {"idle", "read"} => phase \in {"idle", "read"}
          PROVE  SumFollowsPoll' /\ ServerTotalMatchesPeers'
        BY <1>1, <1>t DEF SumFollowsPoll, ServerTotalMatchesPeers, Total
    <1>2. CASE Read
        <2>1. deltaSum = 0
            BY <1>2, <1>t DEF Read, SumFollowsPoll
        <2> QED
            BY <1>2, <1>t, <2>1 DEF Read, tables, SumFollowsPoll,
               ServerTotalMatchesPeers, Total
    <1>3. CASE LoadRows
        <2>1. deltaSum = 0 /\ deltaSum' = 0 /\ phase' = "peers"
            BY <1>3, <1>t DEF LoadRows, SumFollowsPoll
        <2>2. UNCHANGED <<hourly, orphaned, serverTotal, aborts>>
            BY <1>3 DEF LoadRows, tables
        <2> QED
            BY <1>t, <2>1, <2>2 DEF SumFollowsPoll, ServerTotalMatchesPeers, Total
    <1>4. CASE DeletePeers
        <2>1. Total' = Total
            <3>1. DeleteIds \in SUBSET Peers
                BY DEF DeleteIds, Missing
            <3>2. /\ hourly' = [p \in Peers |-> IF p \in DeleteIds THEN 0 ELSE hourly[p]]
                  /\ orphaned' = [p \in Peers |-> IF p \in DeleteIds
                                                  THEN orphaned[p] + hourly[p]
                                                  ELSE orphaned[p]]
                BY <1>4 DEF DeletePeers
            <3> QED
                BY <1>n, <3>1, <3>2, MovedTotal DEF Total
        <2>2. phase' = "mark" /\ UNCHANGED <<serverTotal, deltaSum, aborts>>
            BY <1>4 DEF DeletePeers
        <2> QED
            BY <1>t, <2>1, <2>2 DEF SumFollowsPoll, ServerTotalMatchesPeers
    <1>5. CASE MarkRemoved
        BY <1>1, <1>5 DEF MarkRemoved
    <1>6. CASE StoreServerSample
        <2>1. /\ serverTotal' = serverTotal + deltaSum /\ deltaSum' = 0
              /\ UNCHANGED <<hourly, orphaned, aborts>>
            BY <1>6 DEF StoreServerSample, EndPoll
        <2> QED
            BY <1>t, <1>n, <2>1 DEF SumFollowsPoll, ServerTotalMatchesPeers, Total
    <1>7. CASE Abort
        <2>1. /\ aborts' = aborts + 1 /\ deltaSum' = 0
              /\ UNCHANGED <<hourly, orphaned, serverTotal>>
            BY <1>7 DEF Abort, EndPoll, tables
        <2>2. Total' = Total /\ Total \in Nat
            BY <1>n, <2>1 DEF Total
        <2> QED
            BY <1>t, <1>n, <2>1, <2>2 DEF SumFollowsPoll, ServerTotalMatchesPeers
    <1>8. CASE ResetCounters
        BY <1>1, <1>8 DEF ResetCounters, tables, poll
    <1>9. ASSUME NEW p \in Peers, Transfer(p)
          PROVE  SumFollowsPoll' /\ ServerTotalMatchesPeers'
        BY <1>1, <1>9 DEF Transfer, tables, poll
    <1>10. ASSUME NEW p \in Peers, UpsertPeer(p)
           PROVE  SumFollowsPoll' /\ ServerTotalMatchesPeers'
        BY <1>1, <1>10 DEF UpsertPeer
    <1>11. ASSUME NEW p \in Peers, SamplePeer(p)
           PROVE  SumFollowsPoll' /\ ServerTotalMatchesPeers'
        <2>1. PICK delta \in Nat : /\ hourly' = [hourly EXCEPT ![p] = @ + delta]
                                   /\ deltaSum' = deltaSum + delta
            BY <1>t, <1>11, SampleWrites
        <2>2. UNCHANGED <<orphaned, serverTotal, phase, aborts>>
            BY <1>11 DEF SamplePeer
        <2>3. Total' = Total + delta /\ Total \in Nat
            <3>1. SumFunction(hourly') = SumFunction(hourly) + delta
                BY <1>n, <2>1, GrownTotal
            <3> QED
                BY <1>n, <2>2, <3>1 DEF Total
        <2>4. phase = "peers"
            BY <1>11, <1>t, NoneAssumption DEF SamplePeer, PollSound
        <2>5. serverTotal' + deltaSum' = serverTotal + deltaSum + delta
            BY <1>n, <2>1, <2>2
        <2>6. ServerTotalMatchesPeers'
            BY <1>t, <1>n, <2>2, <2>3, <2>5 DEF ServerTotalMatchesPeers
        <2> QED
            BY <2>2, <2>4, <2>6 DEF SumFollowsPoll
    <1>12. ASSUME NEW p \in Peers, PruneJournal(p)
           PROVE  SumFollowsPoll' /\ ServerTotalMatchesPeers'
        BY <1>1, <1>12 DEF PruneJournal, poll
    <1>13. CASE UNCHANGED vars
        BY <1>1, <1>13 DEF vars, tables, poll
    <1> QED
        BY <1>2, <1>3, <1>4, <1>5, <1>6, <1>7, <1>8, <1>9, <1>10, <1>11, <1>12, <1>13
        DEF Next

\* The traffic of a server is that of its peers, deleted ones included, for
\* any finite set of peers; polls that end early only make it less.
THEOREM ServerTotalMatchesPeersHolds == Spec => []ServerTotalMatchesPeers
    <1>1. Accounted => ServerTotalMatchesPeers
        BY DEF Accounted
    <1> QED
        BY <1>1, InitAccounted, StepAccounted, PTL DEF Spec
=============================================================================
