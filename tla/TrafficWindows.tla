--------------------------- MODULE TrafficWindows ---------------------------
(***************************************************************************)
(* What the pages say of the traffic of one server and of its peers over   *)
(* the last 30 minutes, 24 hours and 30 days                               *)
(* (src/server/services/server.service.ts, lib/traffic-points.ts), while   *)
(* polls add samples, rows of peers are deleted, and old samples are       *)
(* pruned (collector.service.ts, poll-defaults.ts).                        *)
(*                                                                         *)
(* The long window is added up from rows of whole hours, the others from   *)
(* raw samples that are kept for a while only; the charts group the same   *)
(* rows by minutes and hours of the clock.  Each number is one direction   *)
(* of traffic; a sample of no bytes and a row that is not there are the    *)
(* same.  A page reads all its rows at once here: a poll that commits      *)
(* between its statements makes it show that poll in part.                 *)
(***************************************************************************)
EXTENDS Integers, FiniteSets, Functions

CONSTANTS
    Peers,       \* public keys
    None,        \* no poll
    Minute,      \* units of time to a minute of the charts
    Hour,        \* the same to an hour
    HalfHour,    \* MS_30M
    Day,         \* MS_24H
    Month,       \* MS_30D
    RawKept,     \* RAW_SAMPLE_RETENTION_HOURS
    HourlyKept,  \* hourlyRetentionDays of the settings
    MaxTime,     \* bound: the clock
    MaxPolls,    \* bound: polls
    MaxAborts    \* bound: polls that end before their last statement

ASSUME NoneAssumption == None \notin [at : Nat, todo : SUBSET Peers, sum : Nat]
ASSUME PeersAssumption == IsFiniteSet(Peers)
ASSUME BoundsAssumption == {MaxTime, MaxPolls, MaxAborts} \subseteq Nat
ASSUME TimeAssumption ==
    /\ {Minute, Hour, HalfHour, Day, Month, RawKept, HourlyKept} \subseteq Nat \ {0}
    /\ Hour % Minute = 0
    /\ HalfHour <= Day /\ Day + Hour <= Month
    /\ RawKept >= Day /\ HourlyKept >= Month

VARIABLES
    now,
    rows,          \* table "peer": the peers that have a row
    samples,       \* table "peer_sample": [Peers -> [time -> rxDelta]]
    hourly,        \* table "peer_hourly_sample": [Peers -> [hour -> rxDelta]]
    orphaned,      \* the same, of the rows whose peer is gone: [hour -> rxDelta]
    serverSamples, \* table "server_sample": [time -> rxDelta]
    poll,          \* persistPollUnlocked: its "now", the peers to come, rxDeltaSum
    polls,
    aborts,
    counted,       \* history: all samples of the row a peer has
    ever           \* history: all samples of the server

tables == <<rows, samples, hourly, orphaned, serverSamples>>
history == <<counted, ever>>
vars == <<now, tables, poll, polls, aborts, history>>

Times == 0..MaxTime
Floor(t, unit) == (t \div unit) * unit
Hours == {t \in Times : Floor(t, Hour) = t}
NoSamples == [t \in Times |-> 0]
NoHours == [h \in Hours |-> 0]
Polling == [at : Times, todo : SUBSET Peers, sum : Nat]

TypeOK ==
    /\ now \in Times
    /\ rows \subseteq Peers
    /\ samples \in [Peers -> [Times -> Nat]]
    /\ hourly \in [Peers -> [Hours -> Nat]]
    /\ \A p \in Peers \ rows : samples[p] = NoSamples /\ hourly[p] = NoHours
    /\ orphaned \in [Hours -> Nat]
    /\ serverSamples \in [Times -> Nat]
    /\ poll \in Polling \cup {None}
    /\ polls \in 0..MaxPolls
    /\ aborts \in 0..MaxAborts
    /\ counted \in [Peers -> [Times -> Nat]]
    /\ ever \in [Times -> Nat]

Init ==
    /\ now = 0
    /\ rows = {}
    /\ samples = [p \in Peers |-> NoSamples]
    /\ hourly = [p \in Peers |-> NoHours]
    /\ orphaned = NoHours
    /\ serverSamples = NoSamples
    /\ poll = None
    /\ polls = 0
    /\ aborts = 0
    /\ counted = [p \in Peers |-> NoSamples]
    /\ ever = NoSamples

-----------------------------------------------------------------------------
(* Polls *)

TimePasses ==
    /\ now < MaxTime
    /\ now' = now + 1
    /\ UNCHANGED <<tables, poll, polls, aborts, history>>

\* persistPollUnlocked takes the time once; two polls are never at the same.
BeginPoll ==
    /\ poll = None
    /\ polls < MaxPolls
    /\ ever[now] = 0
    /\ polls' = polls + 1
    /\ \E todo \in SUBSET Peers : poll' = [at |-> now, todo |-> todo, sum |-> 0]
    /\ UNCHANGED <<now, tables, aborts, history>>

Add(f, t, bytes) == [f EXCEPT ![t] = @ + bytes]

\* One peer's upsert and transaction: a sample and its hour, by the time of the
\* poll.
SamplePeer(p) ==
    /\ poll # None
    /\ p \in poll.todo
    /\ rows' = rows \cup {p}
    /\ samples' = [samples EXCEPT ![p] = Add(@, poll.at, 1)]
    /\ hourly' = [hourly EXCEPT ![p] = Add(@, Floor(poll.at, Hour), 1)]
    /\ poll' = [poll EXCEPT !.todo = @ \ {p}, !.sum = @ + 1]
    /\ counted' = [counted EXCEPT ![p] = Add(@, poll.at, 1)]
    /\ ever' = Add(ever, poll.at, 1)
    /\ UNCHANGED <<now, orphaned, serverSamples, polls, aborts>>

\* A peer with a row that the poll, with the others persisted, did not list.
Absent(p) ==
    /\ poll # None
    /\ poll.todo = {}
    /\ p \in rows
    /\ counted[p][poll.at] = 0

\* Mutant: the samples of a peer outlive its row.
DeleteRowOnly(p) ==
    /\ Absent(p)
    /\ rows' = rows \ {p}
    /\ orphaned' = [h \in Hours |-> orphaned[h] + hourly[p][h]]
    /\ hourly' = [hourly EXCEPT ![p] = NoHours]
    /\ counted' = [counted EXCEPT ![p] = NoSamples]
    /\ UNCHANGED <<now, samples, serverSamples, poll, polls, aborts, ever>>

\* Mutant: the hours go with the peer.
DeleteHours(p) ==
    /\ Absent(p)
    /\ rows' = rows \ {p}
    /\ samples' = [samples EXCEPT ![p] = NoSamples]
    /\ hourly' = [hourly EXCEPT ![p] = NoHours]
    /\ counted' = [counted EXCEPT ![p] = NoSamples]
    /\ UNCHANGED <<now, orphaned, serverSamples, poll, polls, aborts, ever>>

\* db.peer.deleteMany, by the rules of PollCommit: onDelete Cascade for samples,
\* SetNull for hours, which stay with the server.
DeletePeer(p) ==
    /\ Absent(p)
    /\ rows' = rows \ {p}
    /\ samples' = [samples EXCEPT ![p] = NoSamples]
    /\ orphaned' = [h \in Hours |-> orphaned[h] + hourly[p][h]]
    /\ hourly' = [hourly EXCEPT ![p] = NoHours]
    /\ counted' = [counted EXCEPT ![p] = NoSamples]
    /\ UNCHANGED <<now, serverSamples, poll, polls, aborts, ever>>

StoreServerSample ==
    /\ poll # None
    /\ poll.todo = {}
    /\ serverSamples' = Add(serverSamples, poll.at, poll.sum)
    /\ poll' = None
    /\ UNCHANGED <<now, rows, samples, hourly, orphaned, polls, aborts, history>>

Abort ==
    /\ poll # None
    /\ aborts < MaxAborts
    /\ aborts' = aborts + 1
    /\ poll' = None
    /\ UNCHANGED <<now, tables, polls, history>>

\* pruneOldSamples, statement by statement: any of them may be the last.
Since(f, cutoff) == [t \in DOMAIN f |-> IF t < cutoff THEN 0 ELSE f[t]]

PruneSamples(p) ==
    /\ samples' = [samples EXCEPT ![p] = Since(@, now - RawKept)]
    /\ UNCHANGED <<now, rows, hourly, orphaned, serverSamples, poll, polls, aborts, history>>

PruneServerSamples ==
    /\ serverSamples' = Since(serverSamples, now - RawKept)
    /\ UNCHANGED <<now, rows, samples, hourly, orphaned, poll, polls, aborts, history>>

PruneHourly ==
    /\ hourly' = [p \in Peers |-> Since(hourly[p], now - HourlyKept)]
    /\ orphaned' = Since(orphaned, now - HourlyKept)
    /\ UNCHANGED <<now, rows, samples, serverSamples, poll, polls, aborts, history>>

Next ==
    \/ TimePasses \/ BeginPoll \/ StoreServerSample \/ Abort
    \/ PruneServerSamples \/ PruneHourly
    \/ \E p \in Peers : SamplePeer(p) \/ DeletePeer(p) \/ PruneSamples(p)

Spec == Init /\ [][Next]_vars

-----------------------------------------------------------------------------
(* Queries of the pages *)

\* SUM(...) WHERE time >= since
SumSince(f, since) == SumFunctionOnSet(f, {t \in DOMAIN f : t >= since})

peersTrafficTotals(p) ==
    [m30 |-> SumSince(samples[p], now - HalfHour),
     h24 |-> SumSince(samples[p], now - Day),
     d30 |-> SumSince(hourly[p], now - Month)]

serversTraffic24h == SumSince(serverSamples, now - Day)

\* The hours of all its peers, and of those that are gone.
serverHours == [h \in Hours |-> orphaned[h] + SumFunction([p \in Peers |-> hourly[p][h]])]
serversTraffic30d == SumSince(serverHours, now - Month)

\* The points of a chart: [time -> bytes].
filterPointsSince(f, since) == [t \in {t \in DOMAIN f : t >= since} |-> f[t]]

\* Mutant: the chart starts with the first full minute.
FullMinutes(f, since, until) ==
    [m \in {m \in since..until : Floor(m, Minute) = m} |->
        SumFunctionOnSet(f, {t \in DOMAIN f : Floor(t, Minute) = m})]

\* Every minute of the clock from since to until, those without a point included.
bucketMinutes(f, since, until) ==
    [m \in {m \in Floor(since, Minute)..until : Floor(m, Minute) = m} |->
        SumFunctionOnSet(f, {t \in DOMAIN f : Floor(t, Minute) = m})]

\* The same for hours, of which there is at most one row each.
fillHours(f, since, until) ==
    [h \in {h \in Floor(since, Hour)..until : Floor(h, Hour) = h} |->
        IF h \in DOMAIN f THEN f[h] ELSE 0]

peerTrafficWindows(p) ==
    LET points24raw == filterPointsSince(samples[p], now - Day)
    IN  [m30 |-> filterPointsSince(points24raw, now - HalfHour),
         h24 |-> bucketMinutes(points24raw, now - Day, now),
         d30 |-> fillHours(filterPointsSince(hourly[p], now - Month), now - Month, now)]

\* The database groups by minute before the page does.
serverTrafficWindows ==
    LET raw24 == filterPointsSince(serverSamples, now - Day)
        minute24 == [m \in {Floor(t, Minute) : t \in DOMAIN raw24} |->
                        SumFunctionOnSet(raw24, {t \in DOMAIN raw24 : Floor(t, Minute) = m})]
    IN  [m30 |-> filterPointsSince(serverSamples, now - HalfHour),
         h24 |-> bucketMinutes(minute24, now - Day, now),
         d30 |-> fillHours(filterPointsSince(serverHours, now - Month), now - Month, now)]

-----------------------------------------------------------------------------
(* Properties *)

HistorySince(f, since) == SumFunctionOnSet(f, {t \in Times : t >= since})
HistoryOfHours(f) == SumFunctionOnSet(f, {t \in Times : Floor(t, Hour) >= now - Month})

\* The numbers of a window are what was counted in it: pruning never takes a
\* sample some window needs, rows of hours and raw samples never drift apart, and
\* what a deleted peer transferred stays with the server.  Only a poll that did
\* not reach its last statement is missing from the server's shorter windows
\* (peersTrafficTotals, serversTraffic24h, serversTraffic30d, pruneOldSamples).
TotalsAreHistory ==
    /\ \A p \in rows :
          /\ peersTrafficTotals(p).m30 = HistorySince(counted[p], now - HalfHour)
          /\ peersTrafficTotals(p).h24 = HistorySince(counted[p], now - Day)
          /\ peersTrafficTotals(p).d30 = HistoryOfHours(counted[p])
    /\ serversTraffic30d = HistoryOfHours(ever)
    /\ serversTraffic24h <= HistorySince(ever, now - Day)
    /\ aborts = 0 /\ poll = None => serversTraffic24h = HistorySince(ever, now - Day)

\* A chart shows what its heading adds up, also at the edges of a window that
\* begins within a minute or an hour, and a server's windows contain one another
\* although they come from different tables (bucketMinutes, fillHours).
PointsSumToTotals ==
    /\ \A p \in rows :
          LET windows == peerTrafficWindows(p)
              totals == peersTrafficTotals(p)
          IN  /\ SumFunction(windows.m30) = totals.m30
              /\ SumFunction(windows.h24) = totals.h24
              /\ SumFunction(windows.d30) = totals.d30
    /\ LET windows == serverTrafficWindows
       IN  /\ SumFunction(windows.h24) = serversTraffic24h
           /\ SumFunction(windows.d30) = serversTraffic30d
           /\ SumFunction(windows.m30) <= SumFunction(windows.h24)
           /\ SumFunction(windows.h24) <= SumFunction(windows.d30)
=============================================================================
