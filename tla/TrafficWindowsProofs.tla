------------------------ MODULE TrafficWindowsProofs ------------------------
(***************************************************************************)
(* Proofs about TrafficWindows, for any finite set of peers, any unit of   *)
(* time and any retention that TimeAssumption allows: the totals are what  *)
(* was counted, and the charts add up to the totals.                       *)
(*                                                                         *)
(* TotalsAreHistory is not inductive: a total says nothing of the hours it *)
(* is made of.  The invariant keeps the books hour by hour and sample by   *)
(* sample, as far back as pruning leaves them alone.                       *)
(***************************************************************************)
EXTENDS TrafficWindows, Sums, TLAPS

-----------------------------------------------------------------------------
(* The clock *)

\* The quotient of a division, by what it is multiplied back to.
LEMMA Quotient ==
    ASSUME NEW t \in Int, NEW u \in Nat \ {0}
    PROVE  /\ t \div u \in Int
           /\ (t \div u) * u <= t
           /\ t < (t \div u) * u + u
OBVIOUS

\* Multiples of u are u apart.
LEMMA MultiplesApart ==
    ASSUME NEW a \in Int, NEW b \in Int, NEW u \in Nat \ {0}, a < b
    PROVE  a * u + u <= b * u
<1>1. b * u = a * u + u + (b - a - 1) * u
    OBVIOUS
<1>2. (b - a - 1) * u >= 0
    OBVIOUS
<1> QED BY <1>1, <1>2

LEMMA QuotientUnique ==
    ASSUME NEW t \in Int, NEW u \in Nat \ {0}, NEW q \in Int,
           q * u <= t, t < q * u + u
    PROVE  t \div u = q
<1>1. t \div u \in Int
    BY Quotient
<1>2. ~(q < t \div u)
    BY <1>1, Quotient, MultiplesApart
<1>3. ~(t \div u < q)
    BY <1>1, Quotient, MultiplesApart
<1> QED BY <1>1, <1>2, <1>3

\* Floor is the last full unit, and nothing more happens to a full unit.
LEMMA FloorFacts ==
    ASSUME NEW t \in Int, NEW u \in Nat \ {0}
    PROVE  /\ Floor(t, u) \in Int
           /\ Floor(t, u) <= t /\ t < Floor(t, u) + u
           /\ Floor(Floor(t, u), u) = Floor(t, u)
           /\ t >= 0 => Floor(t, u) >= 0
<1> DEFINE q == t \div u
<1>1. q \in Int /\ q * u \in Int /\ q * u <= t /\ t < q * u + u
    BY Quotient
<1>2. (q * u) \div u = q
  <2> HIDE DEF q
  <2>1. q * u < q * u + u
      BY <1>1
  <2> QED BY <1>1, <2>1, QuotientUnique
<1>3. t >= 0 => q * u >= 0
  <2>1. 0 * u = 0
      OBVIOUS
  <2>2. q < 0 => q * u + u <= 0
      BY <1>1, <2>1, MultiplesApart
  <2>3. q >= 0 => q * u >= 0
      OBVIOUS
  <2> HIDE DEF q
  <2> QED BY <1>1, <2>2, <2>3
<1> QED BY <1>1, <1>2, <1>3 DEF Floor

LEMMA FloorMonotone ==
    ASSUME NEW s \in Int, NEW t \in Int, NEW u \in Nat \ {0}, s <= t
    PROVE  Floor(s, u) <= Floor(t, u)
<1>1. ~(t \div u < s \div u)
    BY Quotient, MultiplesApart
<1>2. s \div u = t \div u \/ s \div u < t \div u
    BY <1>1, Quotient
<1>3. s \div u < t \div u => (s \div u) * u + u <= (t \div u) * u
    BY Quotient, MultiplesApart
<1> QED BY <1>2, <1>3, Quotient DEF Floor

\* The units of time are positive, and each window is kept.
LEMMA Units ==
    /\ Minute \in Nat \ {0} /\ Hour \in Nat \ {0}
    /\ HalfHour \in Nat /\ Day \in Nat /\ Month \in Nat
    /\ RawKept \in Nat /\ HourlyKept \in Nat
    /\ HalfHour <= Day /\ Day + Hour <= Month /\ Day <= RawKept /\ Month <= HourlyKept
BY TimeAssumption

\* The clock has finitely many moments, and each is in an hour.
LEMMA TimesFinite ==
    /\ IsFiniteSet(Times) /\ IsFiniteSet(Hours)
    /\ Times \subseteq Nat /\ Hours \subseteq Times
    /\ \A h \in Hours : Floor(h, Hour) = h
    /\ \A t \in Times : Floor(t, Hour) \in Hours
<1>1. MaxTime \in Nat
    BY BoundsAssumption
<1>2. IsFiniteSet(Times) /\ Times \subseteq Nat
    BY <1>1, FS_Interval DEF Times
<1>3. Hours \subseteq Times /\ \A h \in Hours : Floor(h, Hour) = h
    BY DEF Hours
<1>4. ASSUME NEW t \in Times PROVE Floor(t, Hour) \in Hours
  <2>1. /\ Floor(t, Hour) \in Int /\ Floor(t, Hour) <= t /\ Floor(t, Hour) >= 0
        /\ Floor(Floor(t, Hour), Hour) = Floor(t, Hour)
      BY <1>2, Units, FloorFacts
  <2>2. t \in Nat /\ t <= MaxTime
      BY <1>1 DEF Times
  <2> QED BY <1>1, <2>1, <2>2 DEF Hours, Times
<1> QED BY <1>2, <1>3, <1>4, FS_Subset

-----------------------------------------------------------------------------
(* Rows of hours *)

\* The moments of an hour.
HourOf(h) == {t \in Times : Floor(t, Hour) = h}

\* A sample more is a sample more in its hour.
LEMMA SampleInHour ==
    ASSUME NEW f \in [Times -> Nat], NEW at \in Times, NEW h \in Hours
    PROVE  SumFunctionOnSet(Add(f, at, 1), HourOf(h))
           = SumFunctionOnSet(f, HourOf(h)) + (IF h = Floor(at, Hour) THEN 1 ELSE 0)
<1> DEFINE g == Add(f, at, 1)
<1>1. /\ \A t \in HourOf(h) : f[t] \in Int /\ g[t] \in Int
      /\ \A t \in HourOf(h) \ {at} : g[t] = f[t]
      /\ g[at] - f[at] = 1
    BY DEF Add, HourOf
<1>2. IsFiniteSet(HourOf(h))
    BY TimesFinite, FS_Subset DEF HourOf
<1>3. SumFunctionOnSet(f, HourOf(h)) \in Int
    BY <1>1, <1>2, SumInt
<1> HIDE DEF g
<1>4. CASE h = Floor(at, Hour)
  <2>1. at \in HourOf(h)
      BY <1>4 DEF HourOf
  <2>2. SumFunctionOnSet(g, HourOf(h)) = SumFunctionOnSet(f, HourOf(h)) + (g[at] - f[at])
      BY <1>1, <1>2, <2>1, SumUpdate
  <2> QED BY <1>1, <1>3, <1>4, <2>2 DEF g
<1>5. CASE h # Floor(at, Hour)
  <2>1. at \notin HourOf(h)
      BY <1>5 DEF HourOf
  <2>2. SumFunctionOnSet(g, HourOf(h)) = SumFunctionOnSet(f, HourOf(h))
      BY <1>1, <1>2, <2>1, SumSame
  <2> QED BY <1>3, <1>5, <2>2 DEF g
<1> QED BY <1>4, <1>5

\* Rows that hold the sum of each hour since a moment add up to all samples of
\* these hours.
LEMMA HoursAddUp ==
    ASSUME NEW f \in [Times -> Nat], NEW g \in [Hours -> Nat], NEW since \in Int,
           \A h \in Hours : h >= since => g[h] = SumFunctionOnSet(f, HourOf(h))
    PROVE  SumSince(g, since)
           = SumFunctionOnSet(f, {t \in Times : Floor(t, Hour) >= since})
<1> DEFINE M == {h \in Hours : h >= since}
           S == {t \in Times : Floor(t, Hour) >= since}
           key == [t \in S |-> Floor(t, Hour)]
<1>1. IsFiniteSet(M) /\ IsFiniteSet(S)
    BY TimesFinite, FS_Subset
<1>2. \A t \in S : key[t] \in M /\ f[t] \in Int
    BY TimesFinite
<1>3. \A m \in M : GroupOf(S, key, m) = HourOf(m)
    BY DEF HourOf, GroupOf
<1>4. \A m \in M : g[m] = SumFunctionOnSet(f, GroupOf(S, key, m))
    BY <1>3
<1>5. {h \in DOMAIN g : h >= since} = M
    OBVIOUS
<1> HIDE DEF M, S, key
<1>6. SumFunctionOnSet(g, M) = SumFunctionOnSet(f, S)
    BY <1>1, <1>2, <1>4, SumGroups
<1> QED BY <1>5, <1>6 DEF SumSince, S

-----------------------------------------------------------------------------
(* Types *)

\* The empty tables have the types of tables.
LEMMA EmptyTables == NoSamples \in [Times -> Nat] /\ NoHours \in [Hours -> Nat]
BY DEF NoSamples, NoHours

\* Pruning leaves samples from the cutoff on, and zeros before it.
LEMMA SinceFacts ==
    ASSUME NEW D, NEW f \in [D -> Nat], NEW cutoff
    PROVE  /\ Since(f, cutoff) \in [D -> Nat]
           /\ \A t \in D : Since(f, cutoff)[t] = IF t < cutoff THEN 0 ELSE f[t]
BY DEF Since

\* Adding to one moment.
LEMMA AddFacts ==
    ASSUME NEW D, NEW f \in [D -> Nat], NEW at \in D, NEW bytes \in Nat
    PROVE  /\ Add(f, at, bytes) \in [D -> Nat]
           /\ \A t \in D : Add(f, at, bytes)[t] = f[t] + (IF t = at THEN bytes ELSE 0)
BY DEF Add

\* An hour with one more sample of p, in all tables that count it.
LEMMA SampleEffect ==
    ASSUME TypeOK, NEW p \in Peers, SamplePeer(p)
    PROVE  /\ poll.at \in Times /\ Floor(poll.at, Hour) \in Hours
           /\ samples' \in [Peers -> [Times -> Nat]]
           /\ samples'[p] = Add(samples[p], poll.at, 1)
           /\ \A q \in Peers \ {p} : samples'[q] = samples[q]
           /\ hourly' \in [Peers -> [Hours -> Nat]]
           /\ hourly'[p] = Add(hourly[p], Floor(poll.at, Hour), 1)
           /\ \A q \in Peers \ {p} : hourly'[q] = hourly[q]
           /\ counted' \in [Peers -> [Times -> Nat]]
           /\ counted'[p] = Add(counted[p], poll.at, 1)
           /\ \A q \in Peers \ {p} : counted'[q] = counted[q]
           /\ ever' \in [Times -> Nat] /\ ever' = Add(ever, poll.at, 1)
<1>1. poll.at \in Times
    BY DEF TypeOK, SamplePeer, Polling
<1>2. Floor(poll.at, Hour) \in Hours
    BY <1>1, TimesFinite
<1>3. /\ Add(samples[p], poll.at, 1) \in [Times -> Nat]
      /\ Add(counted[p], poll.at, 1) \in [Times -> Nat]
      /\ Add(ever, poll.at, 1) \in [Times -> Nat]
      /\ Add(hourly[p], Floor(poll.at, Hour), 1) \in [Hours -> Nat]
    BY <1>1, <1>2, AddFacts DEF TypeOK
<1>4. /\ samples' = [samples EXCEPT ![p] = Add(samples[p], poll.at, 1)]
      /\ hourly' = [hourly EXCEPT ![p] = Add(hourly[p], Floor(poll.at, Hour), 1)]
      /\ counted' = [counted EXCEPT ![p] = Add(counted[p], poll.at, 1)]
      /\ ever' = Add(ever, poll.at, 1)
    BY DEF SamplePeer
<1>5. /\ samples \in [Peers -> [Times -> Nat]] /\ hourly \in [Peers -> [Hours -> Nat]]
      /\ counted \in [Peers -> [Times -> Nat]]
    BY DEF TypeOK
<1> QED BY <1>1, <1>2, <1>3, <1>4, <1>5

\* The row of p is gone, its hours stay with the server.
LEMMA DeleteEffect ==
    ASSUME TypeOK, NEW p \in Peers, DeletePeer(p)
    PROVE  /\ samples' \in [Peers -> [Times -> Nat]] /\ samples'[p] = NoSamples
           /\ \A q \in Peers \ {p} : samples'[q] = samples[q]
           /\ hourly' \in [Peers -> [Hours -> Nat]] /\ hourly'[p] = NoHours
           /\ \A q \in Peers \ {p} : hourly'[q] = hourly[q]
           /\ counted' \in [Peers -> [Times -> Nat]] /\ counted'[p] = NoSamples
           /\ \A q \in Peers \ {p} : counted'[q] = counted[q]
           /\ orphaned' \in [Hours -> Nat]
           /\ \A h \in Hours : orphaned'[h] = orphaned[h] + hourly[p][h]
<1>1. /\ samples' = [samples EXCEPT ![p] = NoSamples]
      /\ hourly' = [hourly EXCEPT ![p] = NoHours]
      /\ counted' = [counted EXCEPT ![p] = NoSamples]
      /\ orphaned' = [h \in Hours |-> orphaned[h] + hourly[p][h]]
    BY DEF DeletePeer
<1>2. /\ samples \in [Peers -> [Times -> Nat]] /\ hourly \in [Peers -> [Hours -> Nat]]
      /\ counted \in [Peers -> [Times -> Nat]] /\ orphaned \in [Hours -> Nat]
    BY DEF TypeOK
<1> HIDE DEF NoSamples, NoHours
<1> QED BY <1>1, <1>2, EmptyTables

\* The poll goes on after a sample.
LEMMA SampledPoll ==
    ASSUME TypeOK, NEW p \in Peers, SamplePeer(p)
    PROVE  poll' \in Polling
<1>1. poll' = [at |-> poll.at, todo |-> poll.todo \ {p}, sum |-> poll.sum + 1]
    BY DEF SamplePeer, TypeOK, Polling
<1>2. poll.at \in Times /\ poll.todo \subseteq Peers /\ poll.sum \in Nat
    BY DEF SamplePeer, TypeOK, Polling
<1> QED BY <1>1, <1>2 DEF Polling

\* A database without a sample has its types.
LEMMA InitTypes == Init => TypeOK
<1> SUFFICES ASSUME Init PROVE TypeOK
    OBVIOUS
<1>1. 0 \in Times /\ 0 \in 0..MaxPolls /\ 0 \in 0..MaxAborts
    BY BoundsAssumption DEF Times
<1> HIDE DEF NoSamples, NoHours
<1> QED BY <1>1, EmptyTables DEF Init, TypeOK

\* No poll, no deletion and no pruning leaves the types, and a peer without a
\* row has no samples.
LEMMA StepTypes == TypeOK /\ [Next]_vars => TypeOK'
<1> SUFFICES ASSUME TypeOK, [Next]_vars PROVE TypeOK'
    OBVIOUS
<1> USE BoundsAssumption
<1> HIDE DEF NoSamples, NoHours
<1>1. CASE TimePasses
  <2>1. now' \in Times
      BY <1>1 DEF TimePasses, TypeOK, Times
  <2> QED BY <1>1, <2>1 DEF TimePasses, TypeOK, tables, history
<1>2. CASE BeginPoll
  <2>1. poll' \in Polling
    <3>1. PICK todo \in SUBSET Peers : poll' = [at |-> now, todo |-> todo, sum |-> 0]
        BY <1>2 DEF BeginPoll
    <3> QED BY <3>1 DEF Polling, TypeOK
  <2>2. polls' \in 0..MaxPolls
      BY <1>2 DEF BeginPoll, TypeOK
  <2> QED BY <1>2, <2>1, <2>2 DEF BeginPoll, TypeOK, tables, history
<1>3. CASE StoreServerSample
  <2>1. serverSamples' \in [Times -> Nat]
    <3>1. poll.at \in Times /\ poll.sum \in Nat
        BY <1>3 DEF StoreServerSample, TypeOK, Polling
    <3> QED BY <1>3, <3>1, AddFacts DEF StoreServerSample, TypeOK
  <2> QED BY <1>3, <2>1 DEF StoreServerSample, TypeOK, history
<1>4. CASE Abort
    BY <1>4 DEF Abort, TypeOK, tables, history
<1>5. CASE PruneServerSamples
  <2>1. serverSamples' \in [Times -> Nat]
      BY <1>5, SinceFacts DEF PruneServerSamples, TypeOK
  <2> QED BY <1>5, <2>1 DEF PruneServerSamples, TypeOK, history
<1>6. CASE PruneHourly
  <2>1. \A q \in Peers : hourly'[q] = Since(hourly[q], now - HourlyKept)
      BY <1>6 DEF PruneHourly
  <2>2. hourly' \in [Peers -> [Hours -> Nat]] /\ orphaned' \in [Hours -> Nat]
    <3>1. \A q \in Peers : Since(hourly[q], now - HourlyKept) \in [Hours -> Nat]
        BY SinceFacts DEF TypeOK
    <3>2. Since(orphaned, now - HourlyKept) \in [Hours -> Nat]
        BY SinceFacts DEF TypeOK
    <3> QED BY <1>6, <3>1, <3>2 DEF PruneHourly
  <2>3. \A q \in Peers \ rows : hourly'[q] = NoHours
      BY <2>1 DEF TypeOK, Since, NoHours
  <2> QED BY <1>6, <2>2, <2>3 DEF PruneHourly, TypeOK, history
<1>7. ASSUME NEW p \in Peers, SamplePeer(p) PROVE TypeOK'
  <2>1. poll' \in Polling
      BY <1>7, SampledPoll
  <2>2. /\ rows' = rows \cup {p}
        /\ UNCHANGED <<now, orphaned, serverSamples, polls, aborts>>
      BY <1>7 DEF SamplePeer
  <2>3. \A q \in Peers \ rows' : samples'[q] = NoSamples /\ hourly'[q] = NoHours
      BY <1>7, <2>2, SampleEffect DEF TypeOK
  <2>4. /\ samples' \in [Peers -> [Times -> Nat]] /\ hourly' \in [Peers -> [Hours -> Nat]]
        /\ counted' \in [Peers -> [Times -> Nat]] /\ ever' \in [Times -> Nat]
      BY <1>7, SampleEffect
  <2> QED BY <2>1, <2>2, <2>3, <2>4 DEF TypeOK
<1>8. ASSUME NEW p \in Peers, DeletePeer(p) PROVE TypeOK'
  <2>1. rows' = rows \ {p} /\ UNCHANGED <<now, serverSamples, poll, polls, aborts, ever>>
      BY <1>8 DEF DeletePeer
  <2>2. \A q \in Peers \ rows' : samples'[q] = NoSamples /\ hourly'[q] = NoHours
      BY <1>8, <2>1, DeleteEffect DEF TypeOK
  <2>3. /\ samples' \in [Peers -> [Times -> Nat]] /\ hourly' \in [Peers -> [Hours -> Nat]]
        /\ counted' \in [Peers -> [Times -> Nat]] /\ orphaned' \in [Hours -> Nat]
      BY <1>8, DeleteEffect
  <2> QED BY <2>1, <2>2, <2>3 DEF TypeOK
<1>9. ASSUME NEW p \in Peers, PruneSamples(p) PROVE TypeOK'
  <2>1. /\ samples' = [samples EXCEPT ![p] = Since(samples[p], now - RawKept)]
        /\ UNCHANGED <<now, rows, hourly, orphaned, serverSamples, poll, polls, aborts, history>>
      BY <1>9 DEF PruneSamples
  <2>2. Since(samples[p], now - RawKept) \in [Times -> Nat]
      BY SinceFacts DEF TypeOK
  <2>3. samples[p] = NoSamples => Since(samples[p], now - RawKept) = NoSamples
      BY DEF Since, NoSamples
  <2>4. samples' \in [Peers -> [Times -> Nat]]
      BY <2>1, <2>2 DEF TypeOK
  <2>5. \A q \in Peers \ rows : samples'[q] = NoSamples
      BY <2>1, <2>3 DEF TypeOK
  <2> QED BY <2>1, <2>4, <2>5 DEF TypeOK, history
<1>10. CASE UNCHANGED vars
    BY <1>10 DEF vars, tables, history, TypeOK
<1> QED
    BY <1>1, <1>2, <1>3, <1>4, <1>5, <1>6, <1>7, <1>8, <1>9, <1>10 DEF Next

\* Every table keeps its type, and the samples and hours of a peer go with its
\* row.
THEOREM TypesHold == Spec => []TypeOK
BY InitTypes, StepTypes, PTL DEF Spec

-----------------------------------------------------------------------------
(* The books: hour by hour, sample by sample *)

\* A poll began at some time, and nothing carries a later one.
NothingLater ==
    /\ poll # None => poll.at <= now
    /\ \A t \in Times : t > now =>
          serverSamples[t] = 0 /\ \A p \in Peers : samples[p][t] = 0
    /\ \A h \in Hours : h > now =>
          orphaned[h] = 0 /\ \A p \in Peers : hourly[p][h] = 0

\* Raw samples that pruning leaves alone are all there.
RawIsKept ==
    \A p \in Peers : \A t \in Times :
        t >= now - RawKept => samples[p][t] = counted[p][t]

\* A peer's row of an hour holds the samples of that hour.
HoursAreKept ==
    \A p \in Peers : \A h \in Hours :
        h >= now - HourlyKept => hourly[p][h] = SumFunctionOnSet(counted[p], HourOf(h))

\* So do the rows of all peers, with those that lost theirs.
ServerHoursAreKept ==
    \A h \in Hours :
        h >= now - HourlyKept => serverHours[h] = SumFunctionOnSet(ever, HourOf(h))

\* The server's own samples lag behind by the poll that runs, and by those that
\* ended early.
ServerSamplesLag ==
    /\ \A t \in Times : serverSamples[t] <= ever[t]
    /\ poll # None => serverSamples[poll.at] = 0 /\ ever[poll.at] = poll.sum
    /\ aborts = 0 =>
          \A t \in Times :
              t >= now - RawKept /\ (poll # None => t # poll.at)
                  => serverSamples[t] = ever[t]

Books ==
    /\ TypeOK /\ NothingLater /\ RawIsKept
    /\ HoursAreKept /\ ServerHoursAreKept /\ ServerSamplesLag

\* What the server has of an hour.
LEMMA ServerHour ==
    ASSUME TypeOK, NEW h \in Hours
    PROVE  /\ serverHours[h]
                  = orphaned[h] + SumFunctionOnSet([p \in Peers |-> hourly[p][h]], Peers)
           /\ SumFunctionOnSet([p \in Peers |-> hourly[p][h]], Peers) \in Nat
<1> DEFINE f == [p \in Peers |-> hourly[p][h]]
<1>1. \A p \in Peers : f[p] \in Nat
    BY DEF TypeOK
<1>2. DOMAIN f = Peers /\ serverHours[h] = orphaned[h] + SumFunction(f)
    BY DEF serverHours
<1> HIDE DEF f
<1>3. SumFunctionOnSet(f, Peers) \in Nat
    BY <1>1, PeersAssumption, SumNat
<1> QED BY <1>2, <1>3 DEF SumFunction, f

\* The books of an empty database are right.
LEMMA InitBooks == Init => Books
<1> SUFFICES ASSUME Init PROVE Books
    OBVIOUS
<1>1. TypeOK
    BY InitTypes
<1>2. \A t \in Times : NoSamples[t] = 0
    BY DEF NoSamples
<1>3. \A h \in Hours : NoHours[h] = 0
    BY DEF NoHours
<1>4. \A h \in Hours : SumFunctionOnSet(NoSamples, HourOf(h)) = 0
  <2> SUFFICES ASSUME NEW h \in Hours PROVE SumFunctionOnSet(NoSamples, HourOf(h)) = 0
      OBVIOUS
  <2>1. IsFiniteSet(HourOf(h)) /\ HourOf(h) \subseteq Times
      BY TimesFinite, FS_Subset DEF HourOf
  <2> QED BY <1>2, <2>1, SumZeros
<1> HIDE DEF NoSamples, NoHours
<1>5. NothingLater /\ RawIsKept /\ ServerSamplesLag
    BY <1>2, <1>3 DEF Init, NothingLater, RawIsKept, ServerSamplesLag
<1>6. HoursAreKept
    BY <1>3, <1>4 DEF Init, HoursAreKept
<1>7. ServerHoursAreKept
  <2> SUFFICES ASSUME NEW h \in Hours PROVE serverHours[h] = 0
      BY <1>4 DEF Init, ServerHoursAreKept
  <2> DEFINE f == [p \in Peers |-> hourly[p][h]]
  <2>1. \A p \in Peers : f[p] = 0
      BY <1>3 DEF Init
  <2>2. serverHours[h] = orphaned[h] + SumFunctionOnSet(f, Peers)
      BY <1>1, ServerHour
  <2>3. orphaned[h] = 0
      BY <1>3 DEF Init
  <2> HIDE DEF f
  <2>4. SumFunctionOnSet(f, Peers) = 0
      BY <2>1, PeersAssumption, SumZeros
  <2> QED BY <2>2, <2>3, <2>4
<1> QED BY <1>1, <1>5, <1>6, <1>7 DEF Books

\* No step writes to the future.
LEMMA StepLater == Books /\ [Next]_vars => NothingLater'
<1> SUFFICES ASSUME Books, [Next]_vars PROVE NothingLater'
    OBVIOUS
<1>t. TypeOK /\ NothingLater /\ now \in Nat /\ Times \subseteq Nat /\ Hours \subseteq Nat
    BY TimesFinite DEF Books, TypeOK
<1>1. CASE TimePasses
  <2>1. now' = now + 1 /\ UNCHANGED <<samples, hourly, orphaned, serverSamples, poll>>
      BY <1>1 DEF TimePasses, tables
  <2>2. /\ \A t \in Times : t > now' => t > now
        /\ \A h \in Hours : h > now' => h > now
        /\ poll # None => poll.at <= now'
    <3>1. poll # None => poll.at \in Nat
        BY <1>t DEF TypeOK, Polling
    <3> QED BY <1>t, <2>1, <3>1 DEF NothingLater
  <2> QED BY <1>t, <2>1, <2>2 DEF NothingLater
<1>2. CASE BeginPoll
  <2>1. poll'.at = now
      BY <1>2 DEF BeginPoll
  <2> QED BY <1>t, <1>2, <2>1 DEF BeginPoll, NothingLater, tables
<1>3. CASE StoreServerSample
  <2>1. poll.at \in Times /\ poll.sum \in Nat /\ poll.at <= now
      BY <1>t, <1>3 DEF StoreServerSample, TypeOK, Polling, NothingLater
  <2>2. \A t \in Times : t # poll.at => serverSamples'[t] = serverSamples[t]
    <3>1. /\ serverSamples \in [Times -> Nat]
          /\ serverSamples' = Add(serverSamples, poll.at, poll.sum)
        BY <1>t, <1>3 DEF StoreServerSample, TypeOK
    <3> QED BY <2>1, <3>1 DEF Add
  <2>3. poll' = None /\ UNCHANGED <<now, samples, hourly, orphaned>>
      BY <1>3 DEF StoreServerSample
  <2> QED BY <1>t, <2>1, <2>2, <2>3 DEF NothingLater
<1>4. CASE Abort
    BY <1>t, <1>4 DEF Abort, NothingLater, tables
<1>5. CASE PruneServerSamples
  <2>1. \A t \in Times : serverSamples[t] = 0 => serverSamples'[t] = 0
    <3>1. /\ serverSamples \in [Times -> Nat]
          /\ serverSamples' = Since(serverSamples, now - RawKept)
        BY <1>t, <1>5 DEF PruneServerSamples, TypeOK
    <3> QED BY <3>1, SinceFacts
  <2> QED BY <1>t, <1>5, <2>1 DEF PruneServerSamples, NothingLater
<1>6. CASE PruneHourly
  <2>1. \A h \in Hours : orphaned[h] = 0 => orphaned'[h] = 0
    <3>1. /\ orphaned \in [Hours -> Nat]
          /\ orphaned' = Since(orphaned, now - HourlyKept)
        BY <1>t, <1>6 DEF PruneHourly, TypeOK
    <3> QED BY <3>1, SinceFacts
  <2>2. ASSUME NEW q \in Peers, NEW h \in Hours, hourly[q][h] = 0
        PROVE  hourly'[q][h] = 0
    <3>1. hourly[q] \in [Hours -> Nat] /\ hourly'[q] = Since(hourly[q], now - HourlyKept)
        BY <1>t, <1>6 DEF PruneHourly, TypeOK
    <3> QED BY <2>2, <3>1, SinceFacts
  <2> QED BY <1>t, <1>6, <2>1, <2>2 DEF PruneHourly, NothingLater
<1>7. ASSUME NEW p \in Peers, SamplePeer(p) PROVE NothingLater'
  <2>1. /\ poll.at \in Times /\ Floor(poll.at, Hour) \in Hours /\ poll.at <= now
        /\ Floor(poll.at, Hour) <= poll.at
    <3>1. poll.at \in Times /\ Floor(poll.at, Hour) \in Hours /\ poll # None
        BY <1>t, <1>7, SampleEffect DEF SamplePeer
    <3>2. Floor(poll.at, Hour) <= poll.at
      <4>1. poll.at \in Int
        <5>1. poll.at \in Times /\ Times \subseteq Nat
            BY <1>t, <3>1
        <5>2. poll.at \in Nat
            BY <5>1
        <5> QED BY <5>2
      <4>2. Hour \in Nat \ {0}
          BY Units
      <4> QED BY <4>1, <4>2, FloorFacts
    <3> QED BY <1>t, <3>1, <3>2 DEF NothingLater
  <2>2. \A q \in Peers : \A t \in Times : t # poll.at => samples'[q][t] = samples[q][t]
    <3>1. \A t \in Times : t # poll.at => samples'[p][t] = samples[p][t]
      <4>1. samples[p] \in [Times -> Nat] /\ samples'[p] = Add(samples[p], poll.at, 1)
          BY <1>t, <1>7, SampleEffect DEF TypeOK
      <4> QED BY <4>1 DEF Add
    <3> QED BY <1>t, <1>7, <3>1, SampleEffect
  <2>3. \A q \in Peers : \A h \in Hours :
            h # Floor(poll.at, Hour) => hourly'[q][h] = hourly[q][h]
    <3>1. \A h \in Hours : h # Floor(poll.at, Hour) => hourly'[p][h] = hourly[p][h]
      <4>1. hourly[p] \in [Hours -> Nat] /\ hourly'[p] = Add(hourly[p], Floor(poll.at, Hour), 1)
          BY <1>t, <1>7, SampleEffect DEF TypeOK
      <4> QED BY <4>1 DEF Add
    <3> QED BY <1>t, <1>7, <3>1, SampleEffect
  <2>4. poll'.at = poll.at /\ poll # None /\ UNCHANGED <<now, orphaned, serverSamples>>
      BY <1>t, <1>7 DEF SamplePeer, TypeOK, Polling
  <2>5. \A t \in Times : t > now => t # poll.at
      BY <1>t, <2>1
  <2>6. \A h \in Hours : h > now => h # Floor(poll.at, Hour)
    <3>1. Floor(poll.at, Hour) \in Nat /\ poll.at \in Nat
        BY <1>t, <2>1
    <3> QED BY <1>t, <2>1, <3>1
  <2> QED BY <1>t, <2>1, <2>2, <2>3, <2>4, <2>5, <2>6 DEF NothingLater
<1>8. ASSUME NEW p \in Peers, DeletePeer(p) PROVE NothingLater'
  <2>1. UNCHANGED <<now, poll, serverSamples>>
      BY <1>8 DEF DeletePeer
  <2>2. \A q \in Peers : \A t \in Times : samples'[q][t] = 0 \/ samples'[q] = samples[q]
      BY <1>t, <1>8, DeleteEffect DEF NoSamples
  <2>3. \A q \in Peers : \A h \in Hours : hourly'[q][h] = 0 \/ hourly'[q] = hourly[q]
      BY <1>t, <1>8, DeleteEffect DEF NoHours
  <2>4. \A h \in Hours : orphaned'[h] = orphaned[h] + hourly[p][h]
      BY <1>t, <1>8, DeleteEffect
  <2> QED BY <1>t, <2>1, <2>2, <2>3, <2>4 DEF NothingLater
<1>9. ASSUME NEW p \in Peers, PruneSamples(p) PROVE NothingLater'
  <2>1. \A q \in Peers : \A t \in Times : samples[q][t] = 0 => samples'[q][t] = 0
    <3>1. \A t \in Times : samples[p][t] = 0 => samples'[p][t] = 0
      <4>1. samples[p] \in [Times -> Nat] /\ samples'[p] = Since(samples[p], now - RawKept)
          BY <1>t, <1>9 DEF PruneSamples, TypeOK
      <4> QED BY <4>1, SinceFacts
    <3>2. \A q \in Peers \ {p} : samples'[q] = samples[q]
        BY <1>t, <1>9 DEF PruneSamples, TypeOK
    <3> QED BY <3>1, <3>2
  <2> QED BY <1>t, <1>9, <2>1 DEF PruneSamples, NothingLater
<1>10. CASE UNCHANGED vars
    BY <1>t, <1>10 DEF vars, tables, NothingLater
<1> QED
    BY <1>1, <1>2, <1>3, <1>4, <1>5, <1>6, <1>7, <1>8, <1>9, <1>10 DEF Next

\* Pruning takes only raw samples that are older than any window.
LEMMA StepRaw == Books /\ [Next]_vars => RawIsKept'
<1> SUFFICES ASSUME Books, [Next]_vars PROVE RawIsKept'
    OBVIOUS
<1>t. TypeOK /\ RawIsKept /\ now \in Nat /\ RawKept \in Nat /\ Times \subseteq Nat
    BY TimesFinite, Units DEF Books, TypeOK
<1>1. CASE TimePasses
  <2>1. now' = now + 1 /\ UNCHANGED <<samples, counted>>
      BY <1>1 DEF TimePasses, tables, history
  <2>2. \A t \in Times : t >= now' - RawKept => t >= now - RawKept
      BY <1>t, <2>1
  <2> QED BY <1>t, <2>1, <2>2 DEF RawIsKept
<1>2. CASE \/ BeginPoll \/ StoreServerSample \/ Abort \/ PruneServerSamples
           \/ PruneHourly \/ UNCHANGED vars
  <2>1. UNCHANGED <<now, samples, counted>>
      BY <1>2 DEF BeginPoll, StoreServerSample, Abort, PruneServerSamples,
                  PruneHourly, vars, tables, history
  <2> QED BY <1>t, <2>1 DEF RawIsKept
<1>3. ASSUME NEW p \in Peers, SamplePeer(p) PROVE RawIsKept'
  <2>1. \A t \in Times : samples[p][t] = counted[p][t] => samples'[p][t] = counted'[p][t]
    <3>1. /\ samples[p] \in [Times -> Nat] /\ samples'[p] = Add(samples[p], poll.at, 1)
          /\ counted[p] \in [Times -> Nat] /\ counted'[p] = Add(counted[p], poll.at, 1)
        BY <1>t, <1>3, SampleEffect DEF TypeOK
    <3> QED BY <3>1 DEF Add
  <2>2. \A q \in Peers \ {p} : samples'[q] = samples[q] /\ counted'[q] = counted[q]
      BY <1>t, <1>3, SampleEffect
  <2>3. UNCHANGED now
      BY <1>3 DEF SamplePeer
  <2> QED BY <1>t, <2>1, <2>2, <2>3 DEF RawIsKept
<1>4. ASSUME NEW p \in Peers, DeletePeer(p) PROVE RawIsKept'
  <2>1. samples'[p] = counted'[p]
      BY <1>t, <1>4, DeleteEffect
  <2>2. \A q \in Peers \ {p} : samples'[q] = samples[q] /\ counted'[q] = counted[q]
      BY <1>t, <1>4, DeleteEffect
  <2>3. UNCHANGED now
      BY <1>4 DEF DeletePeer
  <2> QED BY <1>t, <2>1, <2>2, <2>3 DEF RawIsKept
<1>5. ASSUME NEW p \in Peers, PruneSamples(p) PROVE RawIsKept'
  <2>1. UNCHANGED <<now, counted>>
      BY <1>5 DEF PruneSamples, history
  <2>2. \A t \in Times : t >= now - RawKept => samples'[p][t] = samples[p][t]
    <3>1. samples[p] \in [Times -> Nat] /\ samples'[p] = Since(samples[p], now - RawKept)
        BY <1>t, <1>5 DEF PruneSamples, TypeOK
    <3>2. \A t \in Times : samples'[p][t] = IF t < now - RawKept THEN 0 ELSE samples[p][t]
        BY <3>1, SinceFacts
    <3>3. \A t \in Times : t >= now - RawKept => ~(t < now - RawKept)
        BY <1>t
    <3> QED BY <3>2, <3>3
  <2>3. \A q \in Peers \ {p} : samples'[q] = samples[q]
      BY <1>t, <1>5 DEF PruneSamples, TypeOK
  <2> QED BY <1>t, <2>1, <2>2, <2>3 DEF RawIsKept
<1> QED BY <1>1, <1>2, <1>3, <1>4, <1>5 DEF Next

\* A sample goes into the row of its hour, and pruning takes only hours that
\* are older than any window.
LEMMA StepHours == Books /\ [Next]_vars => HoursAreKept'
<1> SUFFICES ASSUME Books, [Next]_vars PROVE HoursAreKept'
    OBVIOUS
<1>t. TypeOK /\ HoursAreKept /\ now \in Nat /\ HourlyKept \in Nat /\ Hours \subseteq Nat
    BY TimesFinite, Units DEF Books, TypeOK
<1>1. CASE TimePasses
  <2>1. now' = now + 1 /\ UNCHANGED <<hourly, counted>>
      BY <1>1 DEF TimePasses, tables, history
  <2>2. \A h \in Hours : h >= now' - HourlyKept => h >= now - HourlyKept
      BY <1>t, <2>1
  <2> QED BY <1>t, <2>1, <2>2 DEF HoursAreKept
<1>2. CASE \/ BeginPoll \/ StoreServerSample \/ Abort \/ PruneServerSamples
           \/ (\E p \in Peers : PruneSamples(p)) \/ UNCHANGED vars
  <2>1. UNCHANGED <<now, hourly, counted>>
      BY <1>2 DEF BeginPoll, StoreServerSample, Abort, PruneServerSamples,
                  PruneSamples, vars, tables, history
  <2> QED BY <1>t, <2>1 DEF HoursAreKept
<1>3. ASSUME NEW p \in Peers, SamplePeer(p) PROVE HoursAreKept'
  <2>1. ASSUME NEW h \in Hours,
               hourly[p][h] = SumFunctionOnSet(counted[p], HourOf(h))
        PROVE  hourly'[p][h] = SumFunctionOnSet(counted'[p], HourOf(h))
    <3>1. /\ hourly[p] \in [Hours -> Nat] /\ Floor(poll.at, Hour) \in Hours
          /\ hourly'[p] = Add(hourly[p], Floor(poll.at, Hour), 1)
          /\ counted[p] \in [Times -> Nat] /\ poll.at \in Times
          /\ counted'[p] = Add(counted[p], poll.at, 1)
        BY <1>t, <1>3, SampleEffect DEF TypeOK
    <3>2. hourly'[p][h] = hourly[p][h] + (IF h = Floor(poll.at, Hour) THEN 1 ELSE 0)
        BY <3>1, AddFacts
    <3>3. SumFunctionOnSet(counted'[p], HourOf(h))
          = SumFunctionOnSet(counted[p], HourOf(h))
                + (IF h = Floor(poll.at, Hour) THEN 1 ELSE 0)
        BY <3>1, SampleInHour
    <3> QED BY <2>1, <3>2, <3>3
  <2>2. \A q \in Peers \ {p} : hourly'[q] = hourly[q] /\ counted'[q] = counted[q]
      BY <1>t, <1>3, SampleEffect
  <2>3. UNCHANGED now
      BY <1>3 DEF SamplePeer
  <2> QED BY <1>t, <2>1, <2>2, <2>3 DEF HoursAreKept
<1>4. ASSUME NEW p \in Peers, DeletePeer(p) PROVE HoursAreKept'
  <2>1. \A h \in Hours : hourly'[p][h] = SumFunctionOnSet(counted'[p], HourOf(h))
    <3> SUFFICES ASSUME NEW h \in Hours
                 PROVE  hourly'[p][h] = SumFunctionOnSet(counted'[p], HourOf(h))
        OBVIOUS
    <3>1. hourly'[p] = NoHours /\ counted'[p] = NoSamples
        BY <1>t, <1>4, DeleteEffect
    <3>2. NoHours[h] = 0 /\ \A t \in HourOf(h) : NoSamples[t] = 0
        BY DEF NoHours, NoSamples, HourOf
    <3>3. IsFiniteSet(HourOf(h))
        BY TimesFinite, FS_Subset DEF HourOf
    <3>4. SumFunctionOnSet(NoSamples, HourOf(h)) = 0
        BY <3>2, <3>3, SumZeros
    <3> QED BY <3>1, <3>2, <3>4
  <2>2. \A q \in Peers \ {p} : hourly'[q] = hourly[q] /\ counted'[q] = counted[q]
      BY <1>t, <1>4, DeleteEffect
  <2>3. UNCHANGED now
      BY <1>4 DEF DeletePeer
  <2> QED BY <1>t, <2>1, <2>2, <2>3 DEF HoursAreKept
<1>5. CASE PruneHourly
  <2>1. UNCHANGED <<now, counted>>
      BY <1>5 DEF PruneHourly, history
  <2>2. ASSUME NEW q \in Peers, NEW h \in Hours, h >= now - HourlyKept
        PROVE  hourly'[q][h] = hourly[q][h]
    <3>1. hourly[q] \in [Hours -> Nat] /\ hourly'[q] = Since(hourly[q], now - HourlyKept)
        BY <1>t, <1>5 DEF PruneHourly, TypeOK
    <3>2. hourly'[q][h] = IF h < now - HourlyKept THEN 0 ELSE hourly[q][h]
        BY <3>1, SinceFacts
    <3>3. ~(h < now - HourlyKept)
        BY <1>t, <2>2
    <3> QED BY <3>2, <3>3
  <2> QED BY <1>t, <2>1, <2>2 DEF HoursAreKept
<1> QED BY <1>1, <1>2, <1>3, <1>4, <1>5 DEF Next

\* A sample of p counts once more in what the server has of its hour.
LEMMA SampledServerHour ==
    ASSUME TypeOK, NEW p \in Peers, SamplePeer(p), NEW h \in Hours
    PROVE  serverHours'[h]
           = serverHours[h] + (IF h = Floor(poll.at, Hour) THEN 1 ELSE 0)
<1> DEFINE f == [q \in Peers |-> hourly[q][h]]
           g == [q \in Peers |-> hourly'[q][h]]
           more == IF h = Floor(poll.at, Hour) THEN 1 ELSE 0
<1>1. TypeOK'
    BY StepTypes DEF Next
<1>2. /\ serverHours[h] = orphaned[h] + SumFunctionOnSet(f, Peers)
      /\ SumFunctionOnSet(f, Peers) \in Nat
    BY ServerHour
<1>3. serverHours'[h] = orphaned'[h] + SumFunctionOnSet(g, Peers)
  <2>1. DOMAIN g = Peers /\ serverHours'[h] = orphaned'[h] + SumFunction(g)
      BY DEF serverHours
  <2> HIDE DEF g
  <2> QED BY <2>1 DEF SumFunction
<1>4. \A q \in Peers : f[q] \in Int /\ g[q] \in Int
    BY <1>1 DEF TypeOK
<1>5. \A q \in Peers \ {p} : g[q] = f[q]
    BY SampleEffect
<1>6. g[p] - f[p] = more
  <2>1. /\ hourly[p] \in [Hours -> Nat] /\ Floor(poll.at, Hour) \in Hours
        /\ hourly'[p] = Add(hourly[p], Floor(poll.at, Hour), 1)
      BY SampleEffect DEF TypeOK
  <2>2. hourly'[p][h] = hourly[p][h] + more /\ hourly[p][h] \in Nat
      BY <2>1, AddFacts
  <2> QED BY <2>2
<1> HIDE DEF f, g
<1>7. SumFunctionOnSet(g, Peers) = SumFunctionOnSet(f, Peers) + (g[p] - f[p])
    BY <1>4, <1>5, PeersAssumption, SumUpdate
<1>8. orphaned'[h] = orphaned[h] /\ orphaned[h] \in Nat
    BY DEF SamplePeer, TypeOK
<1> QED BY <1>2, <1>3, <1>6, <1>7, <1>8

\* What the server has of an hour stays when a peer goes.
LEMMA DeletedServerHour ==
    ASSUME TypeOK, NEW p \in Peers, DeletePeer(p), NEW h \in Hours
    PROVE  serverHours'[h] = serverHours[h]
<1> DEFINE f == [q \in Peers |-> hourly[q][h]]
           g == [q \in Peers |-> hourly'[q][h]]
<1>1. TypeOK'
    BY StepTypes DEF Next
<1>2. /\ serverHours[h] = orphaned[h] + SumFunctionOnSet(f, Peers)
      /\ SumFunctionOnSet(f, Peers) \in Nat
    BY ServerHour
<1>3. serverHours'[h] = orphaned'[h] + SumFunctionOnSet(g, Peers)
  <2>1. DOMAIN g = Peers /\ serverHours'[h] = orphaned'[h] + SumFunction(g)
      BY DEF serverHours
  <2> HIDE DEF g
  <2> QED BY <2>1 DEF SumFunction
<1>4. \A q \in Peers : f[q] \in Int /\ g[q] \in Int
    BY <1>1 DEF TypeOK
<1>5. \A q \in Peers \ {p} : g[q] = f[q]
    BY DeleteEffect
<1>6. g[p] = 0 /\ f[p] \in Nat /\ f[p] = hourly[p][h]
  <2>1. hourly'[p] = NoHours
      BY DeleteEffect
  <2> QED BY <2>1 DEF NoHours, TypeOK
<1> HIDE DEF f, g
<1>7. SumFunctionOnSet(g, Peers) = SumFunctionOnSet(f, Peers) + (g[p] - f[p])
    BY <1>4, <1>5, PeersAssumption, SumUpdate
<1>8. orphaned'[h] = orphaned[h] + hourly[p][h] /\ orphaned[h] \in Nat
    BY DeleteEffect DEF TypeOK
<1> QED BY <1>2, <1>3, <1>6, <1>7, <1>8

\* Nothing but a sample, and the pruning of hours older than any window,
\* changes what the server has of an hour.
LEMMA StepServerHours == Books /\ [Next]_vars => ServerHoursAreKept'
<1> SUFFICES ASSUME Books, [Next]_vars PROVE ServerHoursAreKept'
    OBVIOUS
<1>t. /\ TypeOK /\ ServerHoursAreKept
      /\ now \in Nat /\ HourlyKept \in Nat /\ Hours \subseteq Nat
    BY TimesFinite, Units DEF Books, TypeOK
<1>1. CASE TimePasses
  <2>1. now' = now + 1 /\ UNCHANGED <<hourly, orphaned, ever>>
      BY <1>1 DEF TimePasses, tables, history
  <2>2. \A h \in Hours : h >= now' - HourlyKept => h >= now - HourlyKept
      BY <1>t, <2>1
  <2>3. serverHours' = serverHours
      BY <2>1 DEF serverHours
  <2> QED BY <1>t, <2>1, <2>2, <2>3 DEF ServerHoursAreKept
<1>2. CASE \/ BeginPoll \/ StoreServerSample \/ Abort \/ PruneServerSamples
           \/ (\E p \in Peers : PruneSamples(p)) \/ UNCHANGED vars
  <2>1. UNCHANGED <<now, hourly, orphaned, ever>>
      BY <1>2 DEF BeginPoll, StoreServerSample, Abort, PruneServerSamples,
                  PruneSamples, vars, tables, history
  <2>2. serverHours' = serverHours
      BY <2>1 DEF serverHours
  <2> QED BY <1>t, <2>1, <2>2 DEF ServerHoursAreKept
<1>3. ASSUME NEW p \in Peers, SamplePeer(p) PROVE ServerHoursAreKept'
  <2>1. ASSUME NEW h \in Hours,
               serverHours[h] = SumFunctionOnSet(ever, HourOf(h))
        PROVE  serverHours'[h] = SumFunctionOnSet(ever', HourOf(h))
    <3>1. ever \in [Times -> Nat] /\ poll.at \in Times /\ ever' = Add(ever, poll.at, 1)
        BY <1>t, <1>3, SampleEffect DEF TypeOK
    <3>2. SumFunctionOnSet(ever', HourOf(h))
          = SumFunctionOnSet(ever, HourOf(h))
                + (IF h = Floor(poll.at, Hour) THEN 1 ELSE 0)
        BY <3>1, SampleInHour
    <3>3. serverHours'[h]
          = serverHours[h] + (IF h = Floor(poll.at, Hour) THEN 1 ELSE 0)
        BY <1>t, <1>3, SampledServerHour
    <3> QED BY <2>1, <3>2, <3>3
  <2>2. UNCHANGED now
      BY <1>3 DEF SamplePeer
  <2> QED BY <1>t, <2>1, <2>2 DEF ServerHoursAreKept
<1>4. ASSUME NEW p \in Peers, DeletePeer(p) PROVE ServerHoursAreKept'
  <2>1. \A h \in Hours : serverHours'[h] = serverHours[h]
      BY <1>t, <1>4, DeletedServerHour
  <2>2. UNCHANGED <<now, ever>>
      BY <1>4 DEF DeletePeer
  <2> QED BY <1>t, <2>1, <2>2 DEF ServerHoursAreKept
<1>5. CASE PruneHourly
  <2>1. UNCHANGED <<now, ever>>
      BY <1>5 DEF PruneHourly, history
  <2>2. ASSUME NEW h \in Hours, h >= now - HourlyKept
        PROVE  serverHours'[h] = serverHours[h]
    <3>1. ~(h < now - HourlyKept)
        BY <1>t, <2>2
    <3>2. \A q \in Peers : hourly'[q][h] = hourly[q][h]
      <4> SUFFICES ASSUME NEW q \in Peers PROVE hourly'[q][h] = hourly[q][h]
          OBVIOUS
      <4>1. hourly[q] \in [Hours -> Nat] /\ hourly'[q] = Since(hourly[q], now - HourlyKept)
          BY <1>t, <1>5 DEF PruneHourly, TypeOK
      <4> QED BY <3>1, <4>1, SinceFacts
    <3>3. orphaned'[h] = orphaned[h]
      <4>1. orphaned \in [Hours -> Nat] /\ orphaned' = Since(orphaned, now - HourlyKept)
          BY <1>t, <1>5 DEF PruneHourly, TypeOK
      <4> QED BY <3>1, <4>1, SinceFacts
    <3>4. [q \in Peers |-> hourly'[q][h]] = [q \in Peers |-> hourly[q][h]]
        BY <3>2
    <3> QED BY <3>3, <3>4 DEF serverHours
  <2> QED BY <1>t, <2>1, <2>2 DEF ServerHoursAreKept
<1> QED BY <1>1, <1>2, <1>3, <1>4, <1>5 DEF Next

\* A sample is first in the peers' tables and then in the server's, or never.
LEMMA StepLag == Books /\ [Next]_vars => ServerSamplesLag'
<1> SUFFICES ASSUME Books, [Next]_vars PROVE ServerSamplesLag'
    OBVIOUS
<1>t. /\ TypeOK /\ ServerSamplesLag
      /\ now \in Nat /\ RawKept \in Nat /\ Times \subseteq Nat
      /\ serverSamples \in [Times -> Nat] /\ ever \in [Times -> Nat]
      /\ aborts \in Nat
    BY TimesFinite, Units, BoundsAssumption DEF Books, TypeOK
<1>1. CASE TimePasses
  <2>1. now' = now + 1 /\ UNCHANGED <<serverSamples, ever, poll, aborts>>
      BY <1>1 DEF TimePasses, tables, history
  <2>2. \A t \in Times : t >= now' - RawKept => t >= now - RawKept
      BY <1>t, <2>1
  <2> QED BY <1>t, <2>1, <2>2 DEF ServerSamplesLag
<1>2. CASE BeginPoll
  <2>1. /\ poll = None /\ poll'.at = now /\ poll'.sum = 0 /\ ever[now] = 0
        /\ UNCHANGED <<now, serverSamples, ever, aborts>>
      BY <1>2 DEF BeginPoll, tables, history
  <2>2. serverSamples[now] = 0
    <3>1. now \in Times
        BY <1>t DEF TypeOK
    <3>2. serverSamples[now] \in Nat /\ serverSamples[now] <= 0
        BY <1>t, <2>1, <3>1 DEF ServerSamplesLag
    <3> QED BY <3>2
  <2> QED BY <1>t, <2>1, <2>2 DEF ServerSamplesLag
<1>3. CASE StoreServerSample
  <2>1. /\ poll # None /\ poll' = None /\ poll.at \in Times /\ poll.sum \in Nat
        /\ serverSamples' = Add(serverSamples, poll.at, poll.sum)
        /\ UNCHANGED <<now, ever, aborts>>
      BY <1>t, <1>3 DEF StoreServerSample, TypeOK, Polling, history
  <2>2. serverSamples'[poll.at] = ever[poll.at]
    <3>1. serverSamples[poll.at] = 0 /\ ever[poll.at] = poll.sum
        BY <1>t, <2>1 DEF ServerSamplesLag
    <3> QED BY <1>t, <2>1, <3>1 DEF Add
  <2>3. \A t \in Times \ {poll.at} : serverSamples'[t] = serverSamples[t]
      BY <1>t, <2>1 DEF Add
  <2> QED BY <1>t, <2>1, <2>2, <2>3 DEF ServerSamplesLag
<1>4. CASE Abort
  <2>1. poll' = None /\ aborts' # 0 /\ UNCHANGED <<serverSamples, ever>>
      BY <1>t, <1>4 DEF Abort, tables, history
  <2> QED BY <1>t, <2>1 DEF ServerSamplesLag
<1>5. CASE PruneServerSamples
  <2>1. /\ serverSamples' = Since(serverSamples, now - RawKept)
        /\ UNCHANGED <<now, ever, poll, aborts>>
      BY <1>5 DEF PruneServerSamples, history
  <2>2. \A t \in Times :
            serverSamples'[t] = IF t < now - RawKept THEN 0 ELSE serverSamples[t]
    <3>1. serverSamples \in [Times -> Nat]
        BY <1>t
    <3> QED BY <2>1, <3>1, SinceFacts
  <2>3. \A t \in Times : serverSamples'[t] <= ever[t]
    <3> SUFFICES ASSUME NEW t \in Times PROVE serverSamples'[t] <= ever[t]
        OBVIOUS
    <3>1. serverSamples[t] <= ever[t] /\ ever[t] >= 0
        BY <1>t DEF ServerSamplesLag
    <3> QED BY <2>2, <3>1
  <2>4. \A t \in Times : t >= now - RawKept => serverSamples'[t] = serverSamples[t]
    <3>1. \A t \in Times : t >= now - RawKept => ~(t < now - RawKept)
        BY <1>t
    <3> QED BY <2>2, <3>1
  <2>5. poll # None => serverSamples'[poll.at] = 0
    <3>1. poll # None => poll.at \in Times
        BY <1>t DEF TypeOK, Polling
    <3> QED BY <1>t, <2>2, <3>1 DEF ServerSamplesLag
  <2> QED BY <1>t, <2>1, <2>3, <2>4, <2>5 DEF ServerSamplesLag
<1>6. ASSUME NEW p \in Peers, SamplePeer(p) PROVE ServerSamplesLag'
  <2>1. /\ poll # None /\ poll'.at = poll.at /\ poll'.sum = poll.sum + 1
        /\ poll.at \in Times /\ poll.sum \in Nat
        /\ ever' = Add(ever, poll.at, 1)
        /\ UNCHANGED <<now, serverSamples, aborts>>
      BY <1>t, <1>6 DEF SamplePeer, TypeOK, Polling
  <2>2. \A t \in Times : ever'[t] = ever[t] + (IF t = poll.at THEN 1 ELSE 0)
    <3>1. ever \in [Times -> Nat] /\ poll.at \in Times /\ ever' = Add(ever, poll.at, 1)
        BY <1>t, <2>1
    <3> QED BY <3>1, AddFacts
  <2>3. serverSamples[poll.at] = 0 /\ ever'[poll.at] = poll.sum + 1
      BY <1>t, <2>1, <2>2 DEF ServerSamplesLag
  <2>4. \A t \in Times \ {poll.at} : ever'[t] = ever[t]
      BY <1>t, <2>2
  <2>5. \A t \in Times : serverSamples[t] <= ever'[t]
      BY <1>t, <2>1, <2>3, <2>4 DEF ServerSamplesLag
  <2>6. aborts' = 0 =>
            \A t \in Times : t >= now' - RawKept /\ t # poll.at
                                => serverSamples'[t] = ever'[t]
      BY <1>t, <2>1, <2>4 DEF ServerSamplesLag
  <2>7. serverSamples'[poll'.at] = 0 /\ ever'[poll'.at] = poll'.sum
      BY <2>1, <2>3
  <2>8. poll' # None
    <3>1. poll' \in Polling
        BY <1>t, <1>6, SampledPoll
    <3> QED BY <1>t, <3>1, NoneAssumption DEF Polling
  <2> QED BY <1>t, <2>1, <2>5, <2>6, <2>7, <2>8 DEF ServerSamplesLag
<1>7. CASE PruneHourly \/ (\E p \in Peers : DeletePeer(p) \/ PruneSamples(p))
           \/ UNCHANGED vars
  <2>1. UNCHANGED <<now, serverSamples, ever, poll, aborts>>
      BY <1>7 DEF PruneHourly, DeletePeer, PruneSamples, vars, tables, history
  <2> QED BY <1>t, <2>1 DEF ServerSamplesLag
<1> QED BY <1>1, <1>2, <1>3, <1>4, <1>5, <1>6, <1>7 DEF Next

\* The books are right after any steps.
THEOREM BooksHold == Spec => []Books
<1>1. Books /\ [Next]_vars => Books'
    BY StepTypes, StepLater, StepRaw, StepHours, StepServerHours, StepLag DEF Books
<1> QED BY InitBooks, <1>1, PTL DEF Spec

-----------------------------------------------------------------------------
(* Totals *)

\* The sum of the samples since a moment, as the queries and the history name it.
LEMMA SumSinceIs ==
    ASSUME NEW D, NEW f, DOMAIN f = D, NEW since
    PROVE  SumSince(f, since) = SumFunctionOnSet(f, {t \in D : t >= since})
BY DEF SumSince

LEMMA SameSince ==
    ASSUME NEW f \in [Times -> Nat], NEW g \in [Times -> Nat], NEW since,
           \A t \in Times : t >= since => f[t] = g[t]
    PROVE  SumSince(f, since) = HistorySince(g, since)
<1> DEFINE S == {t \in Times : t >= since}
<1>1. IsFiniteSet(S) /\ \A t \in S : f[t] = g[t]
    BY TimesFinite, FS_Subset
<1> HIDE DEF S
<1>2. SumFunctionOnSet(f, S) = SumFunctionOnSet(g, S)
    BY <1>1, SumSame
<1>3. DOMAIN f = Times
    OBVIOUS
<1> QED BY <1>2, <1>3, SumSinceIs DEF HistorySince, S

LEMMA LessSince ==
    ASSUME NEW f \in [Times -> Nat], NEW g \in [Times -> Nat], NEW since,
           \A t \in Times : f[t] <= g[t]
    PROVE  SumSince(f, since) <= HistorySince(g, since)
<1> DEFINE S == {t \in Times : t >= since}
<1>1. IsFiniteSet(S) /\ \A t \in S : f[t] \in Nat /\ g[t] \in Nat /\ f[t] <= g[t]
    BY TimesFinite, FS_Subset
<1> HIDE DEF S
<1>2. SumFunctionOnSet(f, S) <= SumFunctionOnSet(g, S)
  <2>1. S \in SUBSET S
      OBVIOUS
  <2> QED BY <1>1, <2>1, SumMonotone
<1>3. DOMAIN f = Times
    OBVIOUS
<1> QED BY <1>2, <1>3, SumSinceIs DEF HistorySince, S

\* What is younger than a window is younger than what pruning takes.
LEMMA WindowsAreKept ==
    ASSUME TypeOK
    PROVE  /\ now \in Nat
           /\ now - HalfHour \in Int /\ now - Day \in Int /\ now - Month \in Int
           /\ \A t \in Times : /\ t >= now - HalfHour => t >= now - Day
                               /\ t >= now - Day => t >= now - RawKept
           /\ \A h \in Hours : h >= now - Month => h >= now - HourlyKept
<1>1. now \in Nat /\ Times \subseteq Nat /\ Hours \subseteq Nat
    BY TimesFinite DEF TypeOK
<1> QED BY <1>1, Units

LEMMA ServerHoursType == TypeOK => serverHours \in [Hours -> Nat]
<1> SUFFICES ASSUME TypeOK PROVE serverHours \in [Hours -> Nat]
    OBVIOUS
<1>1. ASSUME NEW h \in Hours PROVE serverHours[h] \in Nat
  <2>1. orphaned[h] \in Nat
      BY DEF TypeOK
  <2>2. /\ serverHours[h]
               = orphaned[h] + SumFunctionOnSet([p \in Peers |-> hourly[p][h]], Peers)
        /\ SumFunctionOnSet([p \in Peers |-> hourly[p][h]], Peers) \in Nat
      BY ServerHour
  <2> HIDE DEF serverHours
  <2> QED BY <2>1, <2>2
<1>2. serverHours = [h \in Hours |-> serverHours[h]]
    BY DEF serverHours
<1> HIDE DEF serverHours
<1> QED BY <1>1, <1>2

\* Where the books are right, so are the totals.
LEMMA BooksTotal == Books => TotalsAreHistory
<1> SUFFICES ASSUME Books PROVE TotalsAreHistory
    OBVIOUS
<1>t. /\ TypeOK /\ RawIsKept /\ HoursAreKept /\ ServerHoursAreKept /\ ServerSamplesLag
      /\ rows \subseteq Peers
      /\ serverSamples \in [Times -> Nat] /\ ever \in [Times -> Nat]
    BY DEF Books, TypeOK
<1>1. ASSUME NEW p \in rows
      PROVE  /\ peersTrafficTotals(p).m30 = HistorySince(counted[p], now - HalfHour)
             /\ peersTrafficTotals(p).h24 = HistorySince(counted[p], now - Day)
             /\ peersTrafficTotals(p).d30 = HistoryOfHours(counted[p])
  <2>1. /\ samples[p] \in [Times -> Nat] /\ hourly[p] \in [Hours -> Nat]
        /\ counted[p] \in [Times -> Nat] /\ p \in Peers
      BY <1>t DEF TypeOK
  <2>2. \A t \in Times : t >= now - HalfHour => samples[p][t] = counted[p][t]
      BY <1>t, <2>1, WindowsAreKept DEF RawIsKept
  <2>3. \A t \in Times : t >= now - Day => samples[p][t] = counted[p][t]
      BY <1>t, <2>1, WindowsAreKept DEF RawIsKept
  <2>4. \A h \in Hours :
            h >= now - Month => hourly[p][h] = SumFunctionOnSet(counted[p], HourOf(h))
      BY <1>t, <2>1, WindowsAreKept DEF HoursAreKept
  <2>5. SumSince(samples[p], now - HalfHour) = HistorySince(counted[p], now - HalfHour)
      BY <2>1, <2>2, SameSince
  <2>6. SumSince(samples[p], now - Day) = HistorySince(counted[p], now - Day)
      BY <2>1, <2>3, SameSince
  <2>7. SumSince(hourly[p], now - Month) = HistoryOfHours(counted[p])
    <3>1. now - Month \in Int
        BY <1>t, WindowsAreKept
    <3> QED BY <2>1, <2>4, <3>1, HoursAddUp DEF HistoryOfHours
  <2> QED BY <2>5, <2>6, <2>7 DEF peersTrafficTotals
<1>2. serversTraffic30d = HistoryOfHours(ever)
  <2>1. now - Month \in Int /\ serverHours \in [Hours -> Nat]
      BY <1>t, WindowsAreKept, ServerHoursType
  <2>2. \A h \in Hours :
            h >= now - Month => serverHours[h] = SumFunctionOnSet(ever, HourOf(h))
      BY <1>t, WindowsAreKept DEF ServerHoursAreKept
  <2> QED BY <1>t, <2>1, <2>2, HoursAddUp DEF HistoryOfHours, serversTraffic30d
<1>3. serversTraffic24h <= HistorySince(ever, now - Day)
    BY <1>t, LessSince DEF ServerSamplesLag, serversTraffic24h
<1>4. ASSUME aborts = 0, poll = None
      PROVE  serversTraffic24h = HistorySince(ever, now - Day)
  <2>1. \A t \in Times : t >= now - Day => serverSamples[t] = ever[t]
      BY <1>t, <1>4, WindowsAreKept DEF ServerSamplesLag
  <2> QED BY <1>t, <2>1, SameSince DEF serversTraffic24h
<1> QED BY <1>1, <1>2, <1>3, <1>4 DEF TotalsAreHistory

\* The totals of the pages are what was counted, whatever was pruned or deleted
\* since (peersTrafficTotals, serversTraffic24h, serversTraffic30d).
THEOREM TotalsAreHistoryHolds == Spec => []TotalsAreHistory
BY BooksHold, BooksTotal, PTL

-----------------------------------------------------------------------------
(* Charts *)

\* The points since a moment.
After(D, since) == {t \in D : t >= since}

LEMMA FilterFacts ==
    ASSUME NEW D, IsFiniteSet(D), NEW f \in [D -> Nat], NEW since
    PROVE  /\ filterPointsSince(f, since) \in [After(D, since) -> Nat]
           /\ \A t \in After(D, since) : filterPointsSince(f, since)[t] = f[t]
           /\ IsFiniteSet(After(D, since))
           /\ SumFunctionOnSet(filterPointsSince(f, since), After(D, since))
                  = SumSince(f, since)
<1> DEFINE S == After(D, since)
           g == filterPointsSince(f, since)
<1>1. g \in [S -> Nat] /\ \A t \in S : g[t] = f[t]
    BY DEF filterPointsSince, After
<1>2. IsFiniteSet(S)
    BY FS_Subset DEF After
<1>3. DOMAIN f = D
    OBVIOUS
<1>4. SumFunctionOnSet(g, S) = SumFunctionOnSet(f, S)
  <2> HIDE DEF g, S
  <2> QED BY <1>1, <1>2, SumSame
<1>5. SumSince(f, since) = SumFunctionOnSet(f, S)
    BY <1>3, SumSinceIs DEF After
<1> QED BY <1>1, <1>2, <1>4, <1>5

\* A chart of minutes adds up to its points, if it starts no later than they do
\* and those after its end are zeros.
LEMMA BucketSum ==
    ASSUME NEW D \in SUBSET Int, IsFiniteSet(D), NEW f \in [D -> Nat],
           NEW since \in Int, NEW until \in Int,
           \A t \in D : Floor(t, Minute) >= Floor(since, Minute),
           \A t \in D : t > until => f[t] = 0
    PROVE  SumFunction(bucketMinutes(f, since, until)) = SumFunctionOnSet(f, D)
<1> DEFINE M == {m \in Floor(since, Minute)..until : Floor(m, Minute) = m}
           g == bucketMinutes(f, since, until)
           S == {t \in D : Floor(t, Minute) <= until}
           key == [t \in S |-> Floor(t, Minute)]
<1>u. Minute \in Nat \ {0}
    BY Units
<1>1. \A t \in D : /\ Floor(t, Minute) \in Int /\ Floor(t, Minute) <= t
                   /\ Floor(Floor(t, Minute), Minute) = Floor(t, Minute)
    BY <1>u, FloorFacts
<1>2. IsFiniteSet(M) /\ IsFiniteSet(S)
  <2>1. Floor(since, Minute) \in Int
      BY <1>u, FloorFacts
  <2>2. IsFiniteSet(Floor(since, Minute)..until)
      BY <2>1, FS_Interval
  <2> QED BY <2>2, FS_Subset
<1>3. \A t \in S : key[t] \in M /\ f[t] \in Int
  <2> SUFFICES ASSUME NEW t \in S PROVE key[t] \in M /\ f[t] \in Int
      OBVIOUS
  <2>1. /\ Floor(t, Minute) \in Int /\ Floor(since, Minute) \in Int
        /\ Floor(t, Minute) <= until /\ Floor(t, Minute) >= Floor(since, Minute)
        /\ Floor(Floor(t, Minute), Minute) = Floor(t, Minute)
      BY <1>1, <1>u, FloorFacts
  <2>2. key[t] = Floor(t, Minute) /\ f[t] \in Nat
      OBVIOUS
  <2> QED BY <2>1, <2>2
<1>4. \A m \in M : g[m] = SumFunctionOnSet(f, GroupOf(S, key, m))
  <2> SUFFICES ASSUME NEW m \in M
               PROVE  g[m] = SumFunctionOnSet(f, GroupOf(S, key, m))
      OBVIOUS
  <2>1. m <= until /\ g[m] = SumFunctionOnSet(f, {t \in DOMAIN f : Floor(t, Minute) = m})
    <3>1. Floor(since, Minute) \in Int
        BY <1>u, FloorFacts
    <3> QED BY <3>1 DEF bucketMinutes
  <2>2. {t \in DOMAIN f : Floor(t, Minute) = m} = GroupOf(S, key, m)
      BY <2>1 DEF GroupOf
  <2> HIDE DEF g
  <2> QED BY <2>1, <2>2
<1>5. DOMAIN g = M
    BY DEF bucketMinutes
<1>6. SumFunctionOnSet(f, D) = SumFunctionOnSet(f, S)
  <2>1. \A t \in D \ S : f[t] = 0
    <3> SUFFICES ASSUME NEW t \in D \ S PROVE t > until
        OBVIOUS
    <3>1. t \in Int /\ Floor(t, Minute) \in Int /\ ~(Floor(t, Minute) <= until)
          /\ Floor(t, Minute) <= t
        BY <1>1
    <3> QED BY <3>1
  <2>2. S \in SUBSET D /\ \A t \in D : f[t] \in Int
      OBVIOUS
  <2> HIDE DEF S
  <2> QED BY <2>1, <2>2, SumLeaveZeros
<1> HIDE DEF M, g, S, key
<1>7. SumFunctionOnSet(g, M) = SumFunctionOnSet(f, S)
    BY <1>2, <1>3, <1>4, SumGroups
<1> QED BY <1>5, <1>6, <1>7 DEF SumFunction, g

\* A chart of hours adds up to its rows.
LEMMA FillSum ==
    ASSUME NEW D \in SUBSET Hours, NEW f \in [D -> Nat],
           NEW since \in Int, NEW until \in Int,
           \A h \in D : h >= since,
           \A h \in D : h > until => f[h] = 0
    PROVE  SumFunction(fillHours(f, since, until)) = SumFunctionOnSet(f, D)
<1> DEFINE H == {h \in Floor(since, Hour)..until : Floor(h, Hour) = h}
           g == fillHours(f, since, until)
           R == H \cap D
<1>1. /\ Hour \in Nat \ {0} /\ Floor(since, Hour) \in Int /\ Floor(since, Hour) <= since
      /\ D \subseteq Int /\ \A h \in D : Floor(h, Hour) = h
    BY Units, TimesFinite, FloorFacts
<1>2. IsFiniteSet(H) /\ IsFiniteSet(D)
  <2>1. IsFiniteSet(Floor(since, Hour)..until)
      BY <1>1, FS_Interval
  <2>2. IsFiniteSet(Hours)
      BY TimesFinite
  <2> QED BY <2>1, <2>2, FS_Subset
<1>3. DOMAIN g = H /\ \A h \in H : g[h] = IF h \in D THEN f[h] ELSE 0
    BY DEF fillHours
<1>4. \A h \in D \ R : f[h] = 0
  <2> SUFFICES ASSUME NEW h \in D, h \notin H PROVE h > until
      OBVIOUS
  <2>1. h \in Int /\ h >= since /\ Floor(h, Hour) = h
      BY <1>1
  <2> QED BY <1>1, <2>1
<1>5. /\ \A h \in H : g[h] \in Int
      /\ \A h \in H \ R : g[h] = 0
      /\ \A h \in R : g[h] = f[h]
      /\ \A h \in D : f[h] \in Int
      /\ R \in SUBSET H /\ R \in SUBSET D
    BY <1>3
<1> HIDE DEF H, g, R
<1>6. SumFunctionOnSet(g, H) = SumFunctionOnSet(g, R)
    BY <1>2, <1>5, SumLeaveZeros
<1>7. SumFunctionOnSet(f, D) = SumFunctionOnSet(f, R)
    BY <1>2, <1>4, <1>5, SumLeaveZeros
<1>8. SumFunctionOnSet(g, R) = SumFunctionOnSet(f, R)
  <2>1. IsFiniteSet(R)
      BY <1>2, <1>5, FS_Subset
  <2> QED BY <1>5, <2>1, SumSame
<1> QED BY <1>3, <1>6, <1>7, <1>8 DEF SumFunction, g

\* The database groups by minute first: the same sum, and no later points.
MinutesOf(D) == {Floor(t, Minute) : t \in D}
InMinute(D, m) == {t \in D : Floor(t, Minute) = m}
Grouped(f) == [m \in MinutesOf(DOMAIN f) |-> SumFunctionOnSet(f, InMinute(DOMAIN f, m))]

LEMMA GroupedSum ==
    ASSUME NEW D \in SUBSET Times, NEW f \in [D -> Nat]
    PROVE  /\ MinutesOf(D) \in SUBSET Times /\ IsFiniteSet(MinutesOf(D))
           /\ Grouped(f) \in [MinutesOf(D) -> Nat]
           /\ \A m \in MinutesOf(D) : Grouped(f)[m] = SumFunctionOnSet(f, InMinute(D, m))
           /\ SumFunctionOnSet(Grouped(f), MinutesOf(D)) = SumFunctionOnSet(f, D)
<1> DEFINE M == MinutesOf(D)
           g == Grouped(f)
           key == [t \in D |-> Floor(t, Minute)]
<1>1. M \subseteq Times
  <2> SUFFICES ASSUME NEW t \in D PROVE Floor(t, Minute) \in Times
      BY DEF MinutesOf
  <2>1. t \in Nat /\ t <= MaxTime /\ MaxTime \in Nat
      BY BoundsAssumption DEF Times
  <2>2. Minute \in Nat \ {0}
      BY Units
  <2>3. Floor(t, Minute) \in Int /\ Floor(t, Minute) <= t /\ Floor(t, Minute) >= 0
      BY <2>1, <2>2, FloorFacts
  <2> QED BY <2>1, <2>3 DEF Times
<1>2. IsFiniteSet(M) /\ IsFiniteSet(D)
    BY <1>1, TimesFinite, FS_Subset
<1>3. g = [m \in M |-> SumFunctionOnSet(f, InMinute(D, m))]
    BY DEF Grouped
<1>4. \A m \in M : g[m] = SumFunctionOnSet(f, InMinute(D, m))
    BY <1>3
<1>5. \A m \in M : g[m] = SumFunctionOnSet(f, GroupOf(D, key, m))
  <2> SUFFICES ASSUME NEW m \in M
               PROVE  g[m] = SumFunctionOnSet(f, GroupOf(D, key, m))
      OBVIOUS
  <2>1. GroupOf(D, key, m) = InMinute(D, m)
      BY DEF GroupOf, InMinute
  <2> QED BY <1>4, <2>1
<1>6. \A t \in D : key[t] \in M /\ f[t] \in Int
    BY DEF MinutesOf
<1>7. \A m \in M : g[m] \in Nat
  <2> SUFFICES ASSUME NEW m \in M PROVE g[m] \in Nat
      OBVIOUS
  <2> DEFINE T == InMinute(D, m)
  <2>1. IsFiniteSet(T) /\ \A t \in T : f[t] \in Nat
      BY <1>2, FS_Subset DEF InMinute
  <2>2. g[m] = SumFunctionOnSet(f, T)
      BY <1>4
  <2> HIDE DEF T, g
  <2> QED BY <2>1, <2>2, SumNat
<1>8. g \in [M -> Nat]
    BY <1>3, <1>7
<1>9. SumFunctionOnSet(g, M) = SumFunctionOnSet(f, D)
  <2> HIDE DEF M, g, key
  <2> QED BY <1>2, <1>5, <1>6, SumGroups
<1> QED BY <1>1, <1>2, <1>4, <1>8, <1>9

\* The three charts of a peer.
LEMMA PeerCharts ==
    ASSUME TypeOK, NothingLater, NEW p \in Peers
    PROVE  /\ SumFunction(peerTrafficWindows(p).m30) = peersTrafficTotals(p).m30
           /\ SumFunction(peerTrafficWindows(p).h24) = peersTrafficTotals(p).h24
           /\ SumFunction(peerTrafficWindows(p).d30) = peersTrafficTotals(p).d30
<1> DEFINE D24 == After(Times, now - Day)
           D30 == After(Hours, now - Month)
           raw == filterPointsSince(samples[p], now - Day)
           half == filterPointsSince(raw, now - HalfHour)
           rowsOf == filterPointsSince(hourly[p], now - Month)
<1>t. /\ samples[p] \in [Times -> Nat] /\ hourly[p] \in [Hours -> Nat]
      /\ IsFiniteSet(Times) /\ IsFiniteSet(Hours) /\ Times \subseteq Int
      /\ now \in Int /\ now - Day \in Int /\ now - Month \in Int
    BY TimesFinite, WindowsAreKept DEF TypeOK
<1>1. /\ raw \in [D24 -> Nat] /\ IsFiniteSet(D24)
      /\ \A t \in D24 : raw[t] = samples[p][t]
      /\ SumFunctionOnSet(raw, D24) = SumSince(samples[p], now - Day)
  <2>1. samples[p] \in [Times -> Nat] /\ IsFiniteSet(Times)
      BY <1>t
  <2> QED BY <2>1, FilterFacts
<1>2. /\ rowsOf \in [D30 -> Nat]
      /\ \A h \in D30 : rowsOf[h] = hourly[p][h]
      /\ SumFunctionOnSet(rowsOf, D30) = SumSince(hourly[p], now - Month)
    BY <1>t, FilterFacts
<1>3. SumFunction(half) = SumSince(samples[p], now - HalfHour)
  <2> DEFINE S == After(Times, now - HalfHour)
  <2>1. After(D24, now - HalfHour) = S /\ S \subseteq D24
      BY WindowsAreKept DEF After
  <2>2. DOMAIN half = S /\ \A t \in S : half[t] = samples[p][t]
    <3>1. /\ half \in [After(D24, now - HalfHour) -> Nat]
          /\ \A t \in After(D24, now - HalfHour) : half[t] = raw[t]
      <4> HIDE DEF raw, D24
      <4> QED BY <1>1, FilterFacts
    <3> HIDE DEF half, raw, S, D24
    <3> QED BY <1>1, <2>1, <3>1
  <2>3. IsFiniteSet(S)
      BY <1>t, FS_Subset DEF After
  <2>4. SumFunctionOnSet(half, S) = SumFunctionOnSet(samples[p], S)
    <3> HIDE DEF half, S
    <3> QED BY <2>2, <2>3, SumSame
  <2>5. DOMAIN samples[p] = Times
      BY <1>t
  <2>6. SumSince(samples[p], now - HalfHour) = SumFunctionOnSet(samples[p], S)
      BY <2>5, SumSinceIs DEF After
  <2> HIDE DEF half
  <2> QED BY <2>2, <2>4, <2>6 DEF SumFunction
<1>4. SumFunction(bucketMinutes(raw, now - Day, now)) = SumSince(samples[p], now - Day)
  <2>1. \A t \in D24 : t > now => raw[t] = 0
      BY <1>1 DEF NothingLater, After
  <2>2. \A t \in D24 : Floor(t, Minute) >= Floor(now - Day, Minute)
    <3> SUFFICES ASSUME NEW t \in D24 PROVE Floor(t, Minute) >= Floor(now - Day, Minute)
        OBVIOUS
    <3>1. t \in Int /\ now - Day <= t /\ Minute \in Nat \ {0}
        BY <1>t, Units DEF After
    <3>2. /\ Floor(t, Minute) \in Int /\ Floor(now - Day, Minute) \in Int
          /\ Floor(now - Day, Minute) <= Floor(t, Minute)
        BY <1>t, <3>1, FloorFacts, FloorMonotone
    <3> QED BY <3>2
  <2>3. D24 \in SUBSET Int
      BY <1>t DEF After
  <2> HIDE DEF raw, D24
  <2>4. SumFunction(bucketMinutes(raw, now - Day, now)) = SumFunctionOnSet(raw, D24)
      BY <1>t, <1>1, <2>1, <2>2, <2>3, BucketSum
  <2> QED BY <1>1, <2>4
<1>5. SumFunction(fillHours(rowsOf, now - Month, now)) = SumSince(hourly[p], now - Month)
  <2>1. \A h \in D30 : h > now => rowsOf[h] = 0
      BY <1>2 DEF NothingLater, After
  <2>2. D30 \in SUBSET Hours /\ \A h \in D30 : h >= now - Month
      BY DEF After
  <2> HIDE DEF rowsOf, D30
  <2>3. SumFunction(fillHours(rowsOf, now - Month, now)) = SumFunctionOnSet(rowsOf, D30)
      BY <1>t, <1>2, <2>1, <2>2, FillSum
  <2> QED BY <1>2, <2>3
<1> QED BY <1>3, <1>4, <1>5 DEF peerTrafficWindows, peersTrafficTotals

\* The three charts of the server.
LEMMA ServerCharts ==
    ASSUME TypeOK, NothingLater
    PROVE  /\ SumFunction(serverTrafficWindows.m30) = SumSince(serverSamples, now - HalfHour)
           /\ SumFunction(serverTrafficWindows.h24) = serversTraffic24h
           /\ SumFunction(serverTrafficWindows.d30) = serversTraffic30d
<1> DEFINE D24 == After(Times, now - Day)
           D30 == After(Hours, now - Month)
           S == After(Times, now - HalfHour)
           raw == filterPointsSince(serverSamples, now - Day)
           half == filterPointsSince(serverSamples, now - HalfHour)
           minutes == Grouped(raw)
           rowsOf == filterPointsSince(serverHours, now - Month)
<1>t. /\ serverSamples \in [Times -> Nat] /\ serverHours \in [Hours -> Nat]
      /\ IsFiniteSet(Times) /\ IsFiniteSet(Hours) /\ Times \subseteq Int
      /\ now \in Int /\ now - Day \in Int /\ now - Month \in Int
    BY TimesFinite, WindowsAreKept, ServerHoursType DEF TypeOK
<1>1. /\ raw \in [D24 -> Nat] /\ IsFiniteSet(D24)
      /\ \A t \in D24 : raw[t] = serverSamples[t]
      /\ SumFunctionOnSet(raw, D24) = SumSince(serverSamples, now - Day)
  <2>1. serverSamples \in [Times -> Nat] /\ IsFiniteSet(Times)
      BY <1>t
  <2> QED BY <2>1, FilterFacts
<1>2. /\ half \in [S -> Nat]
      /\ SumFunctionOnSet(half, S) = SumSince(serverSamples, now - HalfHour)
  <2>1. serverSamples \in [Times -> Nat] /\ IsFiniteSet(Times)
      BY <1>t
  <2> QED BY <2>1, FilterFacts
<1>3. /\ rowsOf \in [D30 -> Nat]
      /\ \A h \in D30 : rowsOf[h] = serverHours[h]
      /\ SumFunctionOnSet(rowsOf, D30) = SumSince(serverHours, now - Month)
  <2>1. serverHours \in [Hours -> Nat] /\ IsFiniteSet(Hours)
      BY <1>t
  <2> HIDE DEF serverHours
  <2> QED BY <2>1, FilterFacts
<1>4. SumFunction(half) = SumSince(serverSamples, now - HalfHour)
  <2>1. DOMAIN half = S
      BY <1>2
  <2> HIDE DEF half, S
  <2> QED BY <1>2, <2>1 DEF SumFunction
<1>5. SumFunction(bucketMinutes(minutes, now - Day, now)) = SumSince(serverSamples, now - Day)
  <2> DEFINE M == MinutesOf(D24)
  <2>1. /\ M \in SUBSET Times /\ IsFiniteSet(M) /\ minutes \in [M -> Nat]
        /\ \A m \in M : minutes[m] = SumFunctionOnSet(raw, InMinute(D24, m))
        /\ SumFunctionOnSet(minutes, M) = SumFunctionOnSet(raw, D24)
    <3>1. D24 \in SUBSET Times
        BY DEF After
    <3> HIDE DEF raw, D24
    <3> QED BY <1>1, <3>1, GroupedSum
  <2>2. ASSUME NEW m \in M, m > now PROVE minutes[m] = 0
    <3> DEFINE T == InMinute(D24, m)
    <3>1. IsFiniteSet(T)
        BY <1>1, FS_Subset DEF InMinute
    <3>2. ASSUME NEW t \in T PROVE raw[t] = 0
      <4>1. t \in D24 /\ t \in Times /\ Floor(t, Minute) = m
          BY DEF InMinute, After
      <4>2. t \in Int /\ Minute \in Nat \ {0}
          BY <1>t, <4>1, Units
      <4>3. m \in Int /\ m <= t
          BY <4>1, <4>2, FloorFacts
      <4>4. t > now
          BY <1>t, <2>2, <4>2, <4>3
      <4> HIDE DEF raw, D24
      <4> QED BY <1>1, <4>1, <4>4 DEF NothingLater
    <3>3. \A t \in T : raw[t] = 0
        BY <3>2
    <3> HIDE DEF T, raw
    <3>4. SumFunctionOnSet(raw, T) = 0
        BY <3>1, <3>3, SumZeros
    <3> QED BY <2>1, <3>4 DEF T
  <2>3. ASSUME NEW m \in M PROVE Floor(m, Minute) >= Floor(now - Day, Minute)
    <3>1. PICK t \in D24 : m = Floor(t, Minute)
        BY DEF MinutesOf
    <3>2. t \in Int /\ now - Day <= t /\ Minute \in Nat \ {0}
        BY <1>t, Units DEF After
    <3>3. /\ Floor(t, Minute) \in Int /\ Floor(now - Day, Minute) \in Int
          /\ Floor(now - Day, Minute) <= Floor(t, Minute)
          /\ Floor(m, Minute) = Floor(t, Minute)
        BY <1>t, <3>1, <3>2, FloorFacts, FloorMonotone
    <3> QED BY <3>3
  <2>4. M \in SUBSET Int
      BY <1>t, <2>1
  <2>5. /\ \A m \in M : m > now => minutes[m] = 0
        /\ \A m \in M : Floor(m, Minute) >= Floor(now - Day, Minute)
      BY <2>2, <2>3
  <2> HIDE DEF M, minutes, raw, D24
  <2>6. SumFunction(bucketMinutes(minutes, now - Day, now)) = SumFunctionOnSet(minutes, M)
      BY <1>t, <2>1, <2>4, <2>5, BucketSum
  <2> QED BY <1>1, <2>1, <2>6
<1>6. SumFunction(fillHours(rowsOf, now - Month, now)) = SumSince(serverHours, now - Month)
  <2>1. \A h \in D30 : h > now => rowsOf[h] = 0
    <3> SUFFICES ASSUME NEW h \in Hours, h > now PROVE serverHours[h] = 0
        BY <1>3 DEF After
    <3> DEFINE f == [p \in Peers |-> hourly[p][h]]
    <3>1. (\A p \in Peers : f[p] = 0) /\ orphaned[h] = 0
        BY DEF NothingLater
    <3>2. serverHours[h] = orphaned[h] + SumFunctionOnSet(f, Peers)
        BY ServerHour
    <3> HIDE DEF f, serverHours
    <3>3. SumFunctionOnSet(f, Peers) = 0
        BY <3>1, PeersAssumption, SumZeros
    <3> QED BY <3>1, <3>2, <3>3
  <2>2. D30 \in SUBSET Hours /\ \A h \in D30 : h >= now - Month
      BY DEF After
  <2> HIDE DEF rowsOf, D30
  <2>3. SumFunction(fillHours(rowsOf, now - Month, now)) = SumFunctionOnSet(rowsOf, D30)
      BY <1>t, <1>3, <2>1, <2>2, FillSum
  <2> QED BY <1>3, <2>3
<1>7. /\ serverTrafficWindows.m30 = half
      /\ serverTrafficWindows.h24 = bucketMinutes(minutes, now - Day, now)
      /\ serverTrafficWindows.d30 = fillHours(rowsOf, now - Month, now)
    BY DEF serverTrafficWindows, Grouped, MinutesOf, InMinute
<1> QED BY <1>4, <1>5, <1>6, <1>7 DEF serversTraffic24h, serversTraffic30d

\* A chart of the server contains the one of the next shorter window.
LEMMA WindowsNest ==
    ASSUME Books
    PROVE  /\ SumSince(serverSamples, now - HalfHour) <= serversTraffic24h
           /\ serversTraffic24h <= serversTraffic30d
<1>t. /\ TypeOK /\ IsFiniteSet(Times) /\ Times \subseteq Nat /\ now \in Nat
      /\ serverSamples \in [Times -> Nat] /\ ever \in [Times -> Nat]
    BY TimesFinite DEF Books, TypeOK
<1> DEFINE D24 == After(Times, now - Day)
           S == After(Times, now - HalfHour)
           D30 == {t \in Times : Floor(t, Hour) >= now - Month}
<1>1. S \subseteq D24
    BY <1>t, WindowsAreKept DEF After
<1>2. D24 \subseteq D30
  <2> SUFFICES ASSUME NEW t \in Times, t >= now - Day PROVE Floor(t, Hour) >= now - Month
      BY DEF After
  <2>1. t \in Int /\ Hour \in Nat \ {0} /\ Day \in Nat /\ Month \in Nat /\ Day + Hour <= Month
      BY <1>t, Units
  <2>2. Floor(t, Hour) \in Int /\ t < Floor(t, Hour) + Hour
      BY <2>1, FloorFacts
  <2> QED BY <1>t, <2>1, <2>2
<1>3. /\ SumSince(serverSamples, now - HalfHour) = SumFunctionOnSet(serverSamples, S)
      /\ serversTraffic24h = SumFunctionOnSet(serverSamples, D24)
  <2>1. DOMAIN serverSamples = Times
      BY <1>t
  <2> QED BY <2>1, SumSinceIs DEF serversTraffic24h, After
<1>4. /\ serversTraffic24h <= SumFunctionOnSet(ever, D24)
      /\ serversTraffic30d = SumFunctionOnSet(ever, D30)
    BY BooksTotal DEF TotalsAreHistory, HistorySince, HistoryOfHours, After
<1>5. IsFiniteSet(D24) /\ IsFiniteSet(D30) /\ D24 \subseteq Times /\ D30 \subseteq Times
    BY <1>t, FS_Subset DEF After
<1>6. IsFiniteSet(S)
    BY <1>1, <1>5, FS_Subset
<1> HIDE DEF D24, D30, S
<1>7. SumFunctionOnSet(serverSamples, S) <= SumFunctionOnSet(serverSamples, D24)
  <2>1. /\ S \in SUBSET D24
        /\ \A t \in D24 : serverSamples[t] \in Nat /\ serverSamples[t] <= serverSamples[t]
      BY <1>t, <1>1, <1>5
  <2> QED BY <1>5, <2>1, SumMonotone
<1>8. SumFunctionOnSet(ever, D24) <= SumFunctionOnSet(ever, D30)
  <2>1. D24 \in SUBSET D30 /\ \A t \in D30 : ever[t] \in Nat /\ ever[t] <= ever[t]
      BY <1>t, <1>2, <1>5
  <2> QED BY <1>5, <2>1, SumMonotone
<1>9. /\ SumFunctionOnSet(serverSamples, D24) \in Int
      /\ SumFunctionOnSet(ever, D24) \in Int /\ SumFunctionOnSet(ever, D30) \in Int
  <2>1. /\ \A t \in D24 : serverSamples[t] \in Int /\ ever[t] \in Int
        /\ \A t \in D30 : ever[t] \in Int
      BY <1>t, <1>5
  <2> QED BY <1>5, <2>1, SumInt
<1> QED BY <1>3, <1>4, <1>7, <1>8, <1>9

\* A chart adds up to the number in its heading, however its window cuts the
\* minutes and hours, and a server's windows contain one another
\* (bucketMinutes, fillHours, peerTrafficWindows, serverTrafficWindows).
THEOREM PointsSumToTotalsHolds == Spec => []PointsSumToTotals
<1>1. Books => PointsSumToTotals
  <2> SUFFICES ASSUME Books PROVE PointsSumToTotals
      OBVIOUS
  <2>1. TypeOK /\ NothingLater /\ rows \subseteq Peers
      BY DEF Books, TypeOK
  <2>2. \A p \in rows :
            /\ SumFunction(peerTrafficWindows(p).m30) = peersTrafficTotals(p).m30
            /\ SumFunction(peerTrafficWindows(p).h24) = peersTrafficTotals(p).h24
            /\ SumFunction(peerTrafficWindows(p).d30) = peersTrafficTotals(p).d30
      BY <2>1, PeerCharts
  <2>3. /\ SumFunction(serverTrafficWindows.h24) = serversTraffic24h
        /\ SumFunction(serverTrafficWindows.d30) = serversTraffic30d
        /\ SumFunction(serverTrafficWindows.m30) <= SumFunction(serverTrafficWindows.h24)
        /\ SumFunction(serverTrafficWindows.h24) <= SumFunction(serverTrafficWindows.d30)
      BY <2>1, ServerCharts, WindowsNest
  <2> QED BY <2>2, <2>3 DEF PointsSumToTotals
<1> QED BY BooksHold, <1>1, PTL
=============================================================================
