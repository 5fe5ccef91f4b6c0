# Verification of AWG Stat (Gate)

TLA+ models of the parts of this repository whose errors are hard to test: the
poller that reads VPN servers every 15 seconds and turns what it reads into rows,
the numbers the pages show of them, the AmneziaWG tunnel it reads through, and the
two services it asks about hosts. TLC checks small instances of each module, and TLAPS proves the most important
theorems for every value of the constants.

Paths below are relative to the repository's root. `PROJECT.json` maps every
definition that models code to its lines, lists the runs, the mutants that show
that each property can fail, the hazards and the theorems.

## 1. The system

Gate runs as several processes around one PostgreSQL database: the web
application `gate-app` (Next.js), the poller `gate-poller` (`src/worker/main.ts`),
an AmneziaWG agent and a Docker agent, each a small HTTP server. Each VPN server
is reached over SSH, or through the Docker agent when it is the local one.

| Component | State it keeps | Operations | Talks to | What is hard |
|---|---|---|---|---|
| Poller lease and fencing epoch (`server/poller.ts`, `poller-runtime.ts`, `lib/ssh/errors.ts`) | row `poller_lease` (owner, expiry, epoch); in memory `ownsLock`, `epoch`, `stopping` | `ensureLease`, `stopPoller`, `canCommitPoll` | database, jobs, health route | overlapping ticks, lost answers, stalls, death without release |
| Poll schedule and queues (`server/poller.ts`, `poller-queues.ts`, `poll-due.ts`) | a `PQueue` per server, `last_poll_at`, `vpn_instances.last_seen_at` | `tick`, `queueFor`, `pruneQueues`, a job, the recheck before it polls | lease, persistence, the web process that creates and deletes rows | jobs piling up, a queue pruned under a running job, onboarding in another process |
| Poll persistence (`services/collector.service.ts`, `lib/amnezia/commands.ts`, `parse.ts`, `peer-sync.ts`, `lib/presence.ts`) | `peers`, `peer_samples`, `peer_presence_events`, `peer_hourly_samples`, `server_samples` | `persistPollUnlocked`, `pruneOldSamples` | VPN listing, fence | not one transaction; counters that reset; truncated listings; pruning meanwhile |
| SSH sessions and the remote poll (`lib/ssh/session-registry.ts`, `lib/ssh/client.ts`, `pollRemote`) | sessions, connects under way and generations, by server | `acquire`, `open`, `invalidate`, `prune`, `closeAll`, `withDeadline`, one retry | polls, lease (closeAll when it is lost), configuration changes | every await may be followed by an invalidation |
| Server life cycle (`services/server.service.ts`, `actions/servers.ts`) | `servers`, credentials | create and onboard, change access, delete | poller, sessions, block check | runs in the web process, outside lease and queues |
| AmneziaWG client configuration (`services/awg-client.service.ts`, `lib/awg/agent-client.ts`) | one configuration row, `applyError` | save, delete, sync of routes, check of a path | the agent, from two processes | a sync may apply what was replaced; a request that was given up is carried out all the same |
| AmneziaWG agent (`awg-agent/`, `lib/awg/routes.ts`) | the tunnel, its child process, its routes | apply, clear, `replaceRoutes`, `prepare` | kernel, DNS | a half applied tunnel, commands that fail or are killed, the child's exit in between |
| Block check (`services/block-check.service.ts`, `lib/block-check/`) | verdict per server; in memory verdict ages and backoffs | refresh of all hosts | an outside service | hosts change during a refresh, a stream breaks off, dead hosts use up the attempts |
| ICMP probe, resolved addresses (`lib/net/`) | verdict and addresses of a server | `probeHost` | DNS, network | which failure counts as which verdict |
| GeoIP (`services/geoip.service.ts`, `lib/geoip.ts`) | cache rows, lookups under way, two budgets | enrich the peers of a server | an outside service, persistence | endpoints change during a lookup, failures are cached, servers share a budget |
| Traffic windows (`services/server.service.ts`, `lib/traffic-points.ts`) | none of their own | totals and charts of 30 minutes, 24 hours, 30 days | samples, pruning | windows that begin within an hour, two retentions, deleted peers |
| Docker agent (`docker-agent/`) | none | reads one container | Docker | – |
| Identity (`lib/auth.ts`, `services/setup.service.ts`) | users, sessions | first administrator, sign in | Better Auth | two first administrators |
| Pages, charts and views (`app/`, `components/`) | none of their own | rendering | database | – |
| Health (`app/api/health/route.ts`, `docker/poller-health.cjs`) | none | reads the lease row | lease | takes an owned lease for a working poller |

What makes each one correct:

- **Lease**: an epoch names one process; a dead process's lease is taken over; a
  process that keeps time never writes beside another; the owner can write.
- **Schedule**: a server is polled by one job at a time, never beside its own
  onboarding, not twice in a row for one interval, and again and again for ever.
- **Persistence**: no byte is counted twice, the server's total is the sum of its
  peers', a peer is deleted only after two complete listings lacked it, a
  journal of presence alternates, all of it with polls that end half way.
- **Sessions**: no session is left open that nobody would end; no poll reads
  through a session of another configuration; every poll ends, unless its connect is lost.
- **Traffic windows**: a window shows what was counted in it, whatever was pruned or
  deleted, and a chart adds up to its heading.
- **Configuration and agent**: in the end the agent has what the row says and routes to
  the nodes of now only; no route outlives the configuration that allowed it; a bound node
  has its route; an address that DNS still announces is kept; every operation ends.
- **Block check**: a verdict is about its row's host and rests on a whole set of replies, it
  is only replaced by a newer one, and every host that answers is asked again and again.
- **GeoIP**: a place belongs to the endpoint it is shown with, and is found in the end.

## 2. Modules

| Module | Models | State and actions |
|---|---|---|
| `FencingTokens` | what the lease promises: numbers that are taken once and never come back | `issued`, `held`, `retired`; `Issue`, `Take`, `GiveUp`, `Lose` |
| `PollerLease` | `ensureLease`, the fence and the process around them | each UPDATE is two actions, executed by the database (`Renew`, `TakeOver`, `RefuseTakeOver`) and handled by the process (`HandleRenewed`, `HandleAcquired`, `HandleDenied`); faults (`StatementFails`, `AnswerLost`); a job from the queue to its last write (`QueueJob`, `BeginJob`, `CheckFence`, `FinishJob`); `StartPoller`, `BeginStop`, `Exit`; `TimePasses` |
| `PollerPunctual` | the same with history variables that say which process ever stalled: it got no answer in an interval, or one `ensureLease` took a whole one | `Within`, `IntervalEnds` |
| `PollerLeaseProofs` | proofs about `PollerLease` | – |
| `PollSchedule` | the rest of `tick`, the queues, the jobs, the frame of `pollServer`, and the life of a row in the web process | `TickList`, `TickQueue`; `StartJob`, `Recheck`, `PollAnswers`, `PollDone`, `PollFails`; `CreateServer`, `OnboardPersist`, `OnboardDone`, `OnboardFails`, `AppCrash`, `DeleteServer`; `GetLease`, `LoseLease`, `PollerCrash` |
| `PollScheduleProofs` | proofs about `PollSchedule` | – |
| `PollOutput` | the script that prints the state of a VPN, what of its output arrives, what `parsePollOutput` makes of it, and which of it the collector takes from SSH and from the Docker agent; operators only | `Outputs`, `accepted`, `readLocalAwg`, `Readings` |
| `PollCommit` | one poll statement by statement: `persistPollUnlocked` with `planPeerRemovals`, `computeDelta` and the presence rules | `Read`, `LoadRows`, then `UpsertPeer` and `SamplePeer` for each peer, `DeletePeers`, `MarkRemoved`, `StoreServerSample`; `Abort` between any two; the VPN's `Transfer` and `ResetCounters`; `PruneJournal` |
| `PollCommitProofs` | proofs about `PollCommit` | – |
| `SshSessions` | `SshSessionRegistry`, `pollRemote`, `withDeadline` | an action is what one task of the JavaScript thread does between two awaits: `acquire` and `open`, the end of a connect, the read, errors, `invalidate`, `closeAll`, `prune`, a change of configuration; `ConnectLost`, after which a connect does not end |
| `SshSessionsProofs` | proofs about `SshSessions` | – |
| `TrafficWindows` | samples by time, their pruning, and the queries and charts of the pages | `BeginPoll`, `SamplePeer`, `DeletePeer`, `StoreServerSample`, `Abort`; `PruneSamples`, `PruneServerSamples`, `PruneHourly`; `TimePasses` |
| `TrafficWindowsProofs` | proofs about `TrafficWindows` | – |
| `Sums` | lemmas about the sums of `Functions`, which both of the modules about traffic use, and inductions over finite sets and numbers | – |
| `AwgNames` | the nodes and configurations that the agent and its clients speak of; constants only | – |
| `AwgAgent` | what the agent promises to its clients: the configuration it was told, whether its tunnel is usable, the nodes with a route | `Begin`, `ComeUp`, `GoDown`, `GiveUp`, `Forget`, `Ask`, `Settle`, `Route` |
| `AwgTunnel` | the agent await by await; implements `AwgAgent` | `BeginApply`, `LinkAppears`, `WaitForLink`, `Configure`, `ClearError`, `InstallDnsRoute`, `ApplyFails`; `BeginReplace`, `ReplaceHost`, `FinishReplace`; `Prepare`, `Clear`; `ChildDies`, `ChildExit` |
| `AwgConfig` | `gate-app` and `gate-poller` against one `AwgAgent`, which it EXTENDS; the agent's queue of requests | `Save`, `Delete`, `ChangeNodes`, `CheckNode`, `Tick`; the steps of `syncAwgRoutes`; `Send`, `Unreachable`, `TimeOut`; the agent's `Serve…`, `Start…`, `Finish…`, `BreakApply`; `LoadPoll`, `PreparePoll` |
| `AwgProofs` | proofs about `AwgTunnel` and `AwgConfig` | – |
| `BlockQuery` | `queryCheburcheck`: from the replies of a stream to a verdict; operators only, with the reference they are compared with | `Stream`, `selectProbeVerdict`, `resolveBadgeStatus`, `queryCheburcheck` |
| `BlockCheck` | the refresh that asks about hosts, one await after another, while rows change | `Ensure`, `List`, `CheckIsAll`, `CheckNamesProbe`, `BeginProbe`, `ProbeEnds`, `Persist`; `Create`, `Move`, `Delete`; `Lease`, `LoseLease`, `Stop`, `Crash`; `Pass` |
| `GeoEnrich` | the endpoint of one peer from `persistPoll` to the place it is shown with | `BeginPersist`, `Upsert`, `Journal`, `Removals`; `EnrichOwn`, `EnrichOther`, `FromCache`, `FromApi`, `Found`, `NotFound`, `RateLimited`, `Late`; `ApplyToPeers`, `ApplyToEvents`; `NewMinute`, `PruneCache` |
| `ServicesProofs` | proofs about `GeoEnrich`, `BlockQuery` and `BlockCheck` | – |
| `MCPollerPunctual`, `MCPollCommit`, `MCAwgTunnel`, `MCBlockCheck` | symmetry, an action constraint, sets of inputs | – |

How they fit together. `PollerLease` says which process may write, with one job
per process standing for all. `PollSchedule` takes the lease as a number that is
issued, lost and had again, which is what `FencingTokens` allows, and says how
many polls of one server run at a time. `PollCommit` takes its result, one poll at
a time, as given, and says what that poll leaves behind. `SshSessions` takes the
polls as given and allows one more of them at once than the queues do. `PollOutput` is
what a poll of `PollCommit` reads. `TrafficWindows` takes from `PollCommit` that polls end
half way and that a peer is deleted, and adds the time of each sample. `AwgConfig` knows the
agent by the promises of `AwgAgent` alone, and `AwgTunnel` is shown to keep them: that
split lets the one have requests that are lost and the other commands that are killed.
`BlockCheck` and `GeoEnrich` run beside the polls and share rows with them, not steps.

### What the models leave out, and assume

- **Time** is counted in poll intervals of 15 s. A lease of 45 s is `Ttl = 3`, and
  `UNCLAIMED_PERSIST_SEC` is `Unclaimed` intervals, cut down from 12 to 3. A lease is renewed anywhere
  within an interval, so with the end of interval number `Ttl` it may have expired (`MayExpire`: another
  process may take it over or be refused), and with the next one it has (`Expired`).
- `PollerLease` keeps one job per process: jobs of one process do not touch the
  lease, and what several jobs of one server do is in `PollSchedule`.
- `PollSchedule` has one host, hence one row at a time (the unique index on host and
  port), and assumes that the list of servers is answered within one interval and
  that an onboarding persists within `UNCLAIMED_PERSIST_SEC`. The code checks neither;
  without the second one the poller does persist beside an onboarding. That a poll ends it takes
  from `SshSessions`, so `EveryServerIsPolled` holds only as long as no connect is lost (section 5).
  A full set of job slots stands for a longer queue. Where the web application runs
  the poller in its own process, `releaseServerRuntime` also clears queues; that
  mode is not modelled there.
- `PollOutput`: an output breaks off between two lines, and of a peer's line it matters
  only whether it is there. `Faulty` names the selectors that may print fewer lines than there
  are peers. Where `transfer` is one of them bytes are overcounted (section 5); the
  passing run and two of the theorems take it to be whole. An answer of the Docker agent is
  accepted with an exit code other than 0 as well, once the script got as far as `transfer`
  (`readLocalAwg`); what it then lacks is what an output that broke off lacks.
- `PollCommit` has one direction of traffic. It leaves out the endpoint that is filled into
  the last event (`P2025` at that place ends the persist: `Abort` covers it), the place of
  an endpoint, which is in `GeoEnrich`, and the host key.
- `TrafficWindows` has one direction of traffic, a sample is one byte, and a page reads all its
  rows at once. It assumes that raw samples are kept for at least a day and hours for at least
  a month (the settings' default is 365 days), and that a month is more than a day and an hour.
- `PollerPunctual` takes the lease to outlive two intervals (`PunctualAssumption`: `Ttl` more than 2; it
  is 3). It does not limit the ticks that `setInterval` starts, and the code does not either: a tick that
  hangs makes its process one that stalls. The ticks that count as stalled are those in `ensureLease`; how
  long a job takes does not matter.
- `AwgTunnel`: an address stands for all its spellings; the addresses a configuration allows are
  given as a set; DNS answers anything in `Announce`, each time anew.
- `AwgConfig` has one node, one tick and one request of `gate-app` at a time; requests may be
  late or lost `MaxFaults` times. Of an error it matters only that there is one.
- `BlockCheck` counts time in ticks, and ages are not told apart from `MaxAge` on. Hosts and
  servers are numbers in the order of their names. About `Dead` hosts there is never an
  answer; any other failure is bounded by `MaxFaults`.
- `GeoEnrich` follows one peer and one event; the lookups of other servers take part through cache,
  budget and lookups under way. Reading a cache row and deciding are one step, and cache
  rows expire as minutes pass. There are two addresses, so the others may use up the calls of a minute but
  not those of every minute; that there are fewer new addresses than calls is what `PlaceIsFound` rests on.
- `CommutingStepsFirst` (an action constraint of `MCPollCommit`): a poll looks at the
  VPN once, in `Read`, and touches the journal only while it persists peers. A
  transfer or a reset in the middle of a poll changes `counter` and `traffic` only,
  which no other step reads until the next `Read`: it is taken to happen after the
  poll, where the tables are compared with less traffic, so that no violation is
  lost. Pruning in the phases `read`, `mark` and `total` is taken to happen before
  them. That `NeverOvercounts`, `JournalIsSound` and `DeletedOnlyAfterTwoAbsences`
  hold without the constraint is proved (section 6, the first and the last while
  `transfer` is whole), and so is `ServerTotalMatchesPeers`.
- `SshSessions` splits a retry into the failure and the next `acquire`, which allows
  more interleavings than the code. Polls that waited for the same connect go on in
  the same drain of the microtask queue. A generation number is kept as "did not
  change since this connect began". A new client takes a free slot of `Clients`, of which there
  is always one where there are more slots than polls.

## 3. The runs

| Run | Instance | What it shows |
|---|---|---|
| `lease_takeover` | 2 processes, 1 tick each, 3 acquisitions, `Ttl` 2, one failed statement or lost answer | while a process runs, some process gets an epoch, with no one ever releasing the lease, unless the answer of an acquisition was lost and its process renews without an epoch (`Wedged`) |
| `lease_punctual` | 2 processes, 1 tick each, 3 acquisitions, `Ttl` 3, one failed statement or lost answer | `EpochNamesOneProcess`; `PollerLease` implements `FencingTokens` (refinement `dbEpoch`, `epoch`, `retired`): an epoch whose delivery failed is never used, not even by the process it was meant for; two processes that never stalled never write at the same time, although the fence is asked once per poll |
| `lease_wedge` | 1 process, 2 overlapping ticks, no faults | **violated**: the owner of the lease may stay without an epoch for ever (section 5) |
| `poll_commit` | 2 peers, 3 polls, 1 early end, counters from 2, 1 byte; answers that break off anywhere or lack lines of every selector but `transfer` | bytes and their sum, presence and removal, with peers persisted in any order |
| `poll_truncated` | 1 peer, 3 polls, no early end; `transfer` may lack lines, too | **violated**: bytes are counted twice (section 5) |
| `poll_schedule` | 2 row ids, 2 jobs, 2 epochs, `Unclaimed` 3 | exclusion and liveness of polling, against creation, onboarding, deletion and deaths of both processes |
| `ssh_sessions` | 2 polls, 2 configurations, 4 clients | sessions, connects and retries; every poll ends, or awaits a connect that was lost before it was ready (`Hangs`) |
| `awg_tunnel` | 2 configurations, 2 nodes, 4 addresses, one of family 6 | the agent's routes and bindings, that its operations end, and that it is an `AwgAgent` |
| `awg_config` | 1 node, a good and a bad configuration, 3 changes, 1 fault, one request of `gate-app` beside the tick of `gate-poller` | the agent ends up with the row, what a page with a whole status says with its state, and the routes with the nodes |
| `block_check` | 2 servers, 3 hosts of which one is private and one dead, 3 changes, 2 faults; streams of up to 3 replies of 8 kinds | verdicts and their hosts; every host that answers is asked again and again |
| `geo_enrich` | 1 address of the peer, 2 in all, 1 other server, 1 call at a time and per poll, 2 per minute, 1 failure | places and their endpoints; the place is found |
| `traffic_windows` | 2 peers, 2 polls, 1 early end, a day of 2 hours and a month of 3, a clock that runs past every retention | totals, charts and what was counted |

Why the bounds are enough to be interesting:

- Two processes are what it takes for a takeover; two acquisitions retire an epoch and issue
  the next. Ticks of one process that overlap, so that one answer overtakes another, are in
  `lease_wedge` and in the theorems of section 6, which hold for any number of processes and
  ticks: two ticks for each of two processes are beyond a run with the `Ttl` of the code.
- `Ttl` is 3 in `lease_punctual` because the property is about the real margin: the lease of a process
  that does not stall is at most two interval ends old. With `Ttl` 2 TLC finds two punctual writers.
- A server gets a new queue only after its row was gone or the process died; rows and epochs are bounded,
  so the number of queues needs no bound of its own.
- A peer needs two polls for one delta and three to be seen, marked and deleted. What its
  return does to the sums takes five; there the theorems of section 6 say what the run
  cannot. Counters start at 2, so that after a reset they can grow again and still be
  below what was stored, the case that a comparison alone cannot tell.
- Two row ids let a host be deleted and created again while a job of the old row still
  runs; two jobs let one wait behind another; the second epoch is what a job of the
  first one must notice.
- Four clients: one registered, two connecting, one a poll still holds. A second
  configuration is what makes a session stale.
- Two configurations let an apply follow another one's failure; of the four addresses one is
  the private DNS server's and one of family 6, and nodes and endpoints share addresses.
- Three changes are a save, its replacement and a deletion; one fault at any place is what a
  sync has to make good.
- `FailLimit` 2 with one dead host is one less than what ends a refresh; three replies are two that
  agree and one that does not, or two of one scanner and one of another.
- Two calls a minute and one per poll let another server take what the peer needs for a minute.
- Sixteen units of time are four hours: the windows and both retentions end before the clock does.

Deadlock is checked in every run.

## 4. Fairness

Only what the code drives by itself is fair. `PollerLease`: a tick that has begun and a
job that is queued go on, a process that was told to stop is ended by its 15 s
failsafe, and time passes. Nothing makes a process start, stop or crash, and no
fault has to happen or to end. `PollSchedule`: the clock and the interval timer go on,
a statement is answered or fails, a poll ends at its deadline, and an expired lease is
had again (that is `lease_takeover`'s result, and `lease_wedge` says when it is not
enough). Creating, onboarding, deleting and dying are not fair, except that an
onboarding which has persisted writes `last_poll_at` or fails. `SshSessions`: a read comes to
an end, since `withDeadline` bounds it. A connect is not under `withDeadline`; it is settled by `ready`, by
an error or by `readyTimeout`, except where the connection is lost between the greeting and `ready`: that
one is never settled, nothing drives it, and `EveryPollEnds` names it (`Hangs`). `AwgTunnel`: a running
operation goes on, since every command and `waitForLink` has a timeout, and the exit event of the
child is handled. `AwgConfig`: the tick of `gate-poller` comes again, requests are answered or
given up, the agent serves its queue; nobody has to save or delete. `BlockCheck`: time
passes, a stopped process is started again and gets the lease, the tick asks for a refresh
whenever none runs, statements return, and every request has a timeout; changes and deaths
need not happen and are bounded. `GeoEnrich`: the server is polled again and again, lookups return,
and rows of the cache expire; failures are bounded.

`lease_takeover` has one tick per process: with overlapping ticks the property is false for
the reason `lease_wedge` shows. The same end is reached with one tick when the answer of an
acquisition is lost; the property names that case (`Wedged`) and allows no other.

## 5. What the checks found

**The lease can wedge** (`lease_wedge`, `LeaseOwnerCanWrite`; `src/server/poller.ts:36`).
`setInterval` starts a tick whether or not the last one is over. Two ticks of one
process may both find no row to renew; one then acquires the lease, the other is refused
it, by its own process. If the refusal is handled last it sets `ownsLock = false` and
`epoch = null`; the next tick renews the row, sets `ownsLock` and leaves the epoch `null`.
`canCommitPoll` refuses a null epoch, and every later tick renews again, so no epoch is
ever acquired. A lost answer of the acquiring statement ends in the same state. The
health route (`src/app/api/health/route.ts:23-24`) reports such a poller as started.

**Bytes are counted twice after an answer that lost counters** (`poll_truncated`,
`NeverOvercounts`; `src/lib/amnezia/parse.ts:238`). The collector refuses an answer without
counters: «Цифры не выдумываем» (`src/server/services/collector.service.ts:255`), and the tests
of `parse.ts` want a missing `transfer` section and one with an error message refused. But
`selectorOk` accepts a section in which any peer has a line, and one without any line when the
interface is known. An output that broke off among those lines looks like the first, since
`exec` resolves with what came in and takes a missing exit code for 0; an `awg show` that failed
with its message on stderr looks like the second. Every peer that another section names then has
counters of 0. `computeDelta` takes that for a reset and the row keeps 0; the next whole answer
counts all bytes of the counter again. While `transfer` is whole this cannot happen
(`NeverOvercountsHolds`).

Met while modelling, without a statement of the repository to hold them against (most
of them are hazards in `PROJECT.json`):

- `CONNECT` of the agent lets through what it tracks, and does not look at the kernel
  (`src/awg-agent/main.ts:86`). For the address of a bound node the kernel has the route too, as long as
  there is an interface (`BindingsAreRoutes`). An address that no node is bound to any more, whose
  deletion took effect although its command failed, is connected to past the tunnel
  (`handleConnect` is then `"outside"`).
- When a poll has no time left, `withDeadline` throws before it awaits the read it was
  given (`src/lib/ssh/client.ts:180`): that read's rejection has no handler, which ends
  the Node process. `SshSessions` has the step.
- A connection that ends after the greeting of the SSH server and before `ready` leaves the promise of
  `SshClient.connect` as it is: `ssh2` stops its `readyTimeout` and emits `end` and `close` but no error, and the handlers
  of these two settle nothing (`src/lib/ssh/client.ts:104-109`). The deadline of a poll begins only after
  `acquire` (`src/server/services/collector.service.ts:353`), so the poll never ends, and with it the queue of
  concurrency 1 of its server, until the process does. `ConnectLost` of `SshSessions` is that step;
  `EveryPollEnds` says that nothing else keeps a poll.
- With three polls of one server at once, two that waited for a session they cannot
  use would both connect, and the entry of the first is replaced without being ended.
  The queues allow one poll at a time, and two are safe (`ssh_sessions`).
- After the lease is lost, `closeAll` ends the sessions under the running polls, which
  retry and connect again in a process that may no longer write.
- A row whose onboarding died before it persisted anything is never due.
- As many dead hosts as end a refresh, if they were never checked, come first in every refresh
  in which they are due: the others get their turn only between the backoffs of those.
- `README.md:132` of the repository says that an empty delay is written only when three echoes
  really were silent; `IcmpController.probe` returns one for a name that DNS did not resolve, too.
  That is one step of one probe, so there is no run about it.

## 6. What is proved

Assumptions: the sentinels differ from the values they stand beside (`GoneAssumption`,
`NoneAssumption`, `AddrAssumption`, `AgentAssumption`, `ConfigAssumption`, and `Null` of the block check in
`QueryAssumption`, `BodyAssumption` and `StateAssumption`), `Ttl` is positive, bounds and budgets are numbers, and configurations
and DNS name addresses (`PolicyAssumption`, `DnsAssumption`). Where traffic is added up the set of
peers is finite (`PeersAssumption`), and so is that of the hosts the block check asks about; hosts and
servers are numbers there, in the order of their names (`CheckAssumption`). `TrafficWindows` takes its units of time from the code
(`TimeAssumption`: an hour is a whole number of minutes, half an hour is no more than a day, a day and an
hour no more than a month, and what is kept is at least what the windows show). `UnclaimedAssumption`
says that `UNCLAIMED_PERSIST_SEC` is more than one interval. Two theorems assume `transfer` to be
whole and say so, two that at most two polls of a server run at once, and one that the lease outlives two
intervals (`PunctualAssumption`: `Ttl` is more than 2). Nothing else: any number of
processes, ticks, servers, jobs, peers, bytes, epochs, polls, nodes, configurations and addresses.

**`PollerLeaseProofs`**. `EpochNamesOneProcess` is not inductive: it does not say where an
epoch is while its answer is under way. `Custody` does. Every number up to
`dbEpoch` is in one place: in the memory of one process (`HeldOnce`), in one answer under
way (`AnswersApart`), or retired and nowhere (`RetiredNowhere`); and a job carries its
process's epoch or one that is retired (`JobsApart`). `InitCustody` and `StepCustody` prove
it inductive, one step per action.

- `TypesHold`, `CustodyHolds`;
- `EpochsNameOneProcess`: the epoch of a write names the process that made it;
- `LeaseIsTokenSource`: `Spec` implements `FencingTokens!Spec`; `TakeOver` is `Issue`,
  `HandleAcquired` is `Take`, `HandleDenied` and `Exit` are `GiveUp`, `AnswerLost` is `Lose`,
  everything else stutters;
- `PunctualWriterIsAloneHolds`: of the processes that never stalled at most one may write, for any number
  of ticks under way. The property is about epochs and jobs, what protects them is the age of the lease,
  and answers alone do not bound that: a process may be answered in every interval by statements
  that the database carried out long ago, as many as it has ticks. So a process stalls not only when an
  interval brings no answer but also when one `ensureLease` takes a whole one. `Renewing` then bounds the age: an answer
  that is handled belongs to a tick of this interval or the last one, and the database served that
  tick (`Served`, `AnswerWasServed`) no earlier; the age is at most one interval end after an answer
  and two before the next. `PunctualOwns` follows: the row names every punctual process that has an epoch,
  a job or an answer that gives it one. The assumption is sharp: with `Ttl` 2 TLC finds two punctual
  writers, with one tick each.

**`PollScheduleProofs`**. `AtMostOnePollPerServer` is about servers, but what keeps jobs apart is a queue
of concurrency 1. The invariant says that the two agree: what a row that is there, or that the
list under way still names, has of jobs is in its current queue (`OwnQueues`), since a queue is pruned
only when a list lacks the row (`ListCovers`) and a row that is gone never comes back (`KnownRows`).
A job that begins to poll finds its row there, so another poll of the server would be in
the same queue, which `OnePerQueue` forbids; of a row that is gone no poll begins (`OnePoll`). `Onboarding` says that a row is not due
while it is being onboarded, which rests on the two assumptions about time of section 2.

- `TypesHold`, `AtMostOnePollPerServerHolds`, `OnboardExclusiveHolds`: for any number of jobs that
  pile up, of lists, prunings and epochs;
- `NoBackToBackPollsHolds`: only `Recheck` begins a poll, and what it reads is the row of that moment.

**`PollCommitProofs`**. Three lemmas about `computeDelta` carry the argument: it is a number
(`DeltaIsNat`), a byte more raises it by one at most (`DeltaOfOneByte`), and leaving a sample
out never raises the sum of the deltas (`DeltaTriangle`). `WholeReading` says what an accepted
answer shows when `transfer` is whole; `ReadingTypes` says what any answer can show.

- `TypesHold`;
- `NeverOvercountsHolds`, for `"transfer" \notin Faulty`, by `Counting`: what is stored of a peer plus what is still to be
  counted of it (`Uncounted`: from `last_rx_bytes` to the counter, by way of what the running
  poll has read) never exceeds what was transferred. A poll that ends early drops its
  sample, and `DeltaTriangle` says that this is safe;
- `DeletedOnlyAfterTwoAbsencesHolds`, under the same assumption, by `Sighted`: a REMOVED row was absent once, and
  what the running poll loaded is still what the row says, for peers it did not see;
- `JournalIsSoundHolds`, by `Journalled`: for a peer still to be persisted, the event that
  was loaded is the last one of the journal, unless the journal was pruned to nothing;
- `ServerTotalMatchesPeersHolds`, by `Accounted`: what the running poll has summed up is what
  it has added to the hours, and nothing before it has loaded its rows (`SumFollowsPoll`).

**`TrafficWindowsProofs`**. `TotalsAreHistory` compares sums of a window, and from a sum of this moment nothing
follows for the window of the next one, which begins later: pruning could have taken a
sample that no sum shows any more. `Books` says it row by row. Samples that pruning leaves alone
are what was counted (`RawIsKept`), a row of an hour holds the samples of that hour
(`HoursAreKept`), so do the rows of an hour together, with those that lost their peer
(`ServerHoursAreKept`), and the server's samples lag behind by the poll that runs and by those
that ended early (`ServerSamplesLag`). Nothing is later than the clock (`NothingLater`), which is why a
window needs no end.

- `TypesHold`, `BooksHold`;
- `TotalsAreHistoryHolds`: the windows lie within what is kept, whole hours of the long one included;
- `PointsSumToTotalsHolds`: a minute or an hour of the clock that a window cuts belongs to the chart with
  the part that is in the window, so the groups of a chart are a partition of the rows of its heading.

The proof refuted one assumption: that `None` is not a number does not keep it apart from a poll under
way, which is a record. `NoneAssumption` of the module now says that.

**`Sums`** has what both of them need of `SumFunctionOnSet`: what one more element, a changed
value, two functions, two parts and a partition into groups (`SumGroups`) do to a sum. A fold over a
set chooses its order, so each of these is an induction over finite sets. The induction theorems of the
library take a predicate as a parameter; `SubsetInduction` takes the set of the subsets that have
the property in its place, and follows from the strict subsets of a finite set being well founded.

**`AwgProofs`**, first half: `AwgTunnel`. `BindingsAreRoutes` says nothing of a `replaceRoutes` that is half way, where
the new bindings are still local variables. The invariant `Sound` adds `KeepsSound`: what
`keep` holds is tracked, and in the kernel as long as there is an interface, every new binding is
kept, and between operations there is nothing to keep; and `Fresh`: nothing is tracked while
the interface of an apply has yet to appear.

- `TypesHold`, `RoutesStayWithinConfig`, `BindingsAreRoutesHolds`;
- `UpIsConfiguredHolds`, by `Configured`: where apply returns early because the configuration is up,
  the interface carries it; `PageListsKernelHolds`: the page of routes lists what the kernel has;
- `AnnouncedAddressIsKeptHolds`, by `KeptSoFar`, which says it of the nodes already dealt with;
- `TunnelIsAgent`: `Spec` implements `AwgAgent!AgentSpec`, each step by one action or a stutter.

Second half: `AwgConfig`. Several tasks have requests in one queue, and a task that gives up goes on while
the agent still has its request. The run has two tasks and one fault; the proof has any number of each,
so the queue has no bound. Its invariant has three parts.

- `AnswersMatch`: a task waits exactly while one request of the queue is its own, and that request is as
  the task sent it. A request that was given up stays and is nobody's. This is what lets `Answer` hand a result
  to the task at the head of the queue and set no more than its step.
- `KnowsConf`: who asks for a status or an apply has a configuration in hand. What a task sends is what it read
  or wrote several steps before, so this is said of the task at each of its steps and of each request.
- `WorksOnFirst`: what the agent has begun is the first request of its queue, with its configuration or its
  list of nodes. An apply that ends well can then only come up with the configuration it was begun for.

From it follow

- `ConfigTypesHold`, `AnswersMatchHolds`;
- `UsableIsWholeHolds`: the tunnel is usable only with a configuration that can be applied, and without a
  configuration no node has a route, not even one that a poll prepared (`PreparePoll`);
- `ClientsKeepToAgent`: `ConfigSpec` implements `AgentSpec`, so that `AwgConfig` lets the agent do nothing that
  `AwgAgent` does not promise. `TunnelIsAgent` is the other side of it.

**`ServicesProofs`**, first half: `GeoEnrich`. The run has one address a peer can connect from beside none; the proof has any
number, so a peer may move to another address at every point between a lookup and its
result. `GeoBelongsToEndpoint` says nothing of the rows a poll holds in memory. `PollPlaces` says
it of them, `PollKnows` that the row still has the endpoint the poll has read (enrichments
change places only), and `OwnWaits` that a server has a poll or its enrichment under way. What
`snapshotGeo` returns belongs to the endpoint it is asked for (`SnapshotMatches`).

- `TypesHold`, with `RunsOK`: the lookups under way are those some enrichment waits for;
- `GeoBelongsToEndpointHolds`, by `PollPlaces`.

Second half: the block check. The streams of the run have three replies; `QueryFollowsReferenceHolds` is about
streams of any length. `dedupeProbeVotes` and the choice of the winner are folds over a sequence, and the
induction over sequences is one of those that take a predicate. The proof goes around it: a fold over the
indices of a sequence is a function on sets of indices, it exists for every length (`IndexFoldExists`, by
induction over a set of numbers, `NatInSet` of `Sums`), and what it computes of the first n indices is again
such an induction. So the votes that are kept are the last of each scanner and those without
one (`KeptAreLast`), there are as many as the reference counts (`KeptCounts`), and the winner is the first
of the most named kinds (`WinnerIsFirstMost`, `ChosenIsMostNamed`).

- `QueryFollowsReferenceHolds`, and `VerdictRestsOnWholeProbeHolds`, which says it of every probe of a refresh;
- `DueHostsInOrder`: `dueHostOrder` lists each due host once and in order. That an order exists is an
  induction over the finite set of hosts; without it the CHOOSE of the model would be anything;
- `CheckTypesHold`, `VerdictIsAboutItsHostHolds`, `VerdictsAreOnlyRenewedHolds`, by `CheckInv`. The write at
  the end of a refresh goes to the rows that had the host when the refresh listed them, however long ago. What
  makes it right is said of the refresh under way: who changed the host since then is marked
  (`MovesSeen`), the answer in hand is no older than the verdict it replaces (`VerdictHeld`), the host it is
  about is remembered (`DueKnown`), and no other refresh of the process writes in between (`OneRefresh`).

Proving it found that two rules of `resolveBadgeStatus` overlapped in the model, a CASE whose guards both
hold when open kinds and the register disagree, which the code decides by their order; the model now has the
code's order.

**`SshSessionsProofs`**. `ReadsOwnServer` needs `OpenersConnect` and `OneOpener` (a poll that connects
owns a client of its own, with its configuration) and `Settled` (who has a session does not have
one that is still to be connected). Nearly every step only ends clients and takes polls on or
away; `Quieter` proves those together.

- `TypesHold`, `ReadsOwnServerHolds`: for any number of polls;
- `NoStraySessionHolds`, `EveryConnectIsKnownHolds`, for `AtMostTwoPolls`, by `Known`: the registry has a
  session or a connect and never both (`EntryOrInflight`), what it has under way does connect
  (`InflightConnects`), a connect has its poll, and at most one poll waits for it
  (`OneWaits`). The last one is where three polls differ, and where section 5 has them fail.

**Only model-checked**: liveness and all that needs fairness (`SomePollerGetsEpoch`,
`EveryServerIsPolled`, `EveryPollEnds`, `EveryOperationEnds`, `AgentFollowsRow`, `RoutesFollowNodes`,
`EveryHostIsAsked`, `PlaceIsFound`), which TLAPS does not do. Every invariant and every action property of the
passing runs is proved, and so are the refinements.

## 7. What is not modelled

- **Docker agent**: reads one container for each request and keeps nothing. What the collector
  accepts of its answer is in `PollOutput`.
- **ICMP probe and resolved addresses**: each poll writes them anew; the outcome of a probe is a
  rule of one step (section 5).
- **Identity**: Better Auth keeps users and sessions; this repository's own part is one check,
  whether there is a user, before the first one is created.
- **Pages, charts and views**: they show what the tables say; the sums they show are in
  `TrafficWindows`, what they say of the tunnel in `NavState` of `AwgConfig`: its five answers, of which
  `AgentFollowsRow` is about those that follow a whole status. `unreachable` (no status within 500 ms),
  a status without the tunnel and `idle` come and go with requests and handshakes.
- **Health**: what it says of the lease (`pollerOwnsLock` of `PollerLease`) is held against the code by
  `lease_wedge`; the age of the last poll is left out.
- Encryption of credentials, host key verification, stream limits, and the parsing of
  configurations, of `docker ps` and of the answers of GeoIP are left out as pure checks. The columns
  of a server row that a poll or a probe writes are left out, except `last_poll_at`.

## 8. What could come next

1. `host` as a column of the server row in `PollCommit` with `updateServerAccess`, for what a poll of the
   old host writes.
