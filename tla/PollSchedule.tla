---------------------------- MODULE PollSchedule ----------------------------
(***************************************************************************)
(* When a server is polled, and by how many polls at once: the rest of     *)
(* tick() after ensureLease, the queues of poller-queues.ts, isServerPoll- *)
(* Due, the frame of pollServer, and the life of the server row from       *)
(* createAndOnboardServer to deleteServer, which run in another process    *)
(* (gate-app) than the poller.                                             *)
(*                                                                         *)
(* All servers of the model have one host: the unique index on (host,      *)
(* port) lets one row of them exist at a time, and the id of a row is      *)
(* never used again.  Time is counted in poll intervals of 15 seconds.     *)
(***************************************************************************)
EXTENDS Naturals, FiniteSets

CONSTANTS
    Servers,     \* row ids
    Jobs,        \* slots for jobs that wait or run
    None,        \* SQL NULL, and no server
    Unclaimed,   \* UNCLAIMED_PERSIST_SEC in intervals
    MaxEpoch     \* bound: epochs of the lease

ASSUME NoneAssumption == None \notin Nat \cup Servers
ASSUME UnclaimedAssumption == Unclaimed \in Nat /\ Unclaimed > 1
ASSUME BoundsAssumption == MaxEpoch \in Nat

VARIABLES
    exists,     \* the rows of "servers"
    lastPoll,   \* [Servers -> intervals since last_poll_at, up to 1, or None]
    lastSeen,   \* [Servers -> intervals since vpn_instances.last_seen_at, or None]
    onboard,    \* [Servers -> new, reading, persisting or over]
    epoch,      \* getPollerEpoch(), 0 for null
    issued,     \* epochs issued so far
    fired,      \* the tick of this interval has begun
    tick,       \* idle, or listed while the list of servers is being handled
    listed,     \* the servers of that list
    listedDue,  \* those that were due
    queue,      \* [Servers -> number of its current queue, 0 for none]
    queues,     \* queues made so far
    job         \* [Jobs -> what the slot does, for which server, in which queue]

rows == <<exists, lastPoll, lastSeen>>
lease == <<epoch, issued>>
ticking == <<fired, tick, listed, listedDue>>
work == <<queue, queues, job>>
vars == <<rows, onboard, lease, ticking, work>>

NoJob == [at |-> "free", server |-> None, queue |-> 0, epoch |-> 0]
Stages == {"free", "waiting", "started", "polling", "writing"}

TypeOK ==
    /\ exists \subseteq Servers
    /\ lastPoll \in [Servers -> 0..1 \cup {None}]
    /\ lastSeen \in [Servers -> 0..Unclaimed \cup {None}]
    /\ onboard \in [Servers -> {"new", "reading", "persisting", "over"}]
    /\ issued \in 0..MaxEpoch
    /\ epoch \in 0..issued
    /\ fired \in BOOLEAN
    /\ tick \in {"idle", "listed"}
    /\ listed \subseteq Servers /\ listedDue \subseteq listed
    /\ queues \in Nat
    /\ queue \in [Servers -> 0..queues]
    /\ job \in [Jobs -> [at : Stages, server : Servers \cup {None},
                         queue : 0..queues, epoch : 0..issued]]

Init ==
    /\ exists = {}
    /\ lastPoll = [s \in Servers |-> None]
    /\ lastSeen = [s \in Servers |-> None]
    /\ onboard = [s \in Servers |-> "new"]
    /\ epoch = 0
    /\ issued = 0
    /\ fired = FALSE
    /\ tick = "idle"
    /\ listed = {}
    /\ listedDue = {}
    /\ queue = [s \in Servers |-> 0]
    /\ queues = 0
    /\ job = [j \in Jobs |-> NoJob]

\* Mutant: a row that was never polled is due at once.
DueWhenNeverPolled(s) == lastPoll[s] = None \/ lastPoll[s] >= 1

\* Mutant: a row that was never polled is never due.
DueOnlyOncePolled(s) == lastPoll[s] # None /\ lastPoll[s] >= 1

\* A polled server is due after an interval.  One that was never polled is
\* left to its onboarding until the rows that persistPoll wrote for it have
\* been there for UNCLAIMED_PERSIST_SEC.
isServerPollDue(s) ==
    IF lastPoll[s] # None THEN lastPoll[s] >= 1
    ELSE lastSeen[s] # None /\ lastSeen[s] >= Unclaimed

DropRow(s) ==
    /\ exists' = exists \ {s}
    /\ lastPoll' = [lastPoll EXCEPT ![s] = None]
    /\ lastSeen' = [lastSeen EXCEPT ![s] = None]

-----------------------------------------------------------------------------
(* gate-app *)

\* createAndOnboardServer inserts the row; the unique index wants the host free.
CreateServer(s) ==
    /\ onboard[s] = "new"
    /\ exists = {}
    /\ exists' = {s}
    /\ onboard' = [onboard EXCEPT ![s] = "reading"]
    /\ UNCHANGED <<lastPoll, lastSeen, lease, ticking, work>>

\* The VPN answered: persistPoll begins with the upsert of the instance.  When
\* the row is gone persistPoll returns silently.
OnboardPersist(s) ==
    /\ onboard[s] = "reading"
    /\ onboard' = [onboard EXCEPT ![s] = "persisting"]
    /\ lastSeen' = [lastSeen EXCEPT ![s] = IF s \in exists THEN 0 ELSE None]
    /\ UNCHANGED <<exists, lastPoll, lease, ticking, work>>

\* lastPollAt is written after persistPoll; on a row that is gone this throws.
OnboardDone(s) ==
    /\ onboard[s] = "persisting"
    /\ onboard' = [onboard EXCEPT ![s] = "over"]
    /\ lastPoll' = [lastPoll EXCEPT ![s] = IF s \in exists THEN 0 ELSE None]
    /\ UNCHANGED <<exists, lastSeen, lease, ticking, work>>

\* Reading or persisting fails, and the row is deleted again.
OnboardFails(s) ==
    /\ onboard[s] \in {"reading", "persisting"}
    /\ onboard' = [onboard EXCEPT ![s] = "over"]
    /\ DropRow(s)
    /\ UNCHANGED <<lease, ticking, work>>

\* gate-app dies: nobody deletes the row.
AppCrash(s) ==
    /\ onboard[s] \in {"reading", "persisting"}
    /\ onboard' = [onboard EXCEPT ![s] = "over"]
    /\ UNCHANGED <<rows, lease, ticking, work>>

\* deleteServer; releaseServerRuntime touches the (empty) queues of gate-app.
DeleteServer(s) ==
    /\ s \in exists
    /\ DropRow(s)
    /\ UNCHANGED <<onboard, lease, ticking, work>>

-----------------------------------------------------------------------------
(* The lease (module PollerLease) and the process *)

\* Mutant: the acquiring statement does not count the epoch up.
GetLeaseUncounted ==
    /\ epoch = 0
    /\ issued < MaxEpoch
    /\ epoch' = issued + 1
    /\ UNCHANGED <<rows, onboard, issued, ticking, work>>

GetLease ==
    /\ epoch = 0
    /\ issued < MaxEpoch
    /\ issued' = issued + 1
    /\ epoch' = issued + 1
    /\ UNCHANGED <<rows, onboard, ticking, work>>

\* The lease is lost and will be had again.
LoseLease ==
    /\ epoch # 0
    /\ issued < MaxEpoch
    /\ epoch' = 0
    /\ UNCHANGED <<rows, onboard, issued, ticking, work>>

\* The process dies, and with it its queues and its jobs.
PollerCrash ==
    /\ issued < MaxEpoch
    /\ epoch' = 0
    /\ tick' = "idle"
    /\ listed' = {}
    /\ listedDue' = {}
    /\ queue' = [s \in Servers |-> 0]
    /\ job' = [j \in Jobs |-> NoJob]
    /\ UNCHANGED <<rows, onboard, issued, fired, queues>>
-----------------------------------------------------------------------------
(* tick(), once the lease is there.  That it may have the lease without an  *)
(* epoch is in PollerLease.                                                 *)

\* db.server.findMany; the age of each row is compared with the clock as soon
\* as the answer is there.
TickList ==
    /\ epoch # 0
    /\ ~fired /\ tick = "idle"
    /\ fired' = TRUE
    /\ tick' = "listed"
    /\ listed' = exists
    /\ listedDue' = {s \in exists : isServerPollDue(s)}
    /\ UNCHANGED <<rows, onboard, lease, work>>

pruneQueues(keep) == [s \in Servers |-> IF s \in keep THEN queue[s] ELSE 0]

\* PQueue.clear drops what waits in a queue, what runs in it goes on.
Cleared(keep) ==
    [j \in Jobs |-> IF job[j].at = "waiting" /\ job[j].server \notin keep
                    THEN NoJob ELSE job[j]]

\* The list is handled in one go: pruneQueues, then queueFor and add for what
\* was due.  A full set of slots stands for a longer queue; one host means
\* that at most one server is due.
TickQueue ==
    /\ tick = "listed"
    /\ tick' = "idle"
    /\ listed' = {}
    /\ listedDue' = {}
    /\ LET kept == pruneQueues(listed)
           jobs == Cleared(listed)
           slots == {j \in Jobs : jobs[j] = NoJob}
       IN  \/ /\ listedDue = {} \/ slots = {}
              /\ queue' = kept
              /\ job' = jobs
              /\ UNCHANGED queues
           \/ \E s \in listedDue, j \in slots :
              /\ queues' = IF kept[s] = 0 THEN queues + 1 ELSE queues
              /\ queue' = IF kept[s] = 0 THEN [kept EXCEPT ![s] = queues + 1]
                                         ELSE kept
              /\ job' = [jobs EXCEPT ![j] =
                            [at |-> "waiting", server |-> s,
                             queue |-> queue'[s], epoch |-> epoch]]
    /\ UNCHANGED <<rows, onboard, lease, fired>>

-----------------------------------------------------------------------------
(* A job of a queue, and the poll it makes *)

Running(j) == job[j].at \in {"started", "polling", "writing"}

Goto(j, stage) == job' = [job EXCEPT ![j].at = stage]
Free(j) == job' = [job EXCEPT ![j] = NoJob]

\* canCommitPoll of a process that is not stopping
CanCommit(j) == epoch # 0 /\ job[j].epoch = epoch

\* Mutant: a queue without a limit.
StartJobAtOnce(j) ==
    /\ job[j].at = "waiting"
    /\ IF job[j].epoch = epoch THEN Goto(j, "started") ELSE Free(j)
    /\ UNCHANGED <<rows, onboard, lease, ticking, queue, queues>>

\* concurrency: 1.  A job of another epoch returns at once.  (Which of the
\* jobs that wait is first makes no difference.)
StartJob(j) ==
    /\ job[j].at = "waiting"
    /\ \A k \in Jobs : Running(k) => job[k].queue # job[j].queue
    /\ IF job[j].epoch = epoch THEN Goto(j, "started") ELSE Free(j)
    /\ UNCHANGED <<rows, onboard, lease, ticking, queue, queues>>

\* Mutant: only the presence of the row is checked again.
RecheckRow(j) ==
    /\ job[j].at = "started"
    /\ IF job[j].server \in exists THEN Goto(j, "polling") ELSE Free(j)
    /\ UNCHANGED <<rows, onboard, lease, ticking, queue, queues>>

\* The row is read again, and pollServer called when it is still there and due.
Recheck(j) ==
    /\ job[j].at = "started"
    /\ LET s == job[j].server
       IN  IF s \in exists /\ isServerPollDue(s) THEN Goto(j, "polling") ELSE Free(j)
    /\ UNCHANGED <<rows, onboard, lease, ticking, queue, queues>>

\* The VPN answered: the fence, and the upsert of the instance.
PollAnswers(j) ==
    LET s == job[j].server
    IN  /\ job[j].at = "polling"
        /\ IF CanCommit(j)
           THEN /\ Goto(j, "writing")
                /\ lastSeen' = [lastSeen EXCEPT ![s] = IF s \in exists THEN 0 ELSE None]
           ELSE Free(j) /\ UNCHANGED lastSeen
        /\ UNCHANGED <<exists, lastPoll, onboard, lease, ticking, queue, queues>>

\* server.update after persistPoll; on a row that is gone it throws P2025.
PollDone(j) ==
    LET s == job[j].server
    IN  /\ job[j].at = "writing"
        /\ Free(j)
        /\ lastPoll' = [lastPoll EXCEPT ![s] = IF s \in exists THEN 0 ELSE None]
        /\ UNCHANGED <<exists, lastSeen, onboard, lease, ticking, queue, queues>>

\* Polling or persisting fails: the error is written, behind the same fence.
PollFails(j) ==
    LET s == job[j].server
    IN  /\ job[j].at \in {"polling", "writing"}
        /\ Free(j)
        /\ lastPoll' = IF CanCommit(j) /\ s \in exists
                       THEN [lastPoll EXCEPT ![s] = 0] ELSE lastPoll
        /\ UNCHANGED <<exists, lastSeen, onboard, lease, ticking, queue, queues>>

-----------------------------------------------------------------------------

Older(age, limit) == IF age = None \/ age = limit THEN age ELSE age + 1

\* An interval goes by.  Two assumptions: the list of servers is answered
\* within an interval, and an onboarding persists within UNCLAIMED_PERSIST_SEC.
TimePasses ==
    /\ tick = "idle"
    /\ \A s \in exists : onboard[s] = "persisting" => lastSeen[s] + 1 < Unclaimed
    /\ fired' = FALSE
    /\ lastPoll' = [s \in Servers |-> Older(lastPoll[s], 1)]
    /\ lastSeen' = [s \in Servers |-> Older(lastSeen[s], Unclaimed)]
    /\ UNCHANGED <<exists, onboard, lease, tick, listed, listedDue, work>>

AppStep(s) ==
    \/ CreateServer(s) \/ OnboardPersist(s) \/ OnboardDone(s) \/ OnboardFails(s)
    \/ AppCrash(s) \/ DeleteServer(s)

JobStep(j) ==
    \/ StartJob(j) \/ Recheck(j) \/ PollAnswers(j) \/ PollDone(j) \/ PollFails(j)

Next ==
    \/ GetLease \/ LoseLease \/ PollerCrash \/ TickList \/ TickQueue \/ TimePasses
    \/ \E s \in Servers : AppStep(s)
    \/ \E j \in Jobs : JobStep(j)

Spec == Init /\ [][Next]_vars

\* The clock and the interval timer go on; a statement is answered or fails; a
\* poll ends, which EveryPollEnds of SshSessions promises unless a connect is
\* lost; the lease of a dead process expires.
Fairness ==
    /\ WF_vars(TimePasses)
    /\ WF_vars(GetLease)
    /\ WF_vars(TickList)
    /\ WF_vars(TickQueue)
    /\ \A s \in Servers : WF_vars(OnboardDone(s))
    /\ \A j \in Jobs : WF_vars(JobStep(j))

FairSpec == Spec /\ Fairness

-----------------------------------------------------------------------------
(* Properties *)

Polling(s) == {j \in Jobs : job[j].server = s /\ job[j].at \in {"polling", "writing"}}

\* A server is polled by one job at a time, also when its queue was pruned
\* under a running job, and across a lease that was lost and had again: what
\* computeDelta and planPeerRemovals compare with is not changed under them.
AtMostOnePollPerServer == \A s \in Servers : Cardinality(Polling(s)) <= 1

\* The poller leaves a server alone while its onboarding reads and persists,
\* in another process and without the lease.
OnboardExclusive ==
    \A s \in exists : onboard[s] \in {"reading", "persisting"} => Polling(s) = {}

\* The jobs that piled up behind a long poll do not poll again what it has
\* just polled: no poll begins in the interval in which another one ended.
NoBackToBackPolls ==
    [][\A s \in Servers : Polling(s) = {} /\ Polling(s)' # {} => lastPoll[s] # 0]_vars

\* A row that was ever persisted is polled again and again until it is
\* deleted, also the one whose onboarding died between persistPoll and
\* lastPollAt, and whatever became of the poller in between.  That polls end is
\* taken from SshSessions: one whose connect is lost keeps its queue for itself.
EveryServerIsPolled ==
    \A s \in Servers :
        s \in exists /\ (lastPoll[s] # None \/ lastSeen[s] # None)
            ~> s \notin exists \/ lastPoll[s] = 0
=============================================================================
