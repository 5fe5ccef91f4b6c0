---------------------------- MODULE PollerLease ----------------------------
(***************************************************************************)
(* The lease that decides which poller process may write poll results      *)
(* (src/server/poller.ts, poller-runtime.ts, lib/ssh/errors.ts).           *)
(*                                                                         *)
(* The row "poller_lease" holds an owner id, an expiry and an epoch.       *)
(* Every 15 seconds a poller fires a tick, which renews the row or, when   *)
(* it has expired, takes it over and raises the epoch.  setInterval does   *)
(* not wait for the previous tick, so ticks of one process overlap.  A     *)
(* poll job remembers the epoch it was queued under; canCommitPoll lets it *)
(* write only while the process still believes in that epoch.              *)
(*                                                                         *)
(* An UPDATE is two steps: the database executes it, then the process      *)
(* handles the answer.  The answer may be lost, the process may crash.     *)
(* One unit of time is one poll interval (15 s); the lease lives Ttl units.*)
(***************************************************************************)
EXTENDS Naturals

CONSTANTS
    Pollers,     \* process slots: at most one live poller process in each
    Gone,        \* owner_id when no live process has that id (NULL at first)
    Ticks,       \* ticks of one process that may be in progress at once
    Ttl,         \* POLLER_LEASE_TTL_SEC / POLL_INTERVAL_SEC
    MaxEpoch,    \* bound: lease acquisitions
    MaxFaults    \* bound: statements that failed, answers that were lost

ASSUME GoneAssumption == Gone \notin Pollers
ASSUME TtlAssumption == Ttl \in Nat \ {0}
ASSUME BoundsAssumption == MaxEpoch \in Nat /\ MaxFaults \in Nat

VARIABLES
    owner,      \* the process poller_lease.owner_id names, or Gone
    age,        \* intervals since expires_at was last set, up to Ttl + 1
    dbEpoch,    \* poller_lease.epoch
    status,     \* [Pollers -> down, running or stopping]
    ownsLock,   \* pollerRuntime.ownsLock
    epoch,      \* pollerRuntime.epoch; 0 stands for null
    pc,         \* [Pollers \X Ticks -> what the tick waits for]
    got,        \* [Pollers \X Ticks -> RETURNING epoch under way, 0 for none]
    jobPhase,   \* [Pollers -> none, queued, polling or writing]
    jobEpoch,   \* the epoch the job was queued under
    faults,     \* faults so far
    retired     \* history: epochs given up or never delivered

leaseRow == <<owner, age, dbEpoch>>
runtime == <<ownsLock, epoch>>
ticking == <<pc, got>>
jobs == <<jobPhase, jobEpoch>>
vars == <<leaseRow, status, runtime, ticking, jobs, faults, retired>>

\* Two UPDATEs still to be executed, three answers to be handled, and the
\* rest of a tick whose ensureLease returned true.
Pc == {"idle", "renew", "renewed", "acquire", "acquired", "denied", "leased"}

TypeOK ==
    /\ owner \in Pollers \cup {Gone}
    /\ age \in 0..Ttl + 1
    /\ dbEpoch \in 0..MaxEpoch
    /\ status \in [Pollers -> {"down", "running", "stopping"}]
    /\ ownsLock \in [Pollers -> BOOLEAN]
    /\ epoch \in [Pollers -> 0..dbEpoch]
    /\ pc \in [Pollers \X Ticks -> Pc]
    /\ got \in [Pollers \X Ticks -> 0..dbEpoch]
    /\ jobPhase \in [Pollers -> {"none", "queued", "polling", "writing"}]
    /\ jobEpoch \in [Pollers -> 0..dbEpoch]
    /\ faults \in 0..MaxFaults
    /\ retired \subseteq 1..dbEpoch

-----------------------------------------------------------------------------
(* The migration inserts the row with no owner, epoch 0 and an expiry in   *)
(* the past, so ensureLeaseRow's upsert finds it and changes nothing.      *)

Init ==
    /\ owner = Gone
    /\ age = Ttl + 1
    /\ dbEpoch = 0
    /\ status = [p \in Pollers |-> "down"]
    /\ ownsLock = [p \in Pollers |-> FALSE]
    /\ epoch = [p \in Pollers |-> 0]
    /\ pc = [x \in Pollers \X Ticks |-> "idle"]
    /\ got = [x \in Pollers \X Ticks |-> 0]
    /\ jobPhase = [p \in Pollers |-> "none"]
    /\ jobEpoch = [p \in Pollers |-> 0]
    /\ faults = 0
    /\ retired = {}

\* A renewal lies anywhere within its interval, so after k ends of an interval
\* the time that went by is more than k - 1 intervals and less than k + 1: with
\* age Ttl the lease may have expired already, with a greater one it has.
MayExpire == age >= Ttl
Expired == age > Ttl

\* getPollerEpoch
PollerEpoch(p) == IF ownsLock[p] THEN epoch[p] ELSE 0

\* canCommitPoll, with the arguments canWritePoll gives it
CanCommitPoll(p) ==
    /\ status[p] = "running"
    /\ jobEpoch[p] # 0
    /\ PollerEpoch(p) # 0
    /\ jobEpoch[p] = PollerEpoch(p)

\* The epochs p would take out of circulation by ceasing to exist.
InHand(p) == ({epoch[p]} \cup {got[<<p, t>>] : t \in Ticks}) \ {0}

-----------------------------------------------------------------------------
(* Processes *)

\* worker/main.ts starts a process: its module state is fresh, and its owner
\* id is one that the row cannot hold.
StartPoller(p) ==
    /\ status[p] = "down"
    /\ status' = [status EXCEPT ![p] = "running"]
    /\ UNCHANGED <<leaseRow, runtime, ticking, jobs, faults, retired>>

\* SIGTERM: stopPoller sets stopping and clears the timer, then waits for
\* the block check to stop.
BeginStop(p) ==
    /\ status[p] = "running"
    /\ status' = [status EXCEPT ![p] = "stopping"]
    /\ UNCHANGED <<leaseRow, runtime, ticking, jobs, faults, retired>>

\* The process ends: a crash, the 15 s failsafe, or the exit that follows
\* stopPoller.  Nothing writes the row: the id it may hold is from now on the
\* id of no live process, and the lease has to expire.
Exit(p) ==
    /\ status[p] # "down"
    /\ status' = [status EXCEPT ![p] = "down"]
    /\ owner' = IF owner = p THEN Gone ELSE owner
    /\ ownsLock' = [ownsLock EXCEPT ![p] = FALSE]
    /\ epoch' = [epoch EXCEPT ![p] = 0]
    /\ pc' = [x \in Pollers \X Ticks |-> IF x[1] = p THEN "idle" ELSE pc[x]]
    /\ got' = [x \in Pollers \X Ticks |-> IF x[1] = p THEN 0 ELSE got[x]]
    /\ jobPhase' = [jobPhase EXCEPT ![p] = "none"]
    /\ jobEpoch' = [jobEpoch EXCEPT ![p] = 0]
    /\ retired' = retired \cup InHand(p)
    /\ UNCHANGED <<age, dbEpoch, faults>>

-----------------------------------------------------------------------------
(* ensureLease: what the database does *)

SetTick(p, t, at) == pc' = [pc EXCEPT ![<<p, t>>] = at]

\* The interval timer fires whether or not the previous tick is over (and
\* soon after the previous time, when the event loop was held up).
StartTick(p, t) ==
    /\ status[p] = "running"
    /\ pc[<<p, t>>] = "idle"
    /\ SetTick(p, t, "renew")
    /\ UNCHANGED <<leaseRow, status, runtime, got, jobs, faults, retired>>

\* Mutant: the WHERE clause forgets owner_id.
RenewAnybodys(p, t) ==
    /\ pc[<<p, t>>] = "renew"
    /\ age' = 0
    /\ SetTick(p, t, "renewed")
    /\ UNCHANGED <<owner, dbEpoch, status, runtime, got, jobs, faults, retired>>

\* UPDATE ... WHERE owner_id = mine.  The expiry is not looked at.  When no
\* row matches, ensureLease goes on to the second UPDATE.
Renew(p, t) ==
    /\ pc[<<p, t>>] = "renew"
    /\ \/ /\ owner = p
          /\ age' = 0
          /\ SetTick(p, t, "renewed")
       \/ /\ owner # p
          /\ SetTick(p, t, "acquire")
          /\ UNCHANGED age
    /\ UNCHANGED <<owner, dbEpoch, status, runtime, got, jobs, faults, retired>>

\* Mutant: the WHERE clause forgets expires_at.
TakeOverAnytime(p, t) ==
    /\ pc[<<p, t>>] = "acquire"
    /\ dbEpoch < MaxEpoch
    /\ owner' = p
    /\ age' = 0
    /\ dbEpoch' = dbEpoch + 1
    /\ got' = [got EXCEPT ![<<p, t>>] = dbEpoch + 1]
    /\ SetTick(p, t, "acquired")
    /\ UNCHANGED <<status, runtime, jobs, faults, retired>>

\* Mutant: the answer is counted up, the column is not.
TakeOverUncounted(p, t) ==
    /\ pc[<<p, t>>] = "acquire"
    /\ MayExpire
    /\ owner' = p
    /\ age' = 0
    /\ got' = [got EXCEPT ![<<p, t>>] = dbEpoch + 1]
    /\ SetTick(p, t, "acquired")
    /\ UNCHANGED <<dbEpoch, status, runtime, jobs, faults, retired>>

\* UPDATE ... WHERE expires_at < now() RETURNING epoch: the row is free.
TakeOver(p, t) ==
    /\ pc[<<p, t>>] = "acquire"
    /\ MayExpire
    /\ dbEpoch < MaxEpoch
    /\ owner' = p
    /\ age' = 0
    /\ dbEpoch' = dbEpoch + 1
    /\ got' = [got EXCEPT ![<<p, t>>] = dbEpoch + 1]
    /\ SetTick(p, t, "acquired")
    /\ UNCHANGED <<status, runtime, jobs, faults, retired>>

\* The same UPDATE when somebody else's lease has not expired.
RefuseTakeOver(p, t) ==
    /\ pc[<<p, t>>] = "acquire"
    /\ ~Expired
    /\ SetTick(p, t, "denied")
    /\ UNCHANGED <<leaseRow, status, runtime, got, jobs, faults, retired>>

-----------------------------------------------------------------------------
(* ensureLease: what the process does with the answers *)

\* Mutant: the epoch is read from the row after the renewal.
HandleRenewedRereads(p, t) ==
    /\ pc[<<p, t>>] = "renewed"
    /\ ownsLock' = [ownsLock EXCEPT ![p] = TRUE]
    /\ epoch' = [epoch EXCEPT ![p] = dbEpoch]
    /\ SetTick(p, t, "leased")
    /\ UNCHANGED <<leaseRow, status, got, jobs, faults, retired>>

\* One row renewed: ownsLock is set, the epoch is left as it is.
HandleRenewed(p, t) ==
    /\ pc[<<p, t>>] = "renewed"
    /\ ownsLock' = [ownsLock EXCEPT ![p] = TRUE]
    /\ SetTick(p, t, "leased")
    /\ UNCHANGED <<leaseRow, status, epoch, got, jobs, faults, retired>>

\* Mutant: no RETURNING; the epoch is read from the row afterwards.
HandleAcquiredRereads(p, t) ==
    /\ pc[<<p, t>>] = "acquired"
    /\ ownsLock' = [ownsLock EXCEPT ![p] = TRUE]
    /\ epoch' = [epoch EXCEPT ![p] = dbEpoch]
    /\ got' = [got EXCEPT ![<<p, t>>] = 0]
    /\ SetTick(p, t, "leased")
    /\ UNCHANGED <<leaseRow, status, jobs, faults, retired>>

\* A row came back: this process owns the lease under a new epoch.
HandleAcquired(p, t) ==
    /\ pc[<<p, t>>] = "acquired"
    /\ ownsLock' = [ownsLock EXCEPT ![p] = TRUE]
    /\ epoch' = [epoch EXCEPT ![p] = got[<<p, t>>]]
    /\ got' = [got EXCEPT ![<<p, t>>] = 0]
    /\ retired' = retired \cup ({epoch[p]} \ {0})
    /\ SetTick(p, t, "leased")
    /\ UNCHANGED <<leaseRow, status, jobs, faults>>

\* No row came back: the lease is somebody else's.
HandleDenied(p, t) ==
    /\ pc[<<p, t>>] = "denied"
    /\ ownsLock' = [ownsLock EXCEPT ![p] = FALSE]
    /\ epoch' = [epoch EXCEPT ![p] = 0]
    /\ retired' = retired \cup ({epoch[p]} \ {0})
    /\ SetTick(p, t, "idle")
    /\ UNCHANGED <<leaseRow, status, got, jobs, faults>>

\* A statement fails and was not executed; tick's promise rejects.
StatementFails(p, t) ==
    /\ pc[<<p, t>>] \in {"renew", "acquire"}
    /\ faults < MaxFaults
    /\ faults' = faults + 1
    /\ SetTick(p, t, "idle")
    /\ UNCHANGED <<leaseRow, status, runtime, got, jobs, retired>>

\* A statement was executed and its answer never came; tick rejects as well.
AnswerLost(p, t) ==
    /\ pc[<<p, t>>] \in {"renewed", "acquired", "denied"}
    /\ faults < MaxFaults
    /\ faults' = faults + 1
    /\ SetTick(p, t, "idle")
    /\ got' = [got EXCEPT ![<<p, t>>] = 0]
    /\ retired' = retired \cup ({got[<<p, t>>]} \ {0})
    /\ UNCHANGED <<leaseRow, status, runtime, jobs>>

-----------------------------------------------------------------------------
(* The rest of the tick and the jobs it queues *)

\* The server is due and its queue empty: a job is queued under the epoch of
\* this moment, several awaits after ensureLease.
QueueJob(p, t) ==
    /\ pc[<<p, t>>] = "leased"
    /\ jobPhase[p] = "none"
    /\ jobPhase' = [jobPhase EXCEPT ![p] = "queued"]
    /\ jobEpoch' = [jobEpoch EXCEPT ![p] = PollerEpoch(p)]
    /\ SetTick(p, t, "idle")
    /\ UNCHANGED <<leaseRow, status, runtime, got, faults, retired>>

\* The server is not due, or a job for it is there already.
QueueNothing(p, t) ==
    /\ pc[<<p, t>>] = "leased"
    /\ SetTick(p, t, "idle")
    /\ UNCHANGED <<leaseRow, status, runtime, got, jobs, faults, retired>>

EndJob(p) ==
    /\ jobPhase' = [jobPhase EXCEPT ![p] = "none"]
    /\ jobEpoch' = [jobEpoch EXCEPT ![p] = 0]

JobFrame == UNCHANGED <<leaseRow, status, runtime, ticking, faults, retired>>

\* The queue reaches the job, which goes on only if the epoch is the same.
BeginJob(p) ==
    /\ jobPhase[p] = "queued"
    /\ \/ /\ status[p] = "running"
          /\ PollerEpoch(p) = jobEpoch[p]
          /\ jobPhase' = [jobPhase EXCEPT ![p] = "polling"]
          /\ UNCHANGED jobEpoch
       \/ /\ status[p] # "running" \/ PollerEpoch(p) # jobEpoch[p]
          /\ EndJob(p)
    /\ JobFrame

\* The host has answered, or failed: canWritePoll is asked once.
CheckFence(p) ==
    /\ jobPhase[p] = "polling"
    /\ \/ /\ CanCommitPoll(p)
          /\ jobPhase' = [jobPhase EXCEPT ![p] = "writing"]
          /\ UNCHANGED jobEpoch
       \/ /\ ~CanCommitPoll(p)
          /\ EndJob(p)
    /\ JobFrame

\* persistPoll and the updates of the server row are over.
FinishJob(p) ==
    /\ jobPhase[p] = "writing"
    /\ EndJob(p)
    /\ JobFrame

-----------------------------------------------------------------------------
(* Fifteen seconds go by, for the database as for everybody.               *)

TimePasses ==
    /\ age' = IF Expired THEN age ELSE age + 1
    /\ UNCHANGED <<owner, dbEpoch, status, runtime, ticking, jobs, faults,
                   retired>>

TickStep(p, t) ==
    \/ StartTick(p, t)
    \/ Renew(p, t)
    \/ TakeOver(p, t)
    \/ RefuseTakeOver(p, t)
    \/ HandleRenewed(p, t)
    \/ HandleAcquired(p, t)
    \/ HandleDenied(p, t)
    \/ QueueJob(p, t)
    \/ QueueNothing(p, t)

TickFault(p, t) ==
    \/ StatementFails(p, t)
    \/ AnswerLost(p, t)

JobStep(p) ==
    \/ BeginJob(p)
    \/ CheckFence(p)
    \/ FinishJob(p)

ProcessStep(p) ==
    \/ StartPoller(p)
    \/ BeginStop(p)
    \/ Exit(p)

ProcessNext ==
    \/ \E p \in Pollers, t \in Ticks : TickStep(p, t) \/ TickFault(p, t)
    \/ \E p \in Pollers : JobStep(p) \/ ProcessStep(p)

Next == ProcessNext \/ TimePasses

Spec == Init /\ [][Next]_vars

\* A process that runs gets on with its ticks and its job, and time goes by.
\* The failsafe timer ends a process that was told to stop.  Nothing makes a
\* process start, stop or crash.
Fairness ==
    /\ \A p \in Pollers, t \in Ticks : WF_vars(TickStep(p, t))
    /\ \A p \in Pollers : WF_vars(JobStep(p))
    /\ \A p \in Pollers : WF_vars(status[p] # "running" /\ Exit(p))
    /\ WF_vars(TimePasses)

FairSpec == Spec /\ Fairness

-----------------------------------------------------------------------------
(* Properties *)

\* Two processes never believe in the same epoch, and polls of two processes
\* that are writing at the same time carry different epochs: the epoch of a
\* write names the process that made it.
EpochNamesOneProcess ==
    \A p, q \in Pollers : p # q =>
        /\ epoch[p] # 0 => epoch[p] # epoch[q]
        /\ jobPhase[p] = "writing" /\ jobPhase[q] = "writing"
              => jobEpoch[p] # jobEpoch[q]

\* The owner renews a lease whose epoch nobody has any more.
Wedged(p) == status[p] = "running" /\ owner = p /\ dbEpoch \in retired

\* While a poller runs, it or another gets an epoch it can write under: the
\* lease of a dead or stopped process is taken over, and a statement that
\* fails is made up for.  The one way out is the lost answer of an
\* acquisition, after which its process is wedged (LeaseOwnerCanWrite).
\* (Behaviours that use up the bound on acquisitions say nothing.)
SomePollerGetsEpoch ==
    \A p \in Pollers :
        status[p] = "running"
            ~> \/ \E q \in Pollers : status[q] = "running" /\ PollerEpoch(q) # 0
               \/ \E q \in Pollers : Wedged(q)
               \/ status[p] # "running"
               \/ dbEpoch = MaxEpoch

\* What /api/health reports of the poller: the row has an owner, which it has
\* from the first acquisition on, and an expiry that is surely in the future.
pollerOwnsLock == ~MayExpire

\* The process that holds the lease can write under it, or soon will, or loses
\* it, unless /api/health says that no poller works.  It fails (see README): two
\* overlapping ticks, or a lost answer, leave the owner without its epoch, and it
\* renews for ever.
LeaseOwnerCanWrite ==
    \A p \in Pollers :
        pollerOwnsLock /\ owner = p /\ status[p] = "running"
            ~> \/ ~pollerOwnsLock \/ owner # p \/ status[p] # "running"
               \/ PollerEpoch(p) # 0

\* The lease is a source of fencing tokens.
Tokens == INSTANCE FencingTokens
    WITH Clients <- Pollers, issued <- dbEpoch, held <- epoch
ImplementsTokens == Tokens!Spec
=============================================================================
