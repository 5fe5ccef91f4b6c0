-------------------------- MODULE PollScheduleProofs --------------------------
(* Proofs about PollSchedule, for any servers, jobs, epochs and delays.          *)
EXTENDS PollSchedule, FiniteSetTheorems, TLAPS

Busy(j) == job[j].at # "free"
Polls(j) == job[j].at \in {"polling", "writing"}

(* A row is inserted once: what exists, was listed or has a job is not new.      *)
KnownRows ==
    /\ \A s \in exists \cup listed : onboard[s] # "new"
    /\ \A j \in Jobs : Busy(j) => /\ job[j].server \in Servers /\ job[j].queue # 0
                                  /\ onboard[job[j].server] # "new"

(* The jobs of a row that is there, or was when the list was read, are in its     *)
(* current queue: a queue is pruned only after the row was seen to be gone.       *)
OwnQueues == \A j \in Jobs :
    Busy(j) /\ job[j].server \in exists \cup listed => job[j].queue = queue[job[j].server]
ListCovers == tick = "listed" =>
    \A j \in Jobs : Busy(j) /\ job[j].server \in exists => job[j].server \in listed

OnePerQueue == \A j, k \in Jobs :
    Running(j) /\ Running(k) /\ job[j].queue = job[k].queue => j = k
OnePoll == \A j, k \in Jobs :
    Polls(j) /\ Polls(k) /\ job[j].server = job[k].server => j = k

(* A row in its onboarding is not due, and nobody polls it.                      *)
Onboarding == \A s \in Servers :
    /\ onboard[s] = "new" => lastPoll[s] = None /\ lastSeen[s] = None
    /\ s \in exists /\ onboard[s] = "reading" => lastPoll[s] = None /\ lastSeen[s] = None
    /\ s \in exists /\ onboard[s] = "persisting" =>
          lastPoll[s] = None /\ lastSeen[s] \in Nat /\ lastSeen[s] < Unclaimed
LeftAlone == \A s \in exists : onboard[s] \in {"reading", "persisting"} =>
    \A j \in Jobs : Polls(j) => job[j].server # s

IInv ==
    /\ TypeOK /\ KnownRows /\ OwnQueues /\ ListCovers /\ OnePerQueue /\ OnePoll
    /\ Onboarding /\ LeftAlone

LEMMA NoJobIsFree == NoJob \in [at : Stages, server : Servers \cup {None}, queue : {0}, epoch : {0}]
BY DEF NoJob, Stages

LEMMA InitIInv == Init => IInv
<1> SUFFICES ASSUME Init PROVE IInv
  OBVIOUS
<1>1. \A j \in Jobs : job[j] = NoJob /\ job[j].at = "free"
  BY DEF Init, NoJob
<1>2. TypeOK
  <2>1. None \in 0..1 \cup {None} /\ None \in 0..Unclaimed \cup {None} /\ 0 \in 0..MaxEpoch /\ 0 \in 0..0 /\ 0 \in Nat
    BY BoundsAssumption
  <2>2. NoJob \in [at : Stages, server : Servers \cup {None}, queue : 0..0, epoch : 0..0]
    BY <2>1, NoJobIsFree
  <2> HIDE DEF NoJob
  <2> QED BY <2>1, <2>2 DEF Init, TypeOK
<1>3. KnownRows /\ OwnQueues /\ ListCovers /\ OnePerQueue /\ OnePoll /\ LeftAlone
  BY <1>1 DEF Init, KnownRows, OwnQueues, ListCovers, OnePerQueue, OnePoll, LeftAlone, Busy, Polls, Running
<1>4. Onboarding
  BY DEF Init, Onboarding
<1> QED BY <1>2, <1>3, <1>4 DEF IInv

--------------------------------------------------------------------------------
(* The web process: the jobs stay as they are.                                   *)

LEMMA AppTypes ==
    ASSUME TypeOK, NEW s \in Servers, AppStep(s) PROVE TypeOK'
<1>1. 0 \in 0..1 /\ 0 \in 0..Unclaimed
  BY UnclaimedAssumption
<1> QED
  BY <1>1 DEF AppStep, CreateServer, OnboardPersist, OnboardDone, OnboardFails, AppCrash, DeleteServer,
      DropRow, TypeOK, rows, lease, ticking, work

LEMMA AppPreserves ==
    ASSUME IInv, NEW s \in Servers, AppStep(s) PROVE IInv'
<1>1. TypeOK'
  BY AppTypes DEF IInv
<1>2. /\ UNCHANGED <<queue, job, tick, listed>>
      /\ \/ exists' \subseteq exists
         \/ onboard[s] = "new" /\ exists' = {s}
      /\ \A t \in Servers \ {s} : onboard'[t] = onboard[t]
      /\ onboard'[s] = onboard[s] \/ onboard'[s] # "new"
      /\ exists' # exists /\ s \in exists' => onboard'[s] # "new"
  BY DEF AppStep, CreateServer, OnboardPersist, OnboardDone, OnboardFails, AppCrash, DeleteServer,
      DropRow, rows, lease, ticking, work, IInv, TypeOK
<1>3. KnownRows'
  BY <1>2 DEF IInv, TypeOK, KnownRows, Busy
<1>4. OwnQueues' /\ ListCovers'
  BY <1>2 DEF IInv, OwnQueues, ListCovers, KnownRows, Busy
<1>5. OnePerQueue' /\ OnePoll'
  BY <1>2 DEF IInv, OnePerQueue, OnePoll, Running, Polls
<1>6. Onboarding'
  BY UnclaimedAssumption DEF AppStep, CreateServer, OnboardPersist, OnboardDone, OnboardFails, AppCrash,
      DeleteServer, DropRow, rows, IInv, TypeOK, Onboarding
<1>7. LeftAlone'
  BY <1>2 DEF AppStep, CreateServer, OnboardPersist, OnboardDone, OnboardFails, AppCrash,
      DeleteServer, DropRow, rows, IInv, TypeOK, LeftAlone, KnownRows, Polls, Busy
<1> QED BY <1>1, <1>3, <1>4, <1>5, <1>6, <1>7 DEF IInv

--------------------------------------------------------------------------------
(* The lease and the clock.                                                      *)

LEMMA LeasePreserves ==
    ASSUME IInv, GetLease \/ LoseLease PROVE IInv'
<1>1. TypeOK'
  <2>1. issued' \in 0..MaxEpoch /\ epoch' \in 0..issued' /\ 0..issued \subseteq 0..issued'
    BY BoundsAssumption DEF IInv, TypeOK, GetLease, LoseLease
  <2> QED BY <2>1 DEF IInv, TypeOK, GetLease, LoseLease, rows, ticking, work
<1>2. UNCHANGED <<exists, lastPoll, lastSeen, onboard, tick, listed, queue, job>>
  BY DEF GetLease, LoseLease, rows, ticking, work
<1> QED
  BY <1>1, <1>2 DEF IInv, KnownRows, OwnQueues, ListCovers, OnePerQueue, OnePoll, Onboarding, LeftAlone,
      Busy, Polls, Running

LEMMA CrashPreserves ==
    ASSUME IInv, PollerCrash PROVE IInv'
<1>1. \A j \in Jobs : job'[j] = NoJob /\ job'[j].at = "free"
  BY DEF PollerCrash, NoJob
<1>2. TypeOK'
  BY NoJobIsFree DEF IInv, TypeOK, PollerCrash, rows
<1>3. KnownRows' /\ OwnQueues' /\ ListCovers' /\ OnePerQueue' /\ OnePoll' /\ LeftAlone'
  BY <1>1 DEF IInv, PollerCrash, rows, KnownRows, OwnQueues, ListCovers, OnePerQueue, OnePoll, LeftAlone,
      Busy, Polls, Running
<1>4. Onboarding'
  BY DEF IInv, PollerCrash, rows, Onboarding
<1> QED BY <1>2, <1>3, <1>4 DEF IInv

LEMMA TimePreserves ==
    ASSUME IInv, TimePasses PROVE IInv'
<1>1. TypeOK'
  <2>1. \A age \in 0..1 \cup {None} : Older(age, 1) \in 0..1 \cup {None}
    BY DEF Older
  <2>2. \A age \in 0..Unclaimed \cup {None} : Older(age, Unclaimed) \in 0..Unclaimed \cup {None}
    BY UnclaimedAssumption DEF Older
  <2> QED BY <2>1, <2>2 DEF IInv, TypeOK, TimePasses, lease, work
<1>2. UNCHANGED <<exists, onboard, tick, listed, queue, job>>
  BY DEF TimePasses, lease, work
<1>3. Onboarding'
  <2> SUFFICES ASSUME NEW s \in Servers
               PROVE  /\ lastPoll[s] = None => lastPoll'[s] = None
                      /\ lastSeen[s] = None => lastSeen'[s] = None
                      /\ s \in exists /\ onboard[s] = "persisting" => lastSeen'[s] \in Nat /\ lastSeen'[s] < Unclaimed
    BY <1>2 DEF IInv, Onboarding
  <2>1. lastPoll'[s] = Older(lastPoll[s], 1) /\ lastSeen'[s] = Older(lastSeen[s], Unclaimed)
    BY DEF TimePasses
  <2>2. ASSUME s \in exists, onboard[s] = "persisting" PROVE lastSeen'[s] \in Nat /\ lastSeen'[s] < Unclaimed
    BY <2>1, <2>2, NoneAssumption, UnclaimedAssumption DEF IInv, Onboarding, TimePasses, Older
  <2> QED BY <2>1, <2>2 DEF Older
<1> QED
  BY <1>1, <1>2, <1>3 DEF IInv, KnownRows, OwnQueues, ListCovers, OnePerQueue, OnePoll, LeftAlone,
      Busy, Polls, Running

--------------------------------------------------------------------------------
(* The tick.                                                                     *)

LEMMA ListPreserves ==
    ASSUME IInv, TickList PROVE IInv'
<1>1. TypeOK'
  BY DEF IInv, TypeOK, TickList, rows, lease, work
<1>2. UNCHANGED <<exists, lastPoll, lastSeen, onboard, queue, job>> /\ listed' = exists
  BY DEF TickList, rows, work
<1> QED
  BY <1>1, <1>2 DEF IInv, KnownRows, OwnQueues, ListCovers, OnePerQueue, OnePoll, Onboarding, LeftAlone,
      Busy, Polls, Running

(* What the handling of the list does to a job: it stays, is dropped before it ran, *)
(* or is new, in the current queue of a server of the list.                        *)
JobRecords(n) == [at : Stages, server : Servers \cup {None}, queue : 0..n, epoch : 0..issued]

JobHandled(j) ==
    \/ /\ job'[j] = job[j] /\ Busy(j)
       /\ job[j].server \in listed => queue'[job[j].server] = queue[job[j].server]
    \/ job'[j].at = "free"
    \/ /\ job'[j].at = "waiting" /\ job'[j].server \in listed
       /\ job'[j].queue = queue'[job'[j].server] /\ job'[j].queue # 0

JobsHandled ==
    /\ queues' \in Nat /\ queue' \in [Servers -> 0..queues'] /\ job' \in [Jobs -> JobRecords(queues')]
    /\ \A j \in Jobs : JobHandled(j)

LEMMA QueueJobs ==
    ASSUME IInv, TickQueue PROVE JobsHandled
<1> DEFINE kept == pruneQueues(listed)
           jobs == Cleared(listed)
           slots == {j \in Jobs : jobs[j] = NoJob}
<1>1. /\ kept \in [Servers -> 0..queues] /\ queues \in Nat
      /\ \A s \in listed : kept[s] = queue[s]
  BY DEF IInv, TypeOK, pruneQueues
<1>2. jobs \in [Jobs -> JobRecords(queues)] /\ \A j \in Jobs : jobs[j] = job[j] \/ jobs[j].at = "free"
  <2>1. NoJob \in JobRecords(queues) /\ NoJob.at = "free"
    BY <1>1, NoJobIsFree DEF IInv, TypeOK, NoJob, JobRecords
  <2>2. job \in [Jobs -> JobRecords(queues)]
    BY DEF IInv, TypeOK, JobRecords
  <2> HIDE DEF NoJob
  <2> QED BY <2>1, <2>2 DEF Cleared
<1>3. \A j \in Jobs : jobs[j] = job[j] /\ jobs[j].at # "free" =>
          Busy(j) /\ (job[j].server \in listed => kept[job[j].server] # 0)
  BY <1>1 DEF IInv, OwnQueues, KnownRows, Busy
<1>4. CASE queue' = kept /\ job' = jobs /\ UNCHANGED queues
  <2> HIDE DEF kept, jobs
  <2>1. \A j \in Jobs : JobHandled(j)
    BY <1>1, <1>2, <1>3, <1>4 DEF JobHandled
  <2> QED BY <1>1, <1>2, <1>4, <2>1 DEF JobsHandled
<1>5. ASSUME NEW s \in listedDue, NEW i \in slots,
             queues' = IF kept[s] = 0 THEN queues + 1 ELSE queues,
             queue' = IF kept[s] = 0 THEN [kept EXCEPT ![s] = queues + 1] ELSE kept,
             job' = [jobs EXCEPT ![i] = [at |-> "waiting", server |-> s, queue |-> queue'[s], epoch |-> epoch]]
      PROVE  JobsHandled
  <2>1. s \in listed /\ s \in Servers /\ i \in Jobs /\ epoch \in 0..issued
    BY DEF IInv, TypeOK
  <2> HIDE DEF kept, jobs, slots
  <2>2. queues' \in Nat /\ 0..queues \subseteq 0..queues'
    BY <1>1, <1>5
  <2>3. /\ queue' \in [Servers -> 0..queues'] /\ queue'[s] # 0 /\ queue'[s] \in 0..queues'
        /\ \A t \in Servers : t # s \/ kept[t] # 0 => queue'[t] = kept[t]
    BY <1>1, <1>5, <2>1, <2>2
  <2>4. job' \in [Jobs -> JobRecords(queues')]
    <3>1. jobs \in [Jobs -> JobRecords(queues')]
      BY <1>2, <2>2 DEF JobRecords
    <3>2. [at |-> "waiting", server |-> s, queue |-> queue'[s], epoch |-> epoch] \in JobRecords(queues')
      BY <2>1, <2>3 DEF JobRecords, Stages
    <3> QED BY <1>5, <3>1, <3>2
  <2>5. ASSUME NEW j \in Jobs PROVE JobHandled(j)
    <3>1. CASE j = i
      BY <1>2, <1>5, <2>1, <2>3, <3>1 DEF JobHandled
    <3>2. CASE j # i
      <4>1. job'[j] = jobs[j]
        BY <1>2, <1>5, <3>2
      <4>2. job[j].server \in listed => job[j].server \in Servers
        BY DEF IInv, TypeOK
      <4> QED BY <1>1, <1>2, <1>3, <2>3, <4>1, <4>2 DEF JobHandled
    <3> QED BY <3>1, <3>2
  <2> QED BY <2>2, <2>3, <2>4, <2>5 DEF JobsHandled
<1> QED
  BY <1>4, <1>5 DEF TickQueue

LEMMA QueuePreserves ==
    ASSUME IInv, TickQueue PROVE IInv'
<1>1. JobsHandled
  BY QueueJobs
<1>2. /\ UNCHANGED <<exists, lastPoll, lastSeen, onboard, epoch, issued, fired>>
      /\ tick = "listed" /\ tick' = "idle" /\ listed' = {} /\ listedDue' = {}
  BY DEF TickQueue, rows, lease
<1>3. TypeOK'
  BY <1>1, <1>2 DEF IInv, TypeOK, JobsHandled, JobRecords
<1>4. KnownRows'
  BY <1>1, <1>2 DEF IInv, TypeOK, KnownRows, JobsHandled, JobHandled, Busy
<1>5. OwnQueues' /\ ListCovers'
  BY <1>1, <1>2 DEF IInv, OwnQueues, ListCovers, JobsHandled, JobHandled, Busy
<1>6. \A j \in Jobs : /\ Running(j)' => Running(j) /\ job'[j] = job[j]
                      /\ Polls(j)' => Polls(j) /\ job'[j] = job[j]
  BY <1>1 DEF JobsHandled, JobHandled, Running, Polls
<1>7. OnePerQueue' /\ OnePoll' /\ LeftAlone'
  BY <1>2, <1>6 DEF IInv, OnePerQueue, OnePoll, LeftAlone
<1>8. Onboarding'
  BY <1>2 DEF IInv, Onboarding
<1> QED BY <1>3, <1>4, <1>5, <1>7, <1>8 DEF IInv

--------------------------------------------------------------------------------
(* A job: it goes a stage further in its queue, or its slot gets free.            *)

OthersStay(j) == \A k \in Jobs \ {j} : job'[k] = job[k]

Ends(j) == job' \in [Jobs -> JobRecords(queues)] /\ OthersStay(j) /\ job'[j].at = "free"
Continues(j, stage) ==
    /\ job' \in [Jobs -> JobRecords(queues)] /\ OthersStay(j)
    /\ job'[j].at = stage /\ job'[j].server = job[j].server /\ job'[j].queue = job[j].queue

LEMMA JobMoves ==
    ASSUME TypeOK, NEW j \in Jobs, NEW stage \in Stages, Goto(j, stage) PROVE Continues(j, stage)
BY DEF TypeOK, JobRecords, Goto, OthersStay, Continues

LEMMA JobEnds ==
    ASSUME TypeOK, NEW j \in Jobs, Free(j) PROVE Ends(j)
<1>1. NoJob \in JobRecords(queues) /\ NoJob.at = "free"
  BY NoJobIsFree DEF TypeOK, JobRecords, NoJob
<1> HIDE DEF NoJob
<1> QED BY <1>1 DEF TypeOK, JobRecords, Free, OthersStay, Ends

(* What no step of a job changes.                                                *)
LEMMA JobKeeps ==
    ASSUME IInv, NEW j \in Jobs, Busy(j), NEW stage \in Stages, Ends(j) \/ Continues(j, stage),
           UNCHANGED <<exists, onboard, lease, ticking, queue, queues>>,
           lastPoll' \in [Servers -> 0..1 \cup {None}], lastSeen' \in [Servers -> 0..Unclaimed \cup {None}]
    PROVE  TypeOK' /\ KnownRows' /\ OwnQueues' /\ ListCovers'
<1>1. TypeOK'
  BY DEF IInv, TypeOK, JobRecords, Ends, Continues, lease, ticking
<1>2. \A k \in Jobs : Busy(k)' => Busy(k) /\ job'[k].server = job[k].server /\ job'[k].queue = job[k].queue
  BY DEF Busy, Ends, Continues, OthersStay
<1> QED
  BY <1>1, <1>2 DEF IInv, KnownRows, OwnQueues, ListCovers, ticking

(* ... and what one that begins neither to run nor to poll leaves alone.          *)
LEMMA OneJobLess ==
    ASSUME IInv, NEW j \in Jobs, NEW stage \in Stages,
           \/ Ends(j)
           \/ Continues(j, stage) /\ Polls(j),
           UNCHANGED <<exists, onboard>>
    PROVE  OnePerQueue' /\ OnePoll' /\ LeftAlone'
<1>1. \A k \in Jobs : /\ Running(k)' => Running(k) /\ job'[k].queue = job[k].queue
                      /\ Polls(k)' => Polls(k) /\ job'[k].server = job[k].server
  BY DEF Running, Polls, Ends, Continues, OthersStay
<1> QED BY <1>1 DEF IInv, OnePerQueue, OnePoll, LeftAlone

LEMMA StartPreserves ==
    ASSUME IInv, NEW j \in Jobs, StartJob(j) PROVE IInv'
<1>1. /\ Busy(j) /\ "started" \in Stages
      /\ UNCHANGED <<exists, lastPoll, lastSeen, onboard, lease, ticking, queue, queues>>
  BY DEF StartJob, Busy, Stages, rows
<1>2. Ends(j) \/ Continues(j, "started")
  BY <1>1, JobEnds, JobMoves DEF StartJob, IInv
<1>3. TypeOK' /\ KnownRows' /\ OwnQueues' /\ ListCovers'
  BY <1>1, <1>2, JobKeeps DEF IInv, TypeOK
<1>4. Onboarding'
  BY <1>1 DEF IInv, Onboarding
<1>5. OnePerQueue'
  BY <1>2 DEF IInv, OnePerQueue, StartJob, Running, Ends, Continues, OthersStay
<1>6. \A k \in Jobs : Polls(k)' => Polls(k) /\ job'[k].server = job[k].server
  BY <1>2 DEF Polls, Ends, Continues, OthersStay
<1>7. OnePoll' /\ LeftAlone'
  BY <1>1, <1>6 DEF IInv, OnePoll, LeftAlone
<1> QED BY <1>3, <1>4, <1>5, <1>7 DEF IInv

(* The row that is polled is there, so every job of it is in its current queue,    *)
(* where one runs at a time.                                                     *)
LEMMA RecheckPreserves ==
    ASSUME IInv, NEW j \in Jobs, Recheck(j) PROVE IInv'
<1> DEFINE s == job[j].server
<1>1. /\ Busy(j) /\ Running(j) /\ "polling" \in Stages /\ s \in Servers
      /\ UNCHANGED <<exists, lastPoll, lastSeen, onboard, lease, ticking, queue, queues>>
  BY DEF Recheck, Busy, Running, Stages, rows, IInv, KnownRows
<1>2. Ends(j) \/ (Continues(j, "polling") /\ s \in exists /\ isServerPollDue(s))
  BY <1>1, JobEnds, JobMoves DEF Recheck, IInv
<1>3. TypeOK' /\ KnownRows' /\ OwnQueues' /\ ListCovers'
  BY <1>1, <1>2, JobKeeps DEF IInv, TypeOK
<1>4. Onboarding'
  BY <1>1 DEF IInv, Onboarding
<1>5. OnePerQueue'
  BY <1>1, <1>2 DEF IInv, OnePerQueue, Running, Ends, Continues, OthersStay
<1>6. CASE Ends(j)
  BY <1>1, <1>3, <1>4, <1>6, OneJobLess DEF IInv
<1>7. CASE Continues(j, "polling") /\ s \in exists /\ isServerPollDue(s)
  <2>1. \A k \in Jobs \ {j} : Polls(k) => job[k].server # s
    BY <1>1, <1>7 DEF IInv, OwnQueues, OnePerQueue, Busy, Running, Polls
  <2>2. OnePoll'
    BY <1>7, <2>1 DEF IInv, OnePoll, Polls, Continues, OthersStay
  <2>3. onboard[s] \notin {"reading", "persisting"}
    BY <1>1, <1>7, NoneAssumption, UnclaimedAssumption DEF IInv, Onboarding, isServerPollDue
  <2>4. LeftAlone'
    BY <1>1, <1>7, <2>3 DEF IInv, LeftAlone, Polls, Continues, OthersStay
  <2> QED BY <1>3, <1>4, <1>5, <2>2, <2>4 DEF IInv
<1> QED BY <1>2, <1>6, <1>7

LEMMA PollPreserves ==
    ASSUME IInv, NEW j \in Jobs, PollAnswers(j) \/ PollDone(j) \/ PollFails(j) PROVE IInv'
<1> DEFINE s == job[j].server
<1>1. /\ Busy(j) /\ Polls(j) /\ "writing" \in Stages /\ s \in Servers
      /\ UNCHANGED <<exists, onboard, lease, ticking, queue, queues>>
  BY DEF PollAnswers, PollDone, PollFails, Busy, Polls, Stages, IInv, KnownRows
<1>2. Ends(j) \/ Continues(j, "writing")
  BY <1>1, JobEnds, JobMoves DEF PollAnswers, PollDone, PollFails, IInv
<1>3. /\ lastPoll' \in [Servers -> 0..1 \cup {None}] /\ lastSeen' \in [Servers -> 0..Unclaimed \cup {None}]
      /\ \A t \in Servers \ {s} : lastPoll'[t] = lastPoll[t] /\ lastSeen'[t] = lastSeen[t]
      /\ s \notin exists => /\ lastPoll'[s] \in {lastPoll[s], None}
                           /\ lastSeen'[s] \in {lastSeen[s], None}
  <2>1. 0 \in 0..1 /\ 0 \in 0..Unclaimed
    BY UnclaimedAssumption
  <2> QED BY <1>1, <2>1 DEF PollAnswers, PollDone, PollFails, IInv, TypeOK
<1>4. TypeOK' /\ KnownRows' /\ OwnQueues' /\ ListCovers'
  BY <1>1, <1>2, <1>3, JobKeeps
<1>5. OnePerQueue' /\ OnePoll' /\ LeftAlone'
  BY <1>1, <1>2, OneJobLess
<1>6. onboard[s] # "new" /\ (s \in exists => onboard[s] \notin {"reading", "persisting"})
  BY <1>1 DEF IInv, KnownRows, LeftAlone
<1>7. Onboarding'
  BY <1>1, <1>3, <1>6 DEF IInv, Onboarding
<1> QED BY <1>4, <1>5, <1>7 DEF IInv

--------------------------------------------------------------------------------
LEMMA StepIInv == IInv /\ [Next]_vars => IInv'
<1> SUFFICES ASSUME IInv, [Next]_vars PROVE IInv'
  OBVIOUS
<1>1. CASE UNCHANGED vars
  BY <1>1 DEF vars, rows, lease, ticking, work, IInv, TypeOK, KnownRows, OwnQueues, ListCovers, OnePerQueue,
      OnePoll, Onboarding, LeftAlone, Busy, Polls, Running
<1>2. CASE \E s \in Servers : AppStep(s)
  BY <1>2, AppPreserves
<1>3. CASE \E j \in Jobs : JobStep(j)
  BY <1>3, StartPreserves, RecheckPreserves, PollPreserves DEF JobStep
<1>4. CASE GetLease \/ LoseLease \/ PollerCrash \/ TickList \/ TickQueue \/ TimePasses
  BY <1>4, LeasePreserves, CrashPreserves, ListPreserves, QueuePreserves, TimePreserves
<1> QED BY <1>1, <1>2, <1>3, <1>4 DEF Next

(* The invariant holds throughout: the jobs of a row that is there are in its      *)
(* current queue (poller-queues.ts), whatever was pruned, lost or crashed.        *)
THEOREM ScheduleHolds == Spec => []IInv
BY InitIInv, StepIInv, PTL DEF Spec

(* Types of the schedule: rows, queues and jobs (poller.ts, poller-queues.ts).    *)
THEOREM TypesHold == Spec => []TypeOK
<1>1. IInv => TypeOK
  BY DEF IInv
<1> QED BY <1>1, ScheduleHolds, PTL

(* A server is polled by one job at a time, whatever its queues went through.     *)
THEOREM AtMostOnePollPerServerHolds == Spec => []AtMostOnePollPerServer
<1>1. IInv => AtMostOnePollPerServer
  <2> SUFFICES ASSUME IInv, NEW s \in Servers PROVE Cardinality(Polling(s)) <= 1
    BY DEF AtMostOnePollPerServer
  <2>1. \A j, k \in Polling(s) : j = k
    BY DEF IInv, OnePoll, Polls, Polling
  <2>2. CASE Polling(s) = {}
    BY <2>2, FS_EmptySet
  <2>3. CASE Polling(s) # {}
    <3>1. PICK j \in Polling(s) : Polling(s) = {j}
      BY <2>1, <2>3
    <3> QED BY <3>1, FS_Singleton
  <2> QED BY <2>2, <2>3
<1> QED BY <1>1, ScheduleHolds, PTL

(* Nobody polls a row beside its onboarding (poll-due.ts).                       *)
THEOREM OnboardExclusiveHolds == Spec => []OnboardExclusive
<1>1. IInv => OnboardExclusive
  BY DEF IInv, TypeOK, LeftAlone, Polls, OnboardExclusive, Polling
<1> QED BY <1>1, ScheduleHolds, PTL

(* A poll begins with the second reading of its row, and nowhere else.             *)
LEMMA OnlyRecheckBegins ==
    ASSUME IInv, [Next]_vars, ~ \E k \in Jobs : Recheck(k), NEW j \in Jobs, Polls(j)'
    PROVE  Polls(j) /\ job'[j].server = job[j].server
<1>1. CASE UNCHANGED job
  BY <1>1 DEF Polls
<1>2. CASE PollerCrash
  BY <1>2 DEF PollerCrash, NoJob, Polls
<1>3. CASE TickQueue
  BY <1>3, QueueJobs DEF JobsHandled, JobHandled, Polls
<1>4. ASSUME NEW k \in Jobs, StartJob(k) \/ PollAnswers(k) \/ PollDone(k) \/ PollFails(k)
      PROVE  Polls(j) /\ job'[j].server = job[j].server
  <2>1. Ends(k) \/ Continues(k, "started") \/ (Continues(k, "writing") /\ Polls(k))
    BY <1>4, JobMoves, JobEnds DEF StartJob, PollAnswers, PollDone, PollFails, IInv, Stages, Polls
  <2> QED BY <2>1 DEF Polls, Ends, Continues, OthersStay
<1>5. CASE GetLease \/ LoseLease \/ TickList \/ TimePasses \/ \E s \in Servers : AppStep(s)
  BY <1>1, <1>5 DEF GetLease, LoseLease, TickList, TimePasses, AppStep, CreateServer, OnboardPersist,
      OnboardDone, OnboardFails, AppCrash, DeleteServer, work
<1> QED
  BY <1>1, <1>2, <1>3, <1>4, <1>5 DEF Next, JobStep, vars, work

(* No poll begins in the interval in which another one of its server ended: the    *)
(* second reading of the row stops the jobs that piled up (poller.ts).           *)
THEOREM NoBackToBackPollsHolds == Spec => NoBackToBackPolls
<1> DEFINE Rested == \A s \in Servers : Polling(s) = {} /\ Polling(s)' # {} => lastPoll[s] # 0
<1>1. IInv /\ [Next]_vars => [Rested]_vars
  <2> SUFFICES ASSUME IInv, [Next]_vars, NEW s \in Servers, Polling(s) = {}, Polling(s)' # {}
               PROVE  lastPoll[s] # 0
    OBVIOUS
  <2>1. PICK j \in Jobs : job'[j].server = s /\ job'[j].at \in {"polling", "writing"}
    BY DEF Polling
  <2>2. ~(job[j].server = s /\ job[j].at \in {"polling", "writing"})
    BY DEF Polling
  <2>3. CASE \E k \in Jobs : Recheck(k)
    <3>1. PICK k \in Jobs : Recheck(k)
      BY <2>3
    <3>2. k = j
      BY <2>1, <2>2, <3>1, JobMoves, JobEnds DEF Recheck, IInv, Continues, Ends, OthersStay, Stages
    <3>3. Goto(j, "polling") /\ isServerPollDue(job[j].server)
      BY <2>1, <3>1, <3>2, JobEnds DEF Recheck, IInv, Ends
    <3>4. job[j].server = s
      BY <2>1, <3>3, JobMoves DEF IInv, Continues, Stages
    <3> QED BY <3>3, <3>4, NoneAssumption DEF isServerPollDue
  <2> QED BY <2>1, <2>2, <2>3, OnlyRecheckBegins DEF Polls
<1> QED BY <1>1, ScheduleHolds, PTL DEF Spec, NoBackToBackPolls
=============================================================================
