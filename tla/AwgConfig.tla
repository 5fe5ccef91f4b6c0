------------------------------- MODULE AwgConfig -------------------------------
(* The AmneziaWG configuration: one row of the database, and the agent that is to  *)
(* have it (src/src/server/services/awg-client.service.ts, lib/awg/agent-client.ts, *)
(* awg-agent/main.ts).  gate-app saves, deletes and syncs, gate-poller syncs at      *)
(* every tick, and nothing orders the two but the queue of the agent.               *)
EXTENDS AwgAgent, Integers, Sequences

CONSTANTS
    Ticks, Requests,   \* what syncs in gate-poller, and what runs in gate-app
    Broken,            \* configurations the agent cannot apply
    MaxEdits,          \* how often rows are changed
    MaxFaults          \* how many requests are lost or late, applies fail, children end

ASSUME ConfigAssumption ==
    /\ Broken \subseteq Confs
    /\ None \notin Ticks \cup Requests
    /\ MaxEdits \in Nat /\ MaxFaults \in Nat

VARIABLES
    stored,    \* the configuration of the row, or None
    rowError,  \* its applyError is set
    nodes,     \* hosts of the servers reached through the tunnel
    task,      \* what runs: job, step, request, and the row as it was read
    preparing, \* hosts a poll is about to prepare
    queue,     \* requests at the agent, oldest first
    started,   \* the agent works on the first of them
    edits, faults

rowVars == <<stored, rowError, nodes>>
queueVars == <<queue, started>>
configVars == <<agentVars, rowVars, task, preparing, queueVars, edits, faults>>

Tasks == Ticks \cup Requests
MaybeConf == Confs \cup {None}
Steps == {"read", "send", "wait", "ok", "failed", "clearError", "list"}
Kinds == {"status", "apply", "clear", "routes", "tcp"}
Idle == [job |-> "idle", step |-> "read", kind |-> "status", conf |-> None,
         error |-> FALSE, hosts |-> {}, applied |-> FALSE]
Task == [job : {"idle", "sync", "save", "delete", "check"}, step : Steps, kind : Kinds, conf : MaybeConf,
         error : BOOLEAN, hosts : SUBSET Hosts, applied : BOOLEAN]
Request == [task : Tasks \cup {None}, kind : Kinds, conf : MaybeConf, hosts : SUBSET Hosts]

ConfigTypeOK ==
    /\ AgentTypeOK
    /\ stored \in MaybeConf
    /\ rowError \in BOOLEAN /\ (rowError => stored # None)
    /\ nodes \subseteq Hosts
    /\ task \in [Tasks -> Task]
    /\ preparing \subseteq Hosts
    /\ queue \in Seq(Request)
    /\ started \in BOOLEAN
    /\ edits \in 0..MaxEdits
    /\ faults \in 0..MaxFaults

ConfigInit ==
    /\ AgentInit
    /\ stored = None /\ rowError = FALSE /\ nodes = {}
    /\ task = [t \in Tasks |-> Idle]
    /\ preparing = {}
    /\ queue = <<>> /\ started = FALSE
    /\ edits = 0 /\ faults = 0

-----------------------------------------------------------------------------
(* Starting a job.  A row is written before its request is sent. *)

Sync == [Idle EXCEPT !.job = "sync"]
Fault == faults < MaxFaults /\ faults' = faults + 1
Edit == edits < MaxEdits /\ edits' = edits + 1

Tick(t) ==
    /\ task[t].job = "idle"
    /\ task' = [task EXCEPT ![t] = Sync]
    /\ UNCHANGED <<agentVars, rowVars, preparing, queueVars, edits, faults>>

(* saveAwgClientConf; parseAwgConf refused what is not a configuration. *)
Save(t, c) ==
    /\ task[t].job = "idle" /\ Edit
    /\ stored' = c /\ rowError' = FALSE
    /\ task' = [task EXCEPT ![t] = [Idle EXCEPT !.job = "save", !.step = "send",
                                               !.kind = "apply", !.conf = c]]
    /\ UNCHANGED <<agentVars, nodes, preparing, queueVars, faults>>

Delete(t) ==
    /\ task[t].job = "idle" /\ Edit
    /\ stored # None
    /\ stored' = None /\ rowError' = FALSE
    /\ task' = [task EXCEPT ![t] = [Idle EXCEPT !.job = "delete", !.step = "send", !.kind = "clear"]]
    /\ UNCHANGED <<agentVars, nodes, preparing, queueVars, faults>>

(* A server is added, deleted or given another path, and the routes follow. *)
ChangeNodes(t, hosts) ==
    /\ task[t].job = "idle" /\ Edit
    /\ hosts # nodes
    /\ nodes' = hosts
    /\ task' = [task EXCEPT ![t] = Sync]
    /\ UNCHANGED <<agentVars, stored, rowError, preparing, queueVars, faults>>

(* createAndOnboardServer and updateServerAccess try the path first (assertAwgTcp). *)
CheckNode(t, h) ==
    /\ task[t].job = "idle" /\ Edit
    /\ h \notin nodes
    /\ task' = [task EXCEPT ![t] = [Idle EXCEPT !.job = "check", !.hosts = {h}]]
    /\ UNCHANGED <<agentVars, rowVars, preparing, queueVars, faults>>

(* A poll of a node, or its ICMP probe, prepares the host it loaded when it began. *)
LoadPoll(h) ==
    /\ h \in nodes \ preparing
    /\ preparing' = preparing \cup {h}
    /\ UNCHANGED <<agentVars, rowVars, task, queueVars, edits, faults>>

PreparePoll(h) ==
    /\ h \in preparing /\ ~started
    /\ preparing' = preparing \ {h}
    /\ IF usable THEN Route(h) ELSE UNCHANGED agentVars
    /\ UNCHANGED <<rowVars, task, queueVars, edits, faults>>

-----------------------------------------------------------------------------
(* syncAwgRoutes, step by step.  Every task waits for one answer at a time. *)

WillSend(t, kind) == [task[t] EXCEPT !.step = "send", !.kind = kind]
At(t, step) == task[t].job # "idle" /\ task[t].step = step
Becomes(t, new) ==
    /\ task' = [task EXCEPT ![t] = new]
    /\ UNCHANGED <<agentVars, preparing, queueVars, edits, faults>>

\* Mutant: without a row there is nothing to clear.
ReadRowOrStop(t) ==
    /\ At(t, "read")
    /\ Becomes(t, IF stored = None THEN Idle
                  ELSE [WillSend(t, "status") EXCEPT !.conf = stored, !.error = rowError])
    /\ UNCHANGED rowVars

ReadRow(t) ==
    /\ At(t, "read")
    /\ LET checks == task[t].job = "check"
           known == [task[t] EXCEPT !.step = "send", !.conf = stored, !.error = rowError,
                                    !.kind = IF checks THEN "apply" ELSE "status"]
       IN  Becomes(t, IF stored # None THEN known
                      ELSE IF checks THEN Sync ELSE WillSend(t, "clear"))
    /\ UNCHANGED rowVars

\* Mutant: a configuration that is applied already leaves nothing to do.
StatusReadOnly(t) ==
    /\ task[t].kind = "status" /\ task[t].job # "check"
    /\ At(t, "ok") \/ At(t, "failed")
    /\ Becomes(t, IF At(t, "ok") /\ task[t].applied THEN Idle ELSE WillSend(t, "apply"))
    /\ UNCHANGED rowVars

(* The status decides whether the configuration is applied again; none is as good as *)
(* a bad one.                                                                       *)
StatusRead(t) ==
    /\ task[t].kind = "status" /\ task[t].job # "check"
    /\ At(t, "ok") \/ At(t, "failed")
    /\ IF At(t, "ok") /\ task[t].applied
       THEN Becomes(t, [task[t] EXCEPT !.step = "clearError"])
       ELSE Becomes(t, WillSend(t, "apply"))
    /\ UNCHANGED rowVars

Applied(t) ==
    /\ task[t].kind = "apply" /\ At(t, "ok")
    /\ IF task[t].job = "save"
       THEN Becomes(t, Sync)
       ELSE Becomes(t, [task[t] EXCEPT !.step = "clearError"])
    /\ UNCHANGED rowVars

\* Mutant: an upsert, which makes a row of the error alone.
ApplyFailedUpserts(t) ==
    /\ task[t].kind = "apply" /\ At(t, "failed")
    /\ rowError' = TRUE
    /\ Becomes(t, Idle)
    /\ UNCHANGED <<stored, nodes>>

(* The error goes to the row that is there now, if there is one.  A sync does not   *)
(* write the message it read, which the row may have lost since; a check writes none. *)
ApplyFailed(t) ==
    /\ task[t].kind = "apply" /\ At(t, "failed")
    /\ \/ /\ task[t].job # "check"
          /\ rowError' = (stored # None)
          /\ Becomes(t, Idle)
       \/ /\ task[t].job = "sync" /\ task[t].error
          /\ UNCHANGED rowError
          /\ Becomes(t, Idle)
       \/ /\ task[t].job = "check"
          /\ UNCHANGED rowError
          /\ Becomes(t, Sync)
    /\ UNCHANGED <<stored, nodes>>

(* The error that was read is cleared, of whatever row is there; without one this fails. *)
ClearRowError(t) ==
    /\ At(t, "clearError")
    /\ LET checks == task[t].job = "check"
       IN  Becomes(t, IF task[t].error /\ stored = None THEN (IF checks THEN Sync ELSE Idle)
                      ELSE IF checks THEN WillSend(t, "status")
                      ELSE [task[t] EXCEPT !.step = "list"])
    /\ rowError' = (rowError /\ ~task[t].error)
    /\ UNCHANGED <<stored, nodes>>

(* assertAwgTcp asks whether there was a handshake, not with which configuration. *)
CheckStatus(t) ==
    /\ task[t].job = "check" /\ task[t].kind = "status"
    /\ \/ At(t, "ok") /\ Becomes(t, WillSend(t, "tcp"))
       \/ (At(t, "ok") \/ At(t, "failed")) /\ Becomes(t, Sync)
    /\ UNCHANGED rowVars

(* The server is stored when the path was tried and SSH answered; the sync follows     *)
(* either way.                                                                       *)
EndCheck(t) ==
    /\ task[t].kind = "tcp"
    /\ \/ At(t, "ok") /\ nodes' = nodes \cup task[t].hosts
       \/ (At(t, "ok") \/ At(t, "failed")) /\ UNCHANGED nodes
    /\ Becomes(t, Sync)
    /\ UNCHANGED <<stored, rowError>>

ListNodes(t) ==
    /\ At(t, "list")
    /\ Becomes(t, [WillSend(t, "routes") EXCEPT !.hosts = nodes])
    /\ UNCHANGED rowVars

EndJob(t) ==
    /\ task[t].kind \in {"clear", "routes"}
    /\ At(t, "ok") \/ At(t, "failed")
    /\ Becomes(t, Idle)
    /\ UNCHANGED rowVars

-----------------------------------------------------------------------------
(* agentFetch: a request that is given up may still be carried out. *)

Send(t) ==
    /\ At(t, "send")
    /\ queue' = Append(queue, [task |-> t, kind |-> task[t].kind, conf |-> task[t].conf,
                               hosts |-> task[t].hosts])
    /\ task' = [task EXCEPT ![t] = [task[t] EXCEPT !.step = "wait"]]
    /\ UNCHANGED <<agentVars, rowVars, preparing, started, edits, faults>>

Unreachable(t) ==
    /\ At(t, "send") /\ Fault
    /\ task' = [task EXCEPT ![t] = [task[t] EXCEPT !.step = "failed"]]
    /\ UNCHANGED <<agentVars, rowVars, preparing, queueVars, edits>>

TimeOut(t) ==
    /\ At(t, "wait") /\ Fault
    /\ task' = [task EXCEPT ![t] = [task[t] EXCEPT !.step = "failed"]]
    /\ queue' = [i \in DOMAIN queue |->
                   IF queue[i].task = t THEN [queue[i] EXCEPT !.task = None] ELSE queue[i]]
    /\ UNCHANGED <<agentVars, rowVars, preparing, started, edits>>

-----------------------------------------------------------------------------
(* The agent, one request after another. *)

Serving(kind) == queue # <<>> /\ Head(queue).kind = kind

Answer(step) ==
    LET t == Head(queue).task
    IN  /\ queue' = Tail(queue)
        /\ started' = FALSE
        /\ task' = IF t = None THEN task
                   ELSE [task EXCEPT ![t] = [task[t] EXCEPT
                            !.step = step, !.applied = (usable /\ told = task[t].conf)]]
        /\ UNCHANGED <<rowVars, preparing, edits>>

Start == started' = TRUE /\ UNCHANGED <<rowVars, task, preparing, queue, edits, faults>>

ServeStatus ==
    /\ Serving("status")
    /\ Answer("ok")
    /\ UNCHANGED <<agentVars, faults>>

StartApply ==
    /\ Serving("apply") /\ ~started
    /\ LET c == Head(queue).conf
       IN  \/ /\ told = c /\ usable
              /\ Answer("ok")
              /\ UNCHANGED <<agentVars, faults>>
           \/ /\ Begin(c)
              /\ Start

FinishApply ==
    /\ Serving("apply") /\ started
    /\ told \notin Broken
    /\ ComeUp
    /\ Answer("ok")
    /\ UNCHANGED faults

(* It fails; or it ends well although the child ended, which the agent then forgets. *)
BreakApply ==
    /\ Serving("apply") /\ started
    /\ IF told \in Broken THEN UNCHANGED faults ELSE Fault
    /\ GiveUp
    /\ \/ Answer("failed")
       \/ told \notin Broken /\ Answer("ok")

ServeClear ==
    /\ Serving("clear")
    /\ Forget
    /\ Answer("ok")
    /\ UNCHANGED faults

StartRoutes ==
    /\ Serving("routes") /\ ~started
    /\ \/ Ask(Head(queue).hosts) /\ Start
       \/ ~usable /\ Answer("failed") /\ UNCHANGED <<agentVars, faults>>

FinishRoutes ==
    /\ Serving("routes") /\ started
    /\ Settle
    /\ Answer("ok")
    /\ UNCHANGED faults

(* tcp-check begins like prepare; when the node does not answer, its route stays.    *)
ServeTcp ==
    /\ Serving("tcp")
    /\ \/ /\ \E h \in Head(queue).hosts : Route(h)
          /\ Answer("ok") \/ Answer("failed")
       \/ Answer("failed") /\ UNCHANGED agentVars
    /\ UNCHANGED faults

ChildEnds ==
    /\ usable /\ Fault
    /\ GoDown
    /\ UNCHANGED <<rowVars, task, preparing, queueVars, edits>>

-----------------------------------------------------------------------------
TaskStep(t) ==
    \/ ReadRow(t) \/ StatusRead(t) \/ Applied(t) \/ ApplyFailed(t)
    \/ ClearRowError(t) \/ CheckStatus(t) \/ EndCheck(t) \/ ListNodes(t) \/ EndJob(t)
    \/ Send(t)
AgentStep ==
    \/ ServeStatus \/ StartApply \/ FinishApply \/ BreakApply
    \/ ServeClear \/ StartRoutes \/ FinishRoutes \/ ServeTcp

ConfigNext ==
    \/ \E t \in Tasks : Tick(t) \/ TaskStep(t) \/ Unreachable(t) \/ TimeOut(t)
    \/ \E t \in Requests :
          \/ \E c \in Confs : Save(t, c)
          \/ Delete(t)
          \/ \E hosts \in SUBSET Hosts : ChangeNodes(t, hosts)
          \/ \E h \in Hosts : CheckNode(t, h)
    \/ \E h \in Hosts : LoadPoll(h) \/ PreparePoll(h)
    \/ AgentStep
    \/ ChildEnds

ConfigFairness ==
    /\ \A t \in Ticks : WF_configVars(Tick(t))
    /\ \A t \in Tasks : WF_configVars(TaskStep(t))
    /\ \A h \in Hosts : WF_configVars(PreparePoll(h))
    /\ WF_configVars(AgentStep)

ConfigSpec == ConfigInit /\ [][ConfigNext]_configVars
FairConfigSpec == ConfigSpec /\ ConfigFairness

-----------------------------------------------------------------------------
(* Properties. *)

(* getAwgNavState: what a page says of the tunnel, from the status it was given: none *)
(* within 500 ms, one without the tunnel because `awg show` failed, or a whole one;  *)
(* and from the age of the last handshake.  That a whole status is up and has no     *)
(* applyError of the agent is usable.                                               *)
NavState(status, fresh) ==
    IF stored = None THEN "off"
    ELSE IF status = "none" THEN "unreachable"
    ELSE IF rowError \/ ~usable \/ status = "failed" THEN "down"
    ELSE IF fresh THEN "up" ELSE "idle"

(* The agent has what the row says, and a page that is given a whole status says     *)
(* whether the configuration of the row works.                                      *)
Agrees ==
    /\ told = stored
    /\ rowError = (stored \in Broken)
    /\ \A fresh \in BOOLEAN :
          NavState("whole", fresh) = IF stored = None THEN "off"
                                     ELSE IF stored \in Broken THEN "down"
                                     ELSE IF fresh THEN "up" ELSE "idle"

(* Once rows are no longer changed and faults end, the agent agrees with the row and *)
(* stays so, whatever late syncs, saves, deletes and lost requests left behind.  What *)
(* pages say still comes and goes with their own requests and with handshakes.      *)
AgentFollowsRow == <>[]Agrees

(* ...and only the nodes of now have a route. *)
RoutesFollowNodes == <>[](routed \subseteq nodes)

=============================================================================
