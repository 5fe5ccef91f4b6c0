------------------------------- MODULE BlockCheck -------------------------------
(* gate-poller asks cheburcheck about the public host of every server and stores   *)
(* the verdict in the rows that have that host                                     *)
(* (src/src/server/services/block-check.service.ts, lib/block-check/schedule.ts).  *)
(* Times are ages and waits, counted in ticks and cut off where nothing depends on *)
(* more.                                                                           *)
EXTENDS BlockQuery

CONSTANTS
    Servers,   \* rows, numbered in the order of their names
    Hosts,     \* host keys, numbered in the order of their text
    Private,   \* hosts that stay inside the program
    Dead,      \* hosts about which cheburcheck never answers in time
    Refreshes, \* refreshes that may run at once
    Interval, Backoff, RateLimit, Gap, \* BLOCK_CHECK_*_MS in ticks
    FailLimit, \* BLOCK_CHECK_OUTBOUND_FAIL_LIMIT
    MaxAge,    \* ages are not told apart from here on
    MaxEdits, MaxFaults

ASSUME CheckAssumption ==
    /\ Servers \subseteq Nat /\ Hosts \subseteq Nat /\ IsFiniteSet(Hosts)
    /\ Private \subseteq Hosts /\ Dead \subseteq Hosts
    /\ Gap \in Nat \ {0} /\ Backoff \in Nat \ {0} /\ Interval \in Nat \ {0} /\ RateLimit \in Nat \ {0}
    /\ Gap < Backoff /\ Backoff < Interval /\ Interval < RateLimit /\ MaxAge \in Nat /\ Interval <= MaxAge
    /\ FailLimit \in Nat \ {0}
    /\ MaxEdits \in Nat /\ MaxFaults \in Nat

VARIABLES
    rows,       \* the servers: host, verdict, its age, and the host it is about
    mem,        \* state.hosts: age of the last verdict of a host, and its own backoff
    wait,       \* what is left of state.backoffUntil
    sinceProbe, \* age of state.lastProbeStartedAt
    leased,     \* the process has an epoch
    stopping,   \* pollerRuntime.stopping
    refresh,    \* the refreshes that run
    edits, faults

checkVars == <<rows, mem, wait, sinceProbe, leased, stopping, refresh, edits, faults>>
processVars == <<mem, wait, sinceProbe, leased, stopping, refresh>>

Age == 0..MaxAge \cup {Null}
Statuses == {"unrestricted", "blocked"}
Row == [host : Hosts, status : Statuses \cup {Null}, age : Age, about : Hosts \cup {Null}, moved : BOOLEAN]
HostBlockState == [age : Age, wait : 0..Backoff]
ASSUME StateAssumption == Null \notin HostBlockState

Idle == [step |-> "idle", snapshot |-> [r \in Servers |-> Null], due |-> <<>>, keeps |-> 0,
         aborted |-> FALSE, stale |-> FALSE, delay |-> 0, status |-> Null, age |-> 0]

Due(f) == Head(refresh[f].due)

CheckTypeOK ==
    /\ rows \in [Servers -> Row \cup {Null}]
    /\ mem \in [Hosts -> HostBlockState \cup {Null}]
    /\ wait \in 0..RateLimit
    /\ sinceProbe \in 0..Gap
    /\ leased \in BOOLEAN /\ stopping \in BOOLEAN
    /\ refresh \in [Refreshes ->
            [step : {"idle", "list", "check", "gap", "probe", "persist"},
             snapshot : [Servers -> Hosts \cup {Null}], due : Seq(Hosts), keeps : 0..FailLimit,
             aborted : BOOLEAN, stale : BOOLEAN, delay : 0..Gap,
             status : Statuses \cup {Null}, age : 0..MaxAge]]
    /\ \A f \in Refreshes : refresh[f].step \in {"check", "gap", "probe", "persist"} =>
            refresh[f].due # <<>> /\ mem[Due(f)] # Null
    /\ edits \in 0..MaxEdits /\ faults \in 0..MaxFaults

CheckInit ==
    /\ rows = [r \in Servers |-> Null]
    /\ mem = [h \in Hosts |-> Null]
    /\ wait = 0 /\ sinceProbe = Gap
    /\ leased = FALSE /\ stopping = FALSE
    /\ refresh = [f \in Refreshes |-> Idle]
    /\ edits = 0 /\ faults = 0

Fault == faults < MaxFaults /\ faults' = faults + 1

--------------------------------------------------------------------------------
(* The rows, as gate-app changes them.  Access to a server is changed without a    *)
(* thought for the verdict, which was about the old host.                          *)
Edit(r) ==
    /\ edits < MaxEdits /\ edits' = edits + 1
    /\ UNCHANGED <<processVars, faults>>

Create(r, host) ==
    /\ rows[r] = Null /\ \A f \in Refreshes : refresh[f].snapshot[r] = Null \* a new id
    /\ rows' = [rows EXCEPT ![r] = [host |-> host, status |-> Null, age |-> Null, about |-> Null, moved |-> FALSE]]
    /\ Edit(r)

Move(r, host) ==
    /\ rows[r] # Null /\ rows[r].host # host
    /\ rows' = [rows EXCEPT ![r].host = host, ![r].moved = TRUE]
    /\ Edit(r)

Delete(r) ==
    /\ rows[r] # Null
    /\ rows' = [rows EXCEPT ![r] = Null]
    /\ Edit(r)

--------------------------------------------------------------------------------
(* Time, and the process around the refresh.                                       *)
Older(age) == IF age = Null THEN Null ELSE IF age = MaxAge THEN MaxAge ELSE age + 1
Less(n) == IF n = 0 THEN 0 ELSE n - 1

Pass ==
    /\ rows' = [r \in Servers |-> IF rows[r] = Null THEN Null ELSE [rows[r] EXCEPT !.age = Older(@)]]
    /\ mem' = [h \in Hosts |-> IF mem[h] = Null THEN Null
                               ELSE [age |-> Older(mem[h].age), wait |-> Less(mem[h].wait)]]
    /\ wait' = Less(wait)
    /\ sinceProbe' = IF sinceProbe = Gap THEN Gap ELSE sinceProbe + 1
    /\ refresh' = [f \in Refreshes |-> [refresh[f] EXCEPT !.delay = Less(@),
                       !.age = IF refresh[f].step = "persist" THEN Older(@) ELSE @]]
    /\ UNCHANGED <<leased, stopping, edits, faults>>

(* Whatever runs was started under another epoch from now on.                      *)
Restamped == [f \in Refreshes |-> IF refresh[f].step = "idle" THEN Idle ELSE [refresh[f] EXCEPT !.stale = TRUE]]

Lease ==
    /\ ~leased /\ leased' = TRUE
    /\ UNCHANGED <<rows, mem, wait, sinceProbe, stopping, refresh, edits, faults>>

LoseLease ==
    /\ leased /\ leased' = FALSE
    /\ refresh' = Restamped
    /\ Fault
    /\ UNCHANGED <<rows, mem, wait, sinceProbe, stopping, edits>>

Stop ==
    /\ ~stopping /\ stopping' = TRUE
    /\ refresh' = [f \in Refreshes |-> IF refresh[f].step = "idle" THEN Idle ELSE [refresh[f] EXCEPT !.aborted = TRUE]]
    /\ Fault
    /\ UNCHANGED <<rows, mem, wait, sinceProbe, leased, edits>>

(* The next process knows nothing but the rows.  A stop waits for the refresh; a    *)
(* crash does not.                                                                  *)
Restart ==
    /\ mem' = [h \in Hosts |-> Null]
    /\ wait' = 0 /\ sinceProbe' = Gap
    /\ leased' = FALSE /\ stopping' = FALSE
    /\ refresh' = [f \in Refreshes |-> Idle]
    /\ UNCHANGED <<rows, edits>>

Stopped ==
    /\ stopping /\ \A f \in Refreshes : refresh[f].step = "idle"
    /\ Restart /\ UNCHANGED faults

Crash == Restart /\ Fault

--------------------------------------------------------------------------------
(* ensureBlockCheckRefresh *)
refreshInflight == \E f \in Refreshes : refresh[f].step # "idle"

(* Mutant: a refresh starts while another one runs.                                *)
ShouldStartAnyhow == wait = 0

shouldStartBlockCheckRefresh == wait = 0 /\ ~refreshInflight

Ensure(f) ==
    /\ leased /\ ~stopping
    /\ shouldStartBlockCheckRefresh
    /\ refresh[f].step = "idle" /\ f = CHOOSE idle \in Refreshes : refresh[idle].step = "idle"
    /\ refresh' = [refresh EXCEPT ![f].step = "list"]
    /\ UNCHANGED <<rows, mem, wait, sinceProbe, leased, stopping, edits, faults>>

canWrite(f) == ~stopping /\ leased /\ ~refresh[f].stale
GoesOn(f) == ~refresh[f].aborted /\ canWrite(f)

--------------------------------------------------------------------------------
(* refresh: list the servers, forget hosts that are gone, and put those that are   *)
(* due in order.                                                                   *)
isHostDue(known) == known.wait = 0 /\ (known.age = Null \/ known.age >= Interval)

(* Never-checked hosts come first, then the oldest verdict; ties keep name order.  *)
Sooner(known, g, h) ==
    \/ known[g].age = Null /\ known[h].age # Null
    \/ known[g].age # Null /\ known[h].age # Null /\ known[g].age > known[h].age
    \/ known[g].age = known[h].age /\ g < h

dueHostOrder(known) ==
    LET due == {h \in Hosts : known[h] # Null /\ isHostDue(known[h])}
    IN  CHOOSE order \in [1..Cardinality(due) -> due] :
            \A i, j \in DOMAIN order : i < j => Sooner(known, order[i], order[j])

Listed(h) == h \notin Private /\ \E r \in Servers : rows[r] # Null /\ rows[r].host = h

hydrateHost(h) ==
    IF mem[h] # Null THEN mem[h]
    ELSE LET named == {r \in Servers : rows[r] # Null /\ rows[r].host = h}
             first == CHOOSE r \in named : \A s \in named : r <= s
         IN  [age |-> rows[first].age, wait |-> 0]

Known == [h \in Hosts |-> IF Listed(h) THEN hydrateHost(h) ELSE Null]

List(f) ==
    /\ refresh[f].step = "list"
    /\ mem' = Known
    /\ refresh' = [refresh EXCEPT ![f] =
            IF dueHostOrder(Known) = <<>> \/ ~GoesOn(f) THEN Idle
            ELSE [@ EXCEPT !.step = "check", !.due = dueHostOrder(Known),
                           !.snapshot = [r \in Servers |-> IF rows[r] = Null THEN Null ELSE rows[r].host]]]
    /\ UNCHANGED <<rows, wait, sinceProbe, leased, stopping, edits, faults>>

(* A statement of the refresh fails: the whole refresh ends and backs off.         *)
StatementFails(f) ==
    /\ refresh[f].step \in {"list", "persist"}
    /\ wait' = Backoff
    /\ refresh' = [refresh EXCEPT ![f] = Idle]
    /\ Fault
    /\ UNCHANGED <<rows, mem, sinceProbe, leased, stopping, edits>>

--------------------------------------------------------------------------------
(* The loop of the refresh, from one host to the next (block-check.service.ts:207). *)
After(f, keeps) ==
    IF Len(refresh[f].due) = 1 \/ ~GoesOn(f) THEN Idle
    ELSE [Idle EXCEPT !.step = "check", !.snapshot = refresh[f].snapshot,
                      !.due = Tail(refresh[f].due), !.keeps = keeps]

isOutboundKeep(code) == code = 0 \/ code >= 500 \/ code = 429

(* Mutant: one failure fewer is enough.                                            *)
BackoffTooSoon(code, keeps) ==
    CASE code = 429 -> RateLimit
      [] code # 429 /\ keeps + 1 >= FailLimit -> Backoff
      [] OTHER -> 0

globalBackoffAfterOutcome(code, keeps) ==
    CASE code = 429 -> RateLimit
      [] code # 429 /\ keeps >= FailLimit -> Backoff
      [] OTHER -> 0

(* A process that must not write leaves its own state alone as well.               *)
KeepVerdict(f, code) ==
    LET keeps == IF isOutboundKeep(code) THEN refresh[f].keeps + 1 ELSE 0
        pause == globalBackoffAfterOutcome(code, keeps)
    IN  /\ mem' = IF GoesOn(f) THEN [mem EXCEPT ![Due(f)].wait = Backoff] ELSE mem
        /\ wait' = IF GoesOn(f) /\ pause > 0 THEN pause ELSE wait
        /\ refresh' = [refresh EXCEPT ![f] = IF pause > 0 THEN Idle ELSE After(f, keeps)]

TakeVerdict(f, status) ==
    /\ refresh' = [refresh EXCEPT ![f] =
            IF GoesOn(f) THEN [@ EXCEPT !.step = "persist", !.status = status] ELSE Idle]
    /\ UNCHANGED <<mem, wait>>

(* Mutant: an answer without a verdict is stored like one.                         *)
StoreAnyway(f, outcome) == TakeVerdict(f, outcome.status)

QueryEnds(f, outcome) ==
    IF outcome.status = Null THEN KeepVerdict(f, outcome.code) ELSE TakeVerdict(f, outcome.status)

(* What the outside adds: about a dead host there is never an answer, and any other *)
(* query may go unanswered or be refused.                                          *)
Unanswered(outcome) == outcome.status = Null /\ isOutboundKeep(outcome.code)

Answered(f, outcomes) ==
    \E outcome \in outcomes :
        /\ IF Due(f) \in Dead THEN Unanswered(outcome) /\ outcome.code # 429 /\ UNCHANGED faults
           ELSE IF Unanswered(outcome) THEN Fault ELSE UNCHANGED faults
        /\ QueryEnds(f, outcome)
        /\ UNCHANGED <<rows, sinceProbe, leased, stopping, edits>>

ProbelessOutcomes == {WithoutProbe(check) : check \in {c \in Check : ~NeedsProbe(c)}}
ProbedOutcomes ==
    {WithProbe(body, stream) : body \in [registryBlocked : BOOLEAN, isStaticCdn : BOOLEAN, id : {"accepted"}],
                               stream \in Stream}

(* queryCheburcheck: the check is answered, and that is all there is ...           *)
CheckIsAll(f) ==
    /\ refresh[f].step = "check"
    /\ Answered(f, ProbelessOutcomes)

(* ... or it names a probe, which waits until the last one is long enough ago.     *)
probeDelay == Gap - sinceProbe

CheckNamesProbe(f) ==
    /\ refresh[f].step = "check" /\ ~refresh[f].aborted
    /\ refresh' = [refresh EXCEPT ![f].step = "gap", ![f].delay = probeDelay]
    /\ UNCHANGED <<rows, mem, wait, sinceProbe, leased, stopping, edits, faults>>

BeginProbe(f) ==
    /\ refresh[f].step = "gap" /\ ~refresh[f].aborted /\ refresh[f].delay = 0
    /\ sinceProbe' = 0
    /\ refresh' = [refresh EXCEPT ![f].step = "probe"]
    /\ UNCHANGED <<rows, mem, wait, leased, stopping, edits, faults>>

AbortedInGap(f) ==
    /\ refresh[f].step = "gap" /\ refresh[f].aborted
    /\ refresh' = [refresh EXCEPT ![f] = Idle]
    /\ UNCHANGED <<rows, mem, wait, sinceProbe, leased, stopping, edits, faults>>

ProbeEnds(f) ==
    /\ refresh[f].step = "probe"
    /\ Answered(f, ProbedOutcomes)

(* Mutant: the verdict goes to every server of the list.                           *)
AllListed(f) == {r \in Servers : refresh[f].snapshot[r] # Null}

idsForHost(f) == {r \in Servers : refresh[f].snapshot[r] = Due(f)}

(* persistVerdict, by the ids that had the host when the servers were listed.      *)
Persist(f) ==
    /\ refresh[f].step = "persist"
    /\ rows' = [r \in Servers |->
            IF r \in idsForHost(f) /\ rows[r] # Null
            THEN [rows[r] EXCEPT !.status = refresh[f].status, !.age = refresh[f].age, !.about = Due(f),
                                 !.moved = @ /\ rows[r].host # Due(f)]
            ELSE rows[r]]
    /\ mem' = [mem EXCEPT ![Due(f)] = [age |-> refresh[f].age, wait |-> 0]]
    /\ refresh' = [refresh EXCEPT ![f] = After(f, 0)]
    /\ UNCHANGED <<wait, sinceProbe, leased, stopping, edits, faults>>

--------------------------------------------------------------------------------
CheckNext ==
    \/ \E r \in Servers : Delete(r) \/ \E h \in Hosts : Create(r, h) \/ Move(r, h)
    \/ Pass \/ Lease \/ LoseLease \/ Stop \/ Stopped \/ Crash
    \/ \E f \in Refreshes :
          \/ Ensure(f) \/ List(f) \/ StatementFails(f)
          \/ CheckIsAll(f) \/ CheckNamesProbe(f) \/ BeginProbe(f) \/ AbortedInGap(f) \/ ProbeEnds(f)
          \/ Persist(f)

CheckSpec == CheckInit /\ [][CheckNext]_checkVars

(* Time passes; gate-poller is started again and gets the lease, its tick asks for  *)
(* a refresh again and again, statements return, and every request has a timeout.  *)
CheckFairness ==
    /\ WF_checkVars(Pass) /\ WF_checkVars(Lease) /\ WF_checkVars(Stopped)
    /\ \A f \in Refreshes :
          /\ WF_checkVars(Ensure(f)) /\ WF_checkVars(List(f)) /\ WF_checkVars(CheckIsAll(f) \/ CheckNamesProbe(f))
          /\ WF_checkVars(BeginProbe(f)) /\ WF_checkVars(AbortedInGap(f)) /\ WF_checkVars(ProbeEnds(f)) /\ WF_checkVars(Persist(f))

FairCheckSpec == CheckSpec /\ CheckFairness

--------------------------------------------------------------------------------
(* A verdict in a row is about the host of the row, unless that host was changed    *)
(* after the verdict or while the query was under way (block-check.service.ts:85).  *)
VerdictIsAboutItsHost ==
    \A r \in Servers : rows[r] # Null =>
        /\ rows[r].about # Null => rows[r].about = rows[r].host \/ rows[r].moved
        /\ rows[r].status = Null <=> rows[r].about = Null

(* Whatever stream ends a probe, it makes the verdict that a whole and current set   *)
(* of replies justifies, and none if replies are missing (client.ts:261-284).        *)
VerdictRestsOnWholeProbe ==
    \A f \in Refreshes : refresh[f].step = "probe" => QueryFollowsReference

(* The verdict of a row is only ever replaced by a newer one: it is not lost when   *)
(* cheburcheck cannot be reached, and not by a refresh that hangs (README.md:134,    *)
(* block-check.service.ts:142).                                                    *)
VerdictsAreOnlyRenewed ==
    [][\A r \in Servers : rows[r] # Null /\ rows'[r] # Null /\ rows[r].status # Null =>
          /\ rows'[r].status # Null
          /\ <<rows'[r].status, rows'[r].about>> # <<rows[r].status, rows[r].about>> => rows'[r].age <= rows[r].age]_checkVars

(* Fewer dead hosts than end a refresh cannot keep it from the others: each of       *)
(* those is asked about again and again while a server has it                       *)
(* (block-check.service.ts:207-233, schedule.ts:35).                                *)
EveryHostIsAsked ==
    \A h \in Hosts \ (Private \cup Dead) :
        []<>(\/ \A r \in Servers : rows[r] = Null \/ rows[r].host # h
            \/ \E f \in Refreshes : refresh[f].step = "check" /\ Due(f) = h)
================================================================================
