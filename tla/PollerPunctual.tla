--------------------------- MODULE PollerPunctual ---------------------------
(***************************************************************************)
(* PollerLease with history variables that tell punctual pollers from      *)
(* stalled ones.  The fence compares the epoch of a poll with what the     *)
(* process remembers, never with the row: whether one poller alone writes  *)
(* is therefore a matter of time.                                          *)
(***************************************************************************)
EXTENDS PollerLease

\* POLLER_LEASE_TTL_SEC is three times POLL_INTERVAL_SEC: the lease outlives
\* two ends of an interval, wherever in its interval it was renewed.
ASSUME PunctualAssumption == Ttl > 2

VARIABLES
    answered,   \* [Pollers -> a tick was answered in this interval]
    waiting,    \* ticks that have been in ensureLease since before this interval
    late        \* [Pollers -> the process has stalled once]

timedVars == <<vars, answered, waiting, late>>

\* Ticks whose ensureLease is under way
Asking == {x \in Pollers \X Ticks : pc[x] \notin {"idle", "leased"}}

TimedInit ==
    /\ Init
    /\ answered = [p \in Pollers |-> FALSE]
    /\ waiting = {}
    /\ late = [p \in Pollers |-> FALSE]

HandleAnswer(p) == \E t \in Ticks :
    HandleRenewed(p, t) \/ HandleAcquired(p, t) \/ HandleDenied(p, t)

\* A process stalls when it gets no answer in an interval, outlives its
\* failsafe included, or when one ensureLease takes a whole interval.
Stalls(p) ==
    /\ status[p] # "down"
    /\ ~answered[p] \/ \E t \in Ticks : <<p, t>> \in waiting

\* Something happens within an interval; a new process has no history.
Within ==
    /\ ProcessNext
    /\ answered' = [p \in Pollers |->
                       status'[p] # "down" /\ (answered[p] \/ HandleAnswer(p))]
    /\ waiting' = waiting \cap Asking'
    /\ late' = [p \in Pollers |-> status'[p] # "down" /\ late[p]]

\* The interval ends, and who stalled in it is late from then on.
IntervalEnds ==
    /\ TimePasses
    /\ answered' = [p \in Pollers |-> FALSE]
    /\ waiting' = Asking
    /\ late' = [p \in Pollers |-> late[p] \/ Stalls(p)]

TimedSpec == TimedInit /\ [][Within \/ IntervalEnds]_timedVars

MayWrite(p) == CanCommitPoll(p) \/ jobPhase[p] = "writing"

\* Of the pollers that never stalled, at most one may write, however many of
\* their ticks overlap: the lease outlives the gap between two answers and the
\* time a process is given to stop, so only a process that stalled can find
\* itself writing beside a new owner.
PunctualWriterIsAlone ==
    \A p, q \in Pollers :
        MayWrite(p) /\ MayWrite(q) /\ ~late[p] /\ ~late[q] => p = q
=============================================================================
