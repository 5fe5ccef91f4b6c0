----------------------------- MODULE SshSessions -----------------------------
(***************************************************************************)
(* The SSH sessions of one server: SshSessionRegistry                      *)
(* (lib/ssh/session-registry.ts) and the polls that use it (pollRemote of  *)
(* collector.service.ts with withDeadline of lib/ssh/client.ts and         *)
(* shouldRetrySshPoll of lib/ssh/errors.ts).                               *)
(*                                                                         *)
(* Everything runs in one JavaScript thread: an action is what one task    *)
(* does between two awaits.  A retry calls acquire in the task of the      *)
(* failure; here other tasks may come between, which allows more.  The     *)
(* registry keeps its sessions by server and never mixes servers, so one   *)
(* server stands for all.                                                  *)
(***************************************************************************)
EXTENDS Naturals, FiniteSets

CONSTANTS
    Polls,      \* polls of the server that may be under way at once
    Configs,    \* fingerprints of its SSH configuration
    Clients,    \* slots for SshClient objects, more than there are polls
    None        \* no client

ASSUME NoneAssumption == None \notin Clients \cup Configs

VARIABLES
    config,     \* the configuration in the database
    client,     \* [Clients -> state of the object]
    entry,      \* entries.get(id): a client or None
    inflight,   \* inflight.get(id): the client that open() connects, or None
    poll        \* [Polls -> where pollRemote is]

vars == <<config, client, entry, inflight, poll>>

\* An object that is not used, or that has ended
Dead == [at |-> "dead", fingerprint |-> None, current |-> FALSE, old |-> FALSE,
         lost |-> FALSE]
Idle == [at |-> "idle", fingerprint |-> None, client |-> None, retried |-> FALSE,
         late |-> FALSE]

\* refused, denied and revoked are what a rejected open() leaves for those who
\* await it: a transport error, an authentication error, SshSessionRevokedError.
Rejections == {"refused", "denied", "revoked"}

Objects == [at : {"dead", "connecting", "alive"} \cup Rejections,
            fingerprint : Configs \cup {None},
            current : BOOLEAN,   \* generation did not change since open()
            old : BOOLEAN,       \* maxAgeMs have passed
            lost : BOOLEAN]      \* closed before "ready": connect never settles

Tasks == [at : {"idle", "acquire", "opening", "waiting", "ready", "read"},
          fingerprint : Configs \cup {None},
          client : Clients \cup {None},
          retried : BOOLEAN,     \* alreadyRetried
          late : BOOLEAN]        \* remaining() is 0

TypeOK ==
    /\ config \in Configs
    /\ client \in [Clients -> Objects]
    /\ entry \in Clients \cup {None}
    /\ inflight \in Clients \cup {None}
    /\ poll \in [Polls -> Tasks]
    /\ \A p \in Polls : poll[p].client = None <=> poll[p].at \in {"idle", "acquire"}

Init ==
    /\ config \in Configs
    /\ client = [c \in Clients |-> Dead]
    /\ entry = None
    /\ inflight = None
    /\ poll = [p \in Polls |-> Idle]

-----------------------------------------------------------------------------
(* SshSessionRegistry *)

\* Mutant: a session of another configuration will do.
isAlive(c, fingerprint) == client[c].at = "alive" /\ ~client[c].old

isReusable(c, fingerprint) ==
    /\ client[c].at = "alive"
    /\ client[c].fingerprint = fingerprint
    /\ ~client[c].old

\* What invalidate leaves of the clients: the generation is counted up, and
\* the session that was registered is ended.
Invalidated ==
    [c \in Clients |-> IF c = entry THEN Dead
                       ELSE [client[c] EXCEPT !.current = FALSE]]

invalidate ==
    /\ client' = Invalidated
    /\ entry' = None
    /\ inflight' = None

\* A rejected open() is remembered while another poll still awaits it.
Rejected(p, c, how) ==
    IF \E q \in Polls \ {p} : poll[q].client = c
    THEN [client[c] EXCEPT !.at = how] ELSE Dead

Goto(p, stage, c) == poll' = [poll EXCEPT ![p].at = stage, ![p].client = c]

\* Slots that can be taken for a new object
Unused(cs) == {c \in Clients \ {entry} : cs[c] = Dead /\ \A q \in Polls : poll[q].client # c}

\* open(), up to its await of connect, over the clients cs
Open(p, cs) ==
    LET c == CHOOSE c \in Unused(cs) : TRUE
    IN  /\ Unused(cs) # {}
        /\ client' = [cs EXCEPT ![c] = [at |-> "connecting",
                                        fingerprint |-> poll[p].fingerprint,
                                        current |-> TRUE, old |-> FALSE,
                                        lost |-> FALSE]]
        /\ inflight' = c
        /\ Goto(p, "opening", c)

\* Mutant: acquire does not look for a connect under way.
AcquireAlone(p) ==
    /\ poll[p].at = "acquire"
    /\ \/ /\ entry # None /\ isReusable(entry, poll[p].fingerprint)
          /\ Goto(p, "ready", entry)
          /\ UNCHANGED <<client, entry, inflight>>
       \/ /\ entry # None /\ ~isReusable(entry, poll[p].fingerprint)
          /\ Open(p, Invalidated)
          /\ entry' = None
       \/ /\ entry = None
          /\ Open(p, client)
          /\ UNCHANGED entry
    /\ UNCHANGED config

\* acquire(), up to its first await
Acquire(p) ==
    /\ poll[p].at = "acquire"
    /\ \/ /\ entry # None /\ isReusable(entry, poll[p].fingerprint)
          /\ Goto(p, "ready", entry)
          /\ UNCHANGED <<client, entry, inflight>>
       \/ /\ entry # None /\ ~isReusable(entry, poll[p].fingerprint)
          /\ Open(p, Invalidated)
          /\ entry' = None
       \/ /\ entry = None /\ inflight # None
          /\ Goto(p, "waiting", inflight)
          /\ UNCHANGED <<client, entry, inflight>>
       \/ /\ entry = None /\ inflight = None
          /\ Open(p, client)
          /\ UNCHANGED entry
    /\ UNCHANGED config

\* The open() that p waited for succeeded, but not with a session for p.
OpenAfterWaiting(p) ==
    LET c == poll[p].client
    IN  /\ poll[p].at = "waiting"
        /\ client[c].at \in {"alive", "dead"}
        /\ IF isReusable(c, poll[p].fingerprint)
           THEN /\ Goto(p, "ready", c)
                /\ UNCHANGED <<client, entry, inflight>>
           ELSE /\ Open(p, IF entry = c THEN Invalidated ELSE client)
                /\ entry' = IF entry = c THEN None ELSE entry
        /\ UNCHANGED config

\* Mutant: the generation is not compared after connect.
ConnectsUnchecked(p) ==
    LET c == poll[p].client
    IN  /\ poll[p].at = "opening" /\ ~client[c].lost
        /\ client' = [client EXCEPT ![c].at = "alive"]
        /\ entry' = c
        /\ inflight' = IF inflight = c THEN None ELSE inflight
        /\ Goto(p, "ready", c)
        /\ UNCHANGED config

\* connect resolves.  The session is registered and its owner goes on, unless
\* the server was invalidated meanwhile: then it is ended, and the poll fails.
Connects(p) ==
    LET c == poll[p].client
    IN  /\ poll[p].at = "opening" /\ ~client[c].lost
        /\ inflight' = IF inflight = c THEN None ELSE inflight
        /\ IF client[c].current
           THEN /\ client' = [client EXCEPT ![c].at = "alive"]
                /\ entry' = c
                /\ Goto(p, "ready", c)
           ELSE /\ client' = [client EXCEPT ![c] = Rejected(p, c, "revoked")]
                /\ poll' = [poll EXCEPT ![p] = Idle]
                /\ UNCHANGED entry
        /\ UNCHANGED config

-----------------------------------------------------------------------------
(* pollRemote *)

\* Mutant: the second attempt does not know that it is the second.
RetryForever(p) ==
    poll' = [poll EXCEPT ![p] = [@ EXCEPT !.at = "acquire", !.client = None]]

\* Mutant: the second attempt begins with the session of the first.
RetryWithSession(p) ==
    poll' = [poll EXCEPT ![p] = IF @.retried THEN Idle
                ELSE [@ EXCEPT !.at = "acquire", !.retried = TRUE]]

\* A transport error is retried once.
Retry(p) ==
    poll' = [poll EXCEPT ![p] = IF @.retried THEN Idle
                ELSE [@ EXCEPT !.at = "acquire", !.client = None, !.retried = TRUE]]

Fail(p) == poll' = [poll EXCEPT ![p] = Idle]

\* pollServer read the row of the server.
StartPoll(p) ==
    /\ poll[p].at = "idle"
    /\ poll' = [poll EXCEPT ![p] = [Idle EXCEPT !.at = "acquire",
                                               !.fingerprint = config]]
    /\ UNCHANGED <<config, client, entry, inflight>>

\* connect rejects: transport errors invalidate, others do not.
ConnectFails(p) ==
    LET c == poll[p].client
    IN  /\ poll[p].at = "opening" /\ ~client[c].lost
        /\ \/ /\ client' = [Invalidated EXCEPT ![c] = Rejected(p, c, "refused")]
              /\ entry' = None
              /\ inflight' = None
              /\ Retry(p)
           \/ /\ client' = [client EXCEPT ![c] = Rejected(p, c, "denied")]
              /\ inflight' = IF inflight = c THEN None ELSE inflight
              /\ Fail(p)
              /\ UNCHANGED entry
        /\ UNCHANGED config

\* The open() that p waited for was rejected, and p with it.
WaitFails(p) ==
    LET c == poll[p].client
    IN  /\ poll[p].at = "waiting"
        /\ \/ /\ client[c].at = "refused"
              /\ client' = [Invalidated EXCEPT ![c] = Rejected(p, c, "refused")]
              /\ entry' = None
              /\ inflight' = None
              /\ Retry(p)
           \/ /\ client[c].at \in {"denied", "revoked"}
              /\ client' = [client EXCEPT ![c] = Rejected(p, c, @.at)]
              /\ Fail(p)
              /\ UNCHANGED <<entry, inflight>>
        /\ UNCHANGED config

\* readVpnState starts.  When no time is left, withDeadline ends the session
\* and throws before it awaits the read, whose error nobody will handle then.
BeginRead(p) ==
    /\ poll[p].at = "ready"
    /\ IF poll[p].late
       THEN invalidate /\ Retry(p)
       ELSE /\ poll' = [poll EXCEPT ![p].at = "read"]
            /\ UNCHANGED <<client, entry, inflight>>
    /\ UNCHANGED config

\* The VPN answered, or an error came that is no transport error.
ReadEnds(p) ==
    /\ poll[p].at = "read"
    /\ Fail(p)
    /\ UNCHANGED <<config, client, entry, inflight>>

\* A transport error: the connection broke, somebody ended it, or a command
\* timed out, which ends it.
ReadBreaks(p) ==
    /\ poll[p].at = "read"
    /\ client' = [Invalidated EXCEPT ![poll[p].client] = Dead]
    /\ entry' = None
    /\ inflight' = None
    /\ Retry(p)
    /\ UNCHANGED config

\* withDeadline gives up.
Deadline(p) ==
    /\ poll[p].at = "read" /\ poll[p].late
    /\ invalidate
    /\ Retry(p)
    /\ UNCHANGED config

-----------------------------------------------------------------------------
(* The rest of the process and the world *)

\* closeAll when the lease is lost, prune when the row is gone: they reach the
\* servers of knownIds().
CloseAll ==
    /\ entry # None \/ inflight # None
    /\ invalidate
    /\ UNCHANGED <<config, poll>>

\* updateServer and deleteServer, where the web runs in the poller's process
InvalidateServer ==
    /\ invalidate
    /\ UNCHANGED <<config, poll>>

ChangeConfig ==
    /\ config' \in Configs \ {config}
    /\ UNCHANGED <<client, entry, inflight, poll>>

\* The connection ends after the greeting of the SSH server and before "ready".
\* ssh2 then emits "end" and "close" but no "error" and stops its readyTimeout;
\* the handlers of these two settle nothing, and acquire has no deadline.
ConnectLost(c) ==
    /\ client[c].at = "connecting" /\ ~client[c].lost
    /\ client' = [client EXCEPT ![c].lost = TRUE]
    /\ UNCHANGED <<config, entry, inflight, poll>>

\* Keepalive fails, or the server closes the connection.
Drop(c) ==
    /\ client[c].at = "alive"
    /\ client' = [client EXCEPT ![c] = Dead]
    /\ UNCHANGED <<config, entry, inflight, poll>>

\* SESSION_MAX_AGE_MS go by.
GrowOld(c) ==
    /\ client[c].at = "alive" /\ ~client[c].old
    /\ client' = [client EXCEPT ![c].old = TRUE]
    /\ UNCHANGED <<config, entry, inflight, poll>>

\* POLL_DEADLINE_MS go by.
GrowLate(p) ==
    /\ poll[p].at # "idle" /\ ~poll[p].late
    /\ poll' = [poll EXCEPT ![p].late = TRUE]
    /\ UNCHANGED <<config, client, entry, inflight>>

\* The process is killed, or the unhandled error of a read (BeginRead) ends it.
ProcessDies ==
    /\ client' = [c \in Clients |-> Dead]
    /\ entry' = None
    /\ inflight' = None
    /\ poll' = [p \in Polls |-> Idle]
    /\ UNCHANGED config

\* Who awaits an open() that succeeded is resumed in the same drain of the
\* microtask queue, before anything else happens.
NobodyToResume == \A p \in Polls :
    poll[p].at = "waiting" => client[poll[p].client].at \in {"connecting"} \cup Rejections

PollStep(p) ==
    \/ Acquire(p) \/ WaitFails(p) \/ Connects(p) \/ ConnectFails(p)
    \/ BeginRead(p) \/ ReadEnds(p) \/ ReadBreaks(p) \/ Deadline(p)

WorldStep ==
    \/ \E p \in Polls : StartPoll(p) \/ GrowLate(p)
    \/ \E c \in Clients : ConnectLost(c) \/ Drop(c) \/ GrowOld(c)
    \/ CloseAll \/ InvalidateServer \/ ChangeConfig \/ ProcessDies

Progress(p) ==
    \/ OpenAfterWaiting(p)
    \/ NobodyToResume /\ PollStep(p)

Next ==
    \/ \E p \in Polls : Progress(p)
    \/ NobodyToResume /\ WorldStep

Spec == Init /\ [][Next]_vars

\* A connect that is not lost has readyTimeout, every command has a timeout and
\* the read a deadline, and what is resolved is resumed.
FairSpec == Spec /\ \A p \in Polls : WF_vars(Progress(p))

-----------------------------------------------------------------------------
(* Properties *)

\* A session that lives is the registered one of the current generation: no
\* connection is left open that nobody would close, and none that was
\* connecting when closeAll, prune or invalidate came is kept.
NoStraySession == \A c \in Clients :
    client[c].at = "alive" => c = entry /\ client[c].current

\* closeAll and prune know of every connect that could still register its
\* session, so there is also at most one.
EveryConnectIsKnown == \A c \in Clients :
    client[c].at = "connecting" /\ client[c].current => c = inflight

\* A poll reads through a session of the configuration it started with, also
\* when it waited for the connect of another poll.
ReadsOwnServer == \A p \in Polls :
    poll[p].at \in {"ready", "read"} /\ client[poll[p].client].at = "alive"
        => client[poll[p].client].fingerprint = poll[p].fingerprint

\* The connect that p awaits, its own or another poll's, will never settle.
Hangs(p) == poll[p].at \in {"opening", "waiting"} /\ client[poll[p].client].lost

\* A poll ends, whatever fails and whoever invalidates: it retries only once.
\* The one way out is a connect that was lost before it was ready.  Nothing then
\* ends the poll but the end of its process, not even its deadline.
EveryPollEnds == \A p \in Polls :
    poll[p].at # "idle" ~> poll[p].at = "idle" \/ Hangs(p)
=============================================================================
