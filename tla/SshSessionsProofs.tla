--------------------------- MODULE SshSessionsProofs ---------------------------
(* Proofs about SshSessions, for any polls, configurations and clients.              *)
EXTENDS SshSessions, TLAPS

(* A poll that connects owns a client of its own, with its configuration; a poll that *)
(* has a session, and the registry, have none that is still to be connected.         *)
OpenersConnect == \A p \in Polls :
    poll[p].at = "opening" => /\ client[poll[p].client].at = "connecting"
                              /\ client[poll[p].client].fingerprint = poll[p].fingerprint
OneOpener == \A p, q \in Polls :
    poll[p].at = "opening" /\ poll[q].at = "opening" /\ poll[p].client = poll[q].client => p = q
Settled == \A p \in Polls :
    poll[p].at \in {"ready", "read"} => client[poll[p].client].at \in {"alive", "dead"}
EntrySettled == entry # None => client[entry].at \in {"alive", "dead"}

IInv == TypeOK /\ OpenersConnect /\ OneOpener /\ Settled /\ EntrySettled /\ ReadsOwnServer

LEMMA InitIInv == Init => IInv
BY NoneAssumption DEF Init, IInv, TypeOK, OpenersConnect, OneOpener, Settled, EntrySettled, ReadsOwnServer,
    Objects, Tasks, Dead, Idle, Rejections

--------------------------------------------------------------------------------
(* What the operations do to clients and polls.                                      *)

Others(p) == \A q \in Polls \ {p} : poll'[q] = poll[q]

Moves(p, stage, c) ==
    /\ poll' \in [Polls -> Tasks] /\ Others(p)
    /\ poll'[p].at = stage /\ poll'[p].client = c /\ poll'[p].fingerprint = poll[p].fingerprint

Leaves(p) ==
    /\ poll' \in [Polls -> Tasks] /\ Others(p)
    /\ poll'[p].at \in {"idle", "acquire"} /\ poll'[p].client = None

Opens(p, cs, c) ==
    /\ c \in Clients /\ c # entry /\ cs[c].at = "dead" /\ \A q \in Polls : poll[q].client # c
    /\ client' \in [Clients -> Objects] /\ \A d \in Clients \ {c} : client'[d] = cs[d]
    /\ client'[c].at = "connecting" /\ client'[c].current = TRUE
    /\ client'[c].fingerprint = poll[p].fingerprint
    /\ inflight' = c /\ Moves(p, "opening", c)

Cleared(cs) ==
    /\ cs \in [Clients -> Objects]
    /\ \A c \in Clients : cs[c].current = FALSE
    /\ \A c \in Clients \ {entry} : cs[c].at = client[c].at /\ cs[c].fingerprint = client[c].fingerprint
    /\ entry # None => cs[entry].at = "dead"

LEMMA DeadIsObject == Dead \in Objects /\ Dead.at = "dead" /\ Dead.current = FALSE
BY DEF Dead, Objects

LEMMA InvalidatedIsCleared ==
    ASSUME TypeOK PROVE Cleared(Invalidated)
<1>1. ASSUME NEW c \in Clients
      PROVE  /\ Invalidated[c] \in Objects /\ Invalidated[c].current = FALSE
             /\ c # entry => /\ Invalidated[c].at = client[c].at
                             /\ Invalidated[c].fingerprint = client[c].fingerprint
             /\ c = entry => Invalidated[c].at = "dead"
  <2>1. client[c] \in Objects
    BY DEF TypeOK
  <2>2. Invalidated[c] = IF c = entry THEN Dead ELSE [client[c] EXCEPT !.current = FALSE]
    BY DEF Invalidated
  <2> QED BY <2>1, <2>2, DeadIsObject DEF Objects
<1>2. Invalidated = [c \in Clients |-> Invalidated[c]]
  BY DEF Invalidated
<1>3. Invalidated \in [Clients -> Objects]
  BY <1>1, <1>2
<1> HIDE DEF Invalidated
<1> QED BY <1>1, <1>3, NoneAssumption DEF Cleared, TypeOK

LEMMA RejectedIs ==
    ASSUME TypeOK, NEW p \in Polls, NEW c \in Clients, NEW how \in Rejections
    PROVE  /\ Rejected(p, c, how) \in Objects
           /\ Rejected(p, c, how).at \in {how, "dead"}
           /\ Rejected(p, c, how).at = "dead" => \A q \in Polls \ {p} : poll[q].client # c
<1>1. client[c] \in Objects
  BY DEF TypeOK
<1>2. [client[c] EXCEPT !.at = how] \in Objects /\ [client[c] EXCEPT !.at = how].at = how
  BY <1>1 DEF Objects
<1>3. how # "dead"
  BY DEF Rejections
<1> QED BY <1>2, <1>3, DeadIsObject DEF Rejected

LEMMA IdleIsTask == Idle \in Tasks /\ Idle.at = "idle" /\ Idle.client = None
BY DEF Idle, Tasks

LEMMA RetryLeaves ==
    ASSUME TypeOK, NEW p \in Polls, Retry(p) PROVE Leaves(p)
<1> DEFINE again == [poll[p] EXCEPT !.at = "acquire", !.client = None, !.retried = TRUE]
<1>1. poll[p] \in Tasks
  BY DEF TypeOK
<1>2. again \in Tasks /\ again.at = "acquire" /\ again.client = None
  BY <1>1 DEF Tasks
<1>3. poll' = [poll EXCEPT ![p] = IF poll[p].retried THEN Idle ELSE again]
  BY DEF Retry
<1> HIDE DEF again
<1> QED BY <1>2, <1>3, IdleIsTask DEF Leaves, Others, TypeOK

LEMMA FailLeaves ==
    ASSUME TypeOK, NEW p \in Polls, Fail(p) PROVE Leaves(p)
BY IdleIsTask DEF Fail, Leaves, Others, TypeOK

LEMMA GotoMoves ==
    ASSUME TypeOK, NEW p \in Polls, NEW c \in Clients,
           NEW stage \in {"opening", "waiting", "ready"}, Goto(p, stage, c)
    PROVE  Moves(p, stage, c)
<1> DEFINE r == [poll[p] EXCEPT !.at = stage, !.client = c]
<1>1. poll[p] \in Tasks
  BY DEF TypeOK
<1>2. r \in Tasks /\ r.at = stage /\ r.client = c /\ r.fingerprint = poll[p].fingerprint
  BY <1>1 DEF Tasks
<1>3. poll' = [poll EXCEPT ![p] = r]
  BY DEF Goto
<1> HIDE DEF r
<1> QED BY <1>2, <1>3 DEF Moves, Others, TypeOK

LEMMA OpenOpens ==
    ASSUME TypeOK, NEW p \in Polls, poll[p].at # "idle", NEW cs \in [Clients -> Objects], Open(p, cs)
    PROVE  \E c : Opens(p, cs, c)
<1> DEFINE c == CHOOSE c \in Unused(cs) : TRUE
           r == [at |-> "connecting", fingerprint |-> poll[p].fingerprint, current |-> TRUE, old |-> FALSE,
                 lost |-> FALSE]
<1>1. c \in Unused(cs)
  BY DEF Open
<1>2. c \in Clients /\ c # entry /\ cs[c].at = "dead" /\ \A q \in Polls : poll[q].client # c
  BY <1>1, DeadIsObject DEF Unused
<1>3. poll[p].fingerprint \in Configs \cup {None}
  BY DEF TypeOK, Tasks
<1>4. r \in Objects /\ r.at = "connecting" /\ r.fingerprint = poll[p].fingerprint /\ r.current = TRUE
  BY <1>3 DEF Objects
<1>5. client' = [cs EXCEPT ![c] = r] /\ inflight' = c /\ Goto(p, "opening", c)
  BY DEF Open
<1>6. Moves(p, "opening", c)
  BY <1>2, <1>5, GotoMoves
<1> HIDE DEF c, r
<1>7. /\ client' \in [Clients -> Objects] /\ \A d \in Clients \ {c} : client'[d] = cs[d]
      /\ client'[c] = r
  BY <1>2, <1>4, <1>5
<1> QED BY <1>2, <1>4, <1>5, <1>6, <1>7 DEF Opens

--------------------------------------------------------------------------------
(* Steps by which clients end and polls go on without one, or with the one they have. *)
PollsGoOn ==
    /\ poll' \in [Polls -> Tasks]
    /\ \A q \in Polls :
          /\ poll'[q].client = None <=> poll'[q].at \in {"idle", "acquire"}
          /\ poll'[q].at \in {"opening", "ready", "read"} =>
                /\ poll'[q].client = poll[q].client
                /\ poll'[q].fingerprint = poll[q].fingerprint
                /\ poll'[q].at = poll[q].at \/ (poll[q].at = "ready" /\ poll'[q].at = "read")

NobodyConnects(c) == \A q \in Polls : poll'[q].at = "opening" => poll'[q].client # c

SameSession(c) == client'[c].at = client[c].at /\ client'[c].fingerprint = client[c].fingerprint

Ended(c) ==
    /\ NobodyConnects(c)
    /\ \/ client'[c].at = "dead"
       \/ client'[c].at \in Rejections /\ client[c].at \in {"connecting"} \cup Rejections

ClientsEnd ==
    /\ client' \in [Clients -> Objects]
    /\ \A c \in Clients : SameSession(c) \/ Ended(c)

RegistryForgets ==
    config' \in Configs /\ entry' \in {entry, None} /\ inflight' \in {inflight, None}

LEMMA Quieter ==
    ASSUME IInv, PollsGoOn, ClientsEnd, RegistryForgets PROVE IInv'
<1>0. \A q \in Polls : poll'[q] \in Tasks /\ (poll'[q].at \notin {"idle", "acquire"} => poll'[q].client \in Clients)
  BY NoneAssumption DEF Tasks, PollsGoOn
<1> USE DEF PollsGoOn, ClientsEnd, RegistryForgets, SameSession, Ended, NobodyConnects
<1>1. TypeOK'
  BY DEF IInv, TypeOK
<1>2. OpenersConnect'
  BY <1>0 DEF IInv, OpenersConnect
<1>3. OneOpener'
  BY DEF IInv, OneOpener
<1>4. Settled'
  BY <1>0 DEF IInv, Settled, Rejections
<1>5. EntrySettled'
  BY DEF IInv, EntrySettled, TypeOK, Rejections
<1>6. ReadsOwnServer'
  BY <1>0 DEF IInv, ReadsOwnServer, Rejections
<1> QED BY <1>1, <1>2, <1>3, <1>4, <1>5, <1>6 DEF IInv

LEMMA PollsStay ==
    ASSUME TypeOK, poll' = poll PROVE PollsGoOn
BY DEF TypeOK, PollsGoOn

LEMMA LeavingGoesOn ==
    ASSUME TypeOK, NEW p \in Polls, Leaves(p) PROVE PollsGoOn
BY DEF TypeOK, PollsGoOn, Leaves, Others

LEMMA ClientsStay ==
    ASSUME TypeOK, client' = client PROVE ClientsEnd
BY DEF TypeOK, ClientsEnd, SameSession

LEMMA ClearedEnd ==
    ASSUME IInv, PollsGoOn, Cleared(client') PROVE ClientsEnd
<1>1. entry # None => NobodyConnects(entry)
  BY DEF IInv, EntrySettled, OpenersConnect, PollsGoOn, NobodyConnects
<1>2. \A c \in Clients : SameSession(c) \/ Ended(c)
  BY <1>1, NoneAssumption DEF Cleared, SameSession, Ended
<1> QED BY <1>2 DEF ClientsEnd, Cleared

(* A poll gets the session it asked for.                                             *)
LEMMA GetsReady ==
    ASSUME IInv, NEW p \in Polls, NEW c \in Clients, isReusable(c, poll[p].fingerprint),
           Moves(p, "ready", c), UNCHANGED <<config, client, entry, inflight>>
    PROVE  IInv'
<1>0. \A q \in Polls : poll[q].at \notin {"idle", "acquire"} => poll[q].client \in Clients
  BY NoneAssumption DEF IInv, TypeOK, Tasks
<1>1. TypeOK'
  <2>1. c # None
    BY NoneAssumption
  <2>2. \A q \in Polls : poll'[q].client = None <=> poll'[q].at \in {"idle", "acquire"}
    BY <2>1 DEF IInv, TypeOK, Moves, Others
  <2> QED BY <2>2 DEF IInv, TypeOK, Moves
<1>2. OpenersConnect' /\ OneOpener' /\ EntrySettled'
  BY <1>0 DEF IInv, OpenersConnect, OneOpener, EntrySettled, Moves, Others
<1>3. Settled'
  BY <1>0 DEF IInv, Settled, Moves, Others, isReusable
<1>4. ReadsOwnServer'
  BY <1>0 DEF IInv, ReadsOwnServer, Moves, Others, isReusable
<1> QED BY <1>1, <1>2, <1>3, <1>4 DEF IInv

(* A poll connects.                                                                  *)
LEMMA StartsOpen ==
    ASSUME IInv, NEW p \in Polls, NEW cs, NEW c, Opens(p, cs, c),
           cs = client \/ Cleared(cs), entry' \in {entry, None}, config' = config
    PROVE  IInv'
<1>0. \A q \in Polls : poll[q] \in Tasks /\ (poll[q].at \notin {"idle", "acquire"} => poll[q].client \in Clients)
  BY NoneAssumption DEF IInv, TypeOK, Tasks
<1>1. \A d \in Clients \ {c} : \/ client'[d].at = client[d].at /\ client'[d].fingerprint = client[d].fingerprint
                               \/ client'[d].at = "dead" /\ d = entry /\ entry # None
  BY NoneAssumption DEF Opens, Cleared
<1>2. TypeOK'
  <2>1. c # None
    BY NoneAssumption DEF Opens
  <2>2. \A q \in Polls : poll'[q].client = None <=> poll'[q].at \in {"idle", "acquire"}
    BY <2>1 DEF IInv, TypeOK, Opens, Moves, Others
  <2> QED BY <2>2 DEF IInv, TypeOK, Opens, Moves
<1>3. OpenersConnect'
  BY <1>0, <1>1 DEF IInv, OpenersConnect, EntrySettled, Opens, Moves, Others
<1>4. OneOpener'
  BY DEF IInv, OneOpener, Opens, Moves, Others
<1>5. Settled'
  BY <1>0, <1>1 DEF IInv, Settled, Opens, Moves, Others
<1>6. EntrySettled'
  BY <1>1 DEF IInv, EntrySettled, TypeOK, Opens
<1>7. ReadsOwnServer'
  BY <1>0, <1>1 DEF IInv, ReadsOwnServer, Opens, Moves, Others
<1> QED BY <1>2, <1>3, <1>4, <1>5, <1>6, <1>7 DEF IInv
(* A poll has its session, of the current generation.                                *)
LEMMA ConnectsCurrent ==
    ASSUME IInv, NEW p \in Polls, poll[p].at = "opening", NEW c \in Clients, c = poll[p].client,
           client' = [client EXCEPT ![c].at = "alive"], entry' = c,
           inflight' \in {inflight, None}, Moves(p, "ready", c), config' = config
    PROVE  IInv'
<1>0. \A q \in Polls : poll[q] \in Tasks /\ (poll[q].at \notin {"idle", "acquire"} => poll[q].client \in Clients)
  BY NoneAssumption DEF IInv, TypeOK, Tasks
<1>1. /\ client' \in [Clients -> Objects] /\ \A d \in Clients \ {c} : client'[d] = client[d]
      /\ client'[c].at = "alive" /\ client'[c].fingerprint = client[c].fingerprint
  <2> DEFINE r == [client[c] EXCEPT !.at = "alive"]
  <2>1. client \in [Clients -> Objects] /\ client[c] \in Objects
    BY DEF IInv, TypeOK
  <2>2. r \in Objects /\ r.at = "alive" /\ r.fingerprint = client[c].fingerprint
    BY <2>1 DEF Objects
  <2>3. client' = [client EXCEPT ![c] = r]
    OBVIOUS
  <2> HIDE DEF r
  <2> QED BY <2>1, <2>2, <2>3
<1>2. client[c].at = "connecting" /\ client[c].fingerprint = poll[p].fingerprint
  BY DEF IInv, OpenersConnect
<1>3. TypeOK'
  <2>1. c # None
    BY NoneAssumption
  <2>2. \A q \in Polls : poll'[q].client = None <=> poll'[q].at \in {"idle", "acquire"}
    BY <2>1 DEF IInv, TypeOK, Moves, Others
  <2> QED BY <1>1, <2>2 DEF IInv, TypeOK, Moves
<1>4. OpenersConnect'
  <2>1. \A q \in Polls : poll'[q].at = "opening" => q # p /\ poll'[q] = poll[q] /\ poll[q].client # c
    BY DEF IInv, OneOpener, Moves, Others
  <2> QED BY <1>0, <1>1, <2>1 DEF IInv, OpenersConnect
<1>5. OneOpener'
  BY DEF IInv, OneOpener, Moves, Others
<1>6. Settled' /\ EntrySettled'
  BY <1>0, <1>1 DEF IInv, Settled, EntrySettled, Moves, Others
<1>7. ReadsOwnServer'
  BY <1>0, <1>1, <1>2 DEF IInv, ReadsOwnServer, Settled, Moves, Others
<1> QED BY <1>3, <1>4, <1>5, <1>6, <1>7 DEF IInv

(* A poll leaves, its client ends, and the entry may end with it.                    *)
LEMMA EndsWithPoll ==
    ASSUME IInv, NEW p \in Polls, Leaves(p), RegistryForgets,
           NEW cs, cs = client \/ Cleared(cs),
           NEW c \in Clients, c = poll[p].client, NEW r \in Objects, client' = [cs EXCEPT ![c] = r],
           r.at \in {"dead"} \cup Rejections,
           r.at = "dead" \/ client[c].at \in {"connecting"} \cup Rejections,
           poll[p].at = "opening" \/ client[c].at # "connecting"
    PROVE  IInv'
<1>1. PollsGoOn
  BY LeavingGoesOn DEF IInv
<1>2. client' \in [Clients -> Objects] /\ client'[c] = r /\ \A d \in Clients \ {c} : client'[d] = cs[d]
  BY DEF IInv, TypeOK, Cleared
<1>3. \A q \in Polls : poll'[q].at = "opening" => q # p /\ poll[q].at = "opening" /\ poll'[q] = poll[q]
  BY DEF Leaves, Others
<1>4. NobodyConnects(c)
  BY <1>3 DEF IInv, OneOpener, OpenersConnect, NobodyConnects
<1>5. entry # None => NobodyConnects(entry)
  BY <1>3 DEF IInv, EntrySettled, OpenersConnect, NobodyConnects
<1>6. Ended(c)
  BY <1>2, <1>4 DEF Ended
<1>7. ASSUME NEW d \in Clients \ {c} PROVE SameSession(d) \/ Ended(d)
  <2>1. client'[d] = cs[d]
    BY <1>2
  <2>2. CASE cs = client
    BY <2>1, <2>2 DEF SameSession
  <2>3. CASE Cleared(cs) /\ d # entry
    BY <2>1, <2>3 DEF SameSession, Cleared
  <2>4. CASE Cleared(cs) /\ d = entry
    BY <1>5, <2>1, <2>4, NoneAssumption DEF Ended, Cleared
  <2> QED BY <2>2, <2>3, <2>4
<1>8. ClientsEnd
  BY <1>2, <1>6, <1>7 DEF ClientsEnd
<1> QED BY <1>1, <1>8, Quieter

LEMMA StepIInv == IInv /\ [Next]_vars => IInv'
<1> SUFFICES ASSUME IInv, [Next]_vars PROVE IInv'
  OBVIOUS
<1>0. /\ TypeOK /\ config \in Configs /\ client \in [Clients -> Objects] /\ poll \in [Polls -> Tasks]
      /\ entry \in Clients \cup {None} /\ inflight \in Clients \cup {None}
      /\ \A q \in Polls : /\ poll[q] \in Tasks
                          /\ poll[q].client = None <=> poll[q].at \in {"idle", "acquire"}
                          /\ poll[q].at \notin {"idle", "acquire"} => poll[q].client \in Clients
  BY NoneAssumption DEF IInv, TypeOK, Tasks
<1>a. Cleared(Invalidated)
  BY <1>0, InvalidatedIsCleared
<1>c. \A q \in Polls : poll[q].at = "opening" => client[poll[q].client].at = "connecting"
  BY DEF IInv, OpenersConnect
<1>d. \A q \in Polls : poll[q].at \in {"ready", "read"} => client[poll[q].client].at # "connecting"
  BY DEF IInv, Settled
<1>e. config' = config /\ entry' \in {entry, None} /\ inflight' \in {inflight, None} => RegistryForgets
  BY <1>0 DEF RegistryForgets
<1>1. ASSUME NEW p \in Polls, Acquire(p) PROVE IInv'
  <2>1. poll[p].at = "acquire" /\ config' = config
    BY <1>1 DEF Acquire
  <2>2. CASE entry # None /\ isReusable(entry, poll[p].fingerprint)
             /\ Goto(p, "ready", entry) /\ UNCHANGED <<client, entry, inflight>>
    <3>1. entry \in Clients
      BY <1>0, <2>2
    <3>2. Moves(p, "ready", entry)
      BY <1>0, <2>2, <3>1, GotoMoves
    <3> QED BY <2>1, <2>2, <3>1, <3>2, GetsReady
  <2>3. CASE Open(p, Invalidated) /\ entry' = None
    <3>1. PICK c : Opens(p, Invalidated, c)
      BY <1>0, <1>a, <2>1, <2>3, OpenOpens DEF Cleared
    <3> QED BY <1>a, <2>1, <2>3, <3>1, StartsOpen
  <2>4. CASE inflight # None /\ Goto(p, "waiting", inflight) /\ UNCHANGED <<client, entry, inflight>>
    <3>1. inflight \in Clients
      BY <1>0, <2>4
    <3>2. Moves(p, "waiting", inflight)
      BY <1>0, <2>4, <3>1, GotoMoves
    <3>3. PollsGoOn
      BY <1>0, <2>4, <3>2 DEF Moves, Others, PollsGoOn
    <3> QED BY <1>0, <1>e, <2>1, <2>4, <3>3, ClientsStay, Quieter
  <2>5. CASE Open(p, client) /\ UNCHANGED entry
    <3>1. PICK c : Opens(p, client, c)
      BY <1>0, <2>1, <2>5, OpenOpens
    <3> QED BY <2>1, <2>5, <3>1, StartsOpen
  <2> QED BY <1>1, <2>2, <2>3, <2>4, <2>5 DEF Acquire
<1>2. ASSUME NEW p \in Polls, OpenAfterWaiting(p) PROVE IInv'
  <2> DEFINE c == poll[p].client
  <2>1. poll[p].at = "waiting" /\ config' = config /\ c \in Clients
    BY <1>0, <1>2 DEF OpenAfterWaiting
  <2>2. CASE isReusable(c, poll[p].fingerprint)
    <3>1. Goto(p, "ready", c) /\ UNCHANGED <<client, entry, inflight>>
      BY <1>2, <2>2 DEF OpenAfterWaiting
    <3>2. Moves(p, "ready", c)
      BY <1>0, <2>1, <3>1, GotoMoves
    <3> QED BY <2>1, <2>2, <3>1, <3>2, GetsReady
  <2>3. CASE ~isReusable(c, poll[p].fingerprint)
    <3>1. PICK cs \in {client, Invalidated} : Open(p, cs)
      BY <1>2, <2>3 DEF OpenAfterWaiting
    <3>2. entry' \in {entry, None}
      BY <1>2, <2>3 DEF OpenAfterWaiting
    <3>3. cs \in [Clients -> Objects] /\ (cs = client \/ Cleared(cs))
      BY <1>0, <1>a DEF Cleared
    <3>4. PICK d : Opens(p, cs, d)
      BY <1>0, <2>1, <3>1, <3>3, OpenOpens
    <3> QED BY <2>1, <3>2, <3>3, <3>4, StartsOpen
  <2> QED BY <2>2, <2>3
<1>3. ASSUME NEW p \in Polls, Connects(p) PROVE IInv'
  <2> DEFINE c == poll[p].client
  <2>1. poll[p].at = "opening" /\ config' = config /\ c \in Clients /\ c = poll[p].client /\ inflight' \in {inflight, None}
    BY <1>0, <1>3 DEF Connects
  <2>2. CASE client[c].current
    <3>1. client' = [client EXCEPT ![c].at = "alive"] /\ entry' = c /\ Goto(p, "ready", c)
      BY <1>3, <2>2 DEF Connects
    <3>2. Moves(p, "ready", c)
      BY <1>0, <2>1, <3>1, GotoMoves
    <3> QED BY <2>1, <3>1, <3>2, ConnectsCurrent
  <2>3. CASE ~client[c].current
    <3>1. client' = [client EXCEPT ![c] = Rejected(p, c, "revoked")] /\ entry' = entry /\ Fail(p)
      BY <1>3, <2>3 DEF Connects, Fail
    <3>2. Leaves(p) /\ client[c].at = "connecting"
      BY <1>0, <1>c, <2>1, <3>1, FailLeaves
    <3>3. Rejected(p, c, "revoked") \in Objects /\ Rejected(p, c, "revoked").at \in {"dead"} \cup Rejections
      BY <1>0, <2>1, RejectedIs DEF Rejections
    <3> HIDE DEF c
    <3>4. RegistryForgets
      BY <1>e, <2>1, <3>1
    <3> QED BY <2>1, <3>1, <3>2, <3>3, <3>4, EndsWithPoll
  <2> QED BY <2>2, <2>3
<1>4. ASSUME NEW p \in Polls, ConnectFails(p) PROVE IInv'
  <2> DEFINE c == poll[p].client
  <2>1. poll[p].at = "opening" /\ config' = config /\ c \in Clients /\ c = poll[p].client /\ client[c].at = "connecting"
    BY <1>0, <1>c, <1>4 DEF ConnectFails
  <2>2. PICK how \in Rejections, cs \in {client, Invalidated} : client' = [cs EXCEPT ![c] = Rejected(p, c, how)]
    BY <1>4 DEF ConnectFails, Rejections
  <2>3. Leaves(p) /\ entry' \in {entry, None} /\ inflight' \in {inflight, None}
    BY <1>0, <1>4, RetryLeaves, FailLeaves DEF ConnectFails
  <2>4. Rejected(p, c, how) \in Objects /\ Rejected(p, c, how).at \in {"dead"} \cup Rejections
    BY <1>0, <2>1, RejectedIs
  <2> HIDE DEF c
  <2>6. RegistryForgets /\ (cs = client \/ Cleared(cs))
    BY <1>a, <1>e, <2>1, <2>3
  <2> QED BY <2>1, <2>2, <2>3, <2>4, <2>6, EndsWithPoll
<1>5. ASSUME NEW p \in Polls, WaitFails(p) PROVE IInv'
  <2> DEFINE c == poll[p].client
  <2>1. poll[p].at = "waiting" /\ config' = config /\ c \in Clients /\ c = poll[p].client /\ client[c].at \in Rejections
    BY <1>0, <1>5 DEF WaitFails, Rejections
  <2>2. PICK how \in Rejections, cs \in {client, Invalidated} : client' = [cs EXCEPT ![c] = Rejected(p, c, how)]
    BY <1>5 DEF WaitFails, Rejections
  <2>3. Leaves(p) /\ entry' \in {entry, None} /\ inflight' \in {inflight, None}
    BY <1>0, <1>5, RetryLeaves, FailLeaves DEF WaitFails
  <2>4. Rejected(p, c, how) \in Objects /\ Rejected(p, c, how).at \in {"dead"} \cup Rejections
    BY <1>0, <2>1, RejectedIs
  <2>5. client[c].at # "connecting"
    BY <2>1 DEF Rejections
  <2> HIDE DEF c
  <2>6. RegistryForgets /\ (cs = client \/ Cleared(cs))
    BY <1>a, <1>e, <2>1, <2>3
  <2> QED BY <2>1, <2>2, <2>3, <2>4, <2>6, <2>5, EndsWithPoll
<1>6. ASSUME NEW p \in Polls, BeginRead(p) PROVE IInv'
  <2>1. CASE poll[p].late
    <3>1. Leaves(p) /\ client' = Invalidated /\ entry' = None /\ inflight' = None /\ config' = config
      BY <1>0, <1>6, <2>1, RetryLeaves DEF BeginRead, invalidate
    <3> QED BY <1>0, <1>a, <1>e, <3>1, LeavingGoesOn, ClearedEnd, Quieter
  <2>2. CASE ~poll[p].late
    <3>1. poll' = [poll EXCEPT ![p].at = "read"] /\ UNCHANGED <<config, client, entry, inflight>>
          /\ poll[p].at = "ready"
      BY <1>6, <2>2 DEF BeginRead
    <3>2. [poll[p] EXCEPT !.at = "read"] \in Tasks
      BY <1>0 DEF Tasks
    <3>3. PollsGoOn
      BY <1>0, <3>1, <3>2 DEF Tasks, PollsGoOn
    <3> QED BY <1>0, <1>e, <3>1, <3>3, ClientsStay, Quieter
  <2> QED BY <2>1, <2>2
<1>7. ASSUME NEW p \in Polls, ReadEnds(p) PROVE IInv'
  <2>1. Leaves(p) /\ UNCHANGED <<config, client, entry, inflight>>
    BY <1>0, <1>7, FailLeaves DEF ReadEnds
  <2> QED BY <1>0, <1>e, <2>1, LeavingGoesOn, ClientsStay, Quieter
<1>8. ASSUME NEW p \in Polls, ReadBreaks(p) PROVE IInv'
  <2>1. Leaves(p) /\ poll[p].at = "read" /\ poll[p].client \in Clients /\ config' = config
        /\ entry' = None /\ inflight' = None
        /\ client' = [Invalidated EXCEPT ![poll[p].client] = Dead]
    BY <1>0, <1>8, RetryLeaves DEF ReadBreaks
  <2>2. RegistryForgets /\ client[poll[p].client].at # "connecting"
    BY <1>d, <1>e, <2>1
  <2> QED BY <1>a, <2>1, <2>2, DeadIsObject, EndsWithPoll
<1>9. ASSUME NEW p \in Polls, Deadline(p) PROVE IInv'
  <2>1. Leaves(p) /\ client' = Invalidated /\ entry' = None /\ inflight' = None /\ config' = config
    BY <1>0, <1>9, RetryLeaves DEF Deadline, invalidate
  <2> QED BY <1>0, <1>a, <1>e, <2>1, LeavingGoesOn, ClearedEnd, Quieter
<1>10. ASSUME NEW p \in Polls, StartPoll(p) PROVE IInv'
  <2> DEFINE r == [Idle EXCEPT !.at = "acquire", !.fingerprint = config]
  <2>1. r \in Tasks /\ r.at = "acquire" /\ r.client = None
    BY <1>0 DEF Idle, Tasks
  <2>2. poll' = [poll EXCEPT ![p] = r] /\ UNCHANGED <<config, client, entry, inflight>>
    BY <1>10 DEF StartPoll
  <2> HIDE DEF r
  <2>3. PollsGoOn
    BY <1>0, <2>1, <2>2 DEF PollsGoOn
  <2> QED BY <1>0, <1>e, <2>2, <2>3, ClientsStay, Quieter
<1>11. ASSUME NEW p \in Polls, GrowLate(p) PROVE IInv'
  <2> DEFINE r == [poll[p] EXCEPT !.late = TRUE]
  <2>1. r \in Tasks /\ r.at = poll[p].at /\ r.client = poll[p].client /\ r.fingerprint = poll[p].fingerprint
    BY <1>0 DEF Tasks
  <2>2. poll' = [poll EXCEPT ![p] = r] /\ UNCHANGED <<config, client, entry, inflight>>
    BY <1>11 DEF GrowLate
  <2> HIDE DEF r
  <2>3. PollsGoOn
    BY <1>0, <2>1, <2>2 DEF PollsGoOn
  <2> QED BY <1>0, <1>e, <2>2, <2>3, ClientsStay, Quieter
<1>12. ASSUME NEW c \in Clients, Drop(c) PROVE IInv'
  <2>1. client' = [client EXCEPT ![c] = Dead] /\ client[c].at = "alive" /\ UNCHANGED <<config, entry, inflight, poll>>
    BY <1>12 DEF Drop
  <2>2. client' \in [Clients -> Objects] /\ client'[c].at = "dead" /\ \A d \in Clients \ {c} : client'[d] = client[d]
    BY <1>0, <2>1, DeadIsObject
  <2>3. NobodyConnects(c)
    BY <1>c, <2>1 DEF NobodyConnects
  <2>4. ClientsEnd
    BY <2>2, <2>3 DEF ClientsEnd, SameSession, Ended
  <2> QED BY <1>0, <1>e, <2>1, <2>4, PollsStay, Quieter
<1>13. ASSUME NEW c \in Clients, GrowOld(c) \/ ConnectLost(c) PROVE IInv'
  <2> DEFINE old == [client[c] EXCEPT !.old = TRUE]
             lost == [client[c] EXCEPT !.lost = TRUE]
  <2>0. /\ old \in Objects /\ old.at = client[c].at /\ old.fingerprint = client[c].fingerprint
        /\ lost \in Objects /\ lost.at = client[c].at /\ lost.fingerprint = client[c].fingerprint
    BY <1>0 DEF Objects
  <2>a. /\ client' = [client EXCEPT ![c] = old] \/ client' = [client EXCEPT ![c] = lost]
        /\ UNCHANGED <<config, entry, inflight, poll>>
    BY <1>13 DEF GrowOld, ConnectLost
  <2> HIDE DEF old, lost
  <2>1. PICK r \in {old, lost} : client' = [client EXCEPT ![c] = r]
    BY <2>a
  <2>2. /\ UNCHANGED <<config, entry, inflight, poll>>
        /\ r \in Objects /\ r.at = client[c].at /\ r.fingerprint = client[c].fingerprint
    BY <2>0, <2>a
  <2>3. ClientsEnd
    BY <1>0, <2>1, <2>2 DEF ClientsEnd, SameSession
  <2> QED BY <1>0, <1>e, <2>2, <2>3, PollsStay, Quieter
<1>14. CASE CloseAll \/ InvalidateServer
  <2>1. client' = Invalidated /\ entry' = None /\ inflight' = None /\ UNCHANGED <<config, poll>>
    BY <1>14 DEF CloseAll, InvalidateServer, invalidate
  <2> QED BY <1>0, <1>a, <1>e, <2>1, PollsStay, ClearedEnd, Quieter
<1>15. CASE ChangeConfig
  <2>1. RegistryForgets /\ UNCHANGED <<client, poll>>
    BY <1>0, <1>15 DEF ChangeConfig, RegistryForgets
  <2> QED BY <1>0, <2>1, PollsStay, ClientsStay, Quieter
<1>16. CASE ProcessDies
  <2>1. client' = [c \in Clients |-> Dead] /\ poll' = [p \in Polls |-> Idle]
        /\ entry' = None /\ inflight' = None /\ config' = config
    BY <1>16 DEF ProcessDies
  <2>2. PollsGoOn
    BY <2>1, IdleIsTask DEF PollsGoOn
  <2>3. ClientsEnd
    BY <2>1, DeadIsObject, IdleIsTask DEF ClientsEnd, Ended, NobodyConnects
  <2> QED BY <1>e, <2>1, <2>2, <2>3, Quieter
<1>17. CASE UNCHANGED vars
  BY <1>0, <1>e, <1>17, PollsStay, ClientsStay, Quieter DEF vars
<1> QED BY <1>1, <1>2, <1>3, <1>4, <1>5, <1>6, <1>7, <1>8, <1>9, <1>10, <1>11, <1>12, <1>13, <1>14,
           <1>15, <1>16, <1>17
    DEF Next, Progress, PollStep, WorldStep

(* The registry, its clients and the polls keep their types.                         *)
THEOREM TypesHold == Spec => []TypeOK
<1>1. Init => IInv
  BY InitIInv
<1>2. IInv /\ [Next]_vars => IInv'
  BY StepIInv
<1>3. IInv => TypeOK
  BY DEF IInv
<1> QED BY <1>1, <1>2, <1>3, PTL DEF Spec

(* However many polls share the registry, whoever waits for whose connect and whatever *)
(* is invalidated or changed meanwhile: a poll reads through a session of the        *)
(* configuration it started with (session-registry.ts:53-87).                        *)
THEOREM ReadsOwnServerHolds == Spec => []ReadsOwnServer
<1>1. Init => IInv
  BY InitIInv
<1>2. IInv /\ [Next]_vars => IInv'
  BY StepIInv
<1>3. IInv => ReadsOwnServer
  BY DEF IInv
<1> QED BY <1>1, <1>2, <1>3, PTL DEF Spec
--------------------------------------------------------------------------------
(* With at most two polls at once, which is more than the queues allow, the registry *)
(* also knows every session and every connect.                                       *)
AtMostTwoPolls == \A p, q, r \in Polls : p = q \/ q = r \/ p = r

(* A connect has its poll; the registry has a session or a connect, not both; nobody *)
(* waits beside another one, and nobody for a client that has ended unnoticed.       *)
EveryConnectHasPoll == \A c \in Clients :
    client[c].at = "connecting" => \E p \in Polls : poll[p].at = "opening" /\ poll[p].client = c
InflightConnects == inflight # None => client[inflight].at = "connecting" /\ client[inflight].current = TRUE
EntryOrInflight == entry # None => inflight = None
OneWaits == \A p, q \in Polls : poll[p].at = "waiting" /\ poll[q].at = "waiting" => p = q
WaitedForLives == \A p \in Polls : poll[p].at = "waiting" => client[poll[p].client].at # "dead"

Registered == NoStraySession /\ EveryConnectIsKnown /\ InflightConnects /\ EntryOrInflight
Awaited == EveryConnectHasPoll /\ OneWaits /\ WaitedForLives
Known == Registered /\ Awaited

LEMMA InitKnown == Init => Known
BY DEF Init, Known, Registered, Awaited, NoStraySession, EveryConnectIsKnown, InflightConnects, EntryOrInflight,
    EveryConnectHasPoll, OneWaits, WaitedForLives, Dead, Idle

(* Steps after which no poll waits that did not wait before, no client connects that *)
(* did not, and no client is dead that somebody waits for.                           *)
NoNewWaits == \A q \in Polls :
    poll'[q].at = "waiting" => poll[q].at = "waiting" /\ poll'[q].client = poll[q].client
ConnectsKept == \A c \in Clients :
    client'[c].at = "connecting" =>
        /\ client[c].at = "connecting"
        /\ \A q \in Polls : poll[q].at = "opening" /\ poll[q].client = c => poll'[q] = poll[q]
DeathsUnwatched == \A c \in Clients :
    client'[c].at = "dead" /\ client[c].at # "dead" =>
        \A q \in Polls : poll'[q].at = "waiting" => poll'[q].client # c

LEMMA StaysAwaited ==
    ASSUME TypeOK, Awaited, NoNewWaits, ConnectsKept, DeathsUnwatched PROVE Awaited'
<1>1. EveryConnectHasPoll'
  BY DEF Awaited, EveryConnectHasPoll, ConnectsKept
<1>2. OneWaits'
  BY DEF Awaited, OneWaits, NoNewWaits
<1>3. WaitedForLives'
  <2>1. \A q \in Polls : poll[q].at = "waiting" => poll[q].client \in Clients
    BY DEF TypeOK, Tasks
  <2> QED BY <2>1 DEF Awaited, WaitedForLives, NoNewWaits, DeathsUnwatched
<1> QED BY <1>1, <1>2, <1>3 DEF Awaited

(* The registry forgets everything: nothing lives or connects for it.                *)
LEMMA ForgetsAll ==
    ASSUME entry' = None, inflight' = None,
           \A c \in Clients : /\ client'[c].at # "alive"
                              /\ client'[c].at = "connecting" => client'[c].current = FALSE
    PROVE  Registered'
BY DEF Registered, NoStraySession, EveryConnectIsKnown, InflightConnects, EntryOrInflight

(* The registry stays, less a connect that is over.                                  *)
LEMMA RegistryStays ==
    ASSUME TypeOK, Registered, entry' = entry,
           \A c \in Clients : client'[c].at \in {"alive", "connecting"} =>
               client'[c].at = client[c].at /\ client'[c].current = client[c].current,
           \/ inflight' = inflight /\ (inflight # None =>
                  /\ client'[inflight].at = client[inflight].at
                  /\ client'[inflight].current = client[inflight].current)
           \/ inflight' = None /\ (inflight # None => client'[inflight].at # "connecting")
    PROVE  Registered'
<1>1. NoStraySession'
  BY DEF Registered, NoStraySession
<1>2. EveryConnectIsKnown'
  BY NoneAssumption DEF Registered, EveryConnectIsKnown
<1>3. InflightConnects'
  BY DEF Registered, InflightConnects
<1>4. EntryOrInflight'
  BY DEF Registered, EntryOrInflight
<1> QED BY <1>1, <1>2, <1>3, <1>4 DEF Registered

(* Neither a client that lives nor one that has ended is waited for when anything    *)
(* but the resumption of those who waited happens.                                   *)
LEMMA EntryUnwatched ==
    ASSUME IInv, NobodyToResume, NoNewWaits
    PROVE  \A q \in Polls : poll'[q].at = "waiting" =>
               /\ entry # None => poll'[q].client # entry
               /\ client[poll'[q].client].at \notin {"alive", "dead"}
BY DEF IInv, EntrySettled, NobodyToResume, NoNewWaits, Rejections

LEMMA ClearedKnown ==
    ASSUME IInv, Known, NobodyToResume, NoNewWaits, Cleared(client'), entry' = None, inflight' = None,
           \A q \in Polls : poll[q].at = "opening" => poll'[q] = poll[q]
    PROVE  Known'
<1>1. \A c \in Clients : client'[c].at # "alive" /\ client'[c].current = FALSE
  BY NoneAssumption DEF Cleared, Known, Registered, NoStraySession
<1>2. Registered'
  BY <1>1, ForgetsAll
<1>3. ConnectsKept
  BY NoneAssumption DEF ConnectsKept, Cleared
<1>4. DeathsUnwatched
  <2>1. \A q \in Polls : poll'[q].at = "waiting" /\ entry # None => poll'[q].client # entry
    BY EntryUnwatched
  <2>2. \A c \in Clients : client'[c].at = "dead" /\ client[c].at # "dead" => c = entry /\ entry # None
    BY NoneAssumption DEF Cleared
  <2> QED BY <2>1, <2>2 DEF DeathsUnwatched
<1>5. Awaited'
  BY <1>3, <1>4, StaysAwaited DEF Known, IInv
<1> QED BY <1>2, <1>5 DEF Known

LEMMA SameKnown ==
    ASSUME IInv, Known, NoNewWaits, UNCHANGED <<client, entry, inflight>>,
           \A q \in Polls : poll[q].at = "opening" => poll'[q].at = "opening" /\ poll'[q].client = poll[q].client
    PROVE  Known'
<1>1. Registered'
  BY RegistryStays DEF Known, IInv
<1>2. EveryConnectHasPoll'
  BY DEF Known, Awaited, EveryConnectHasPoll
<1>3. OneWaits' /\ WaitedForLives'
  BY DEF Known, Awaited, OneWaits, WaitedForLives, NoNewWaits
<1> QED BY <1>1, <1>2, <1>3 DEF Known, Awaited

(* A poll connects: the registry has nothing, or forgets it.                         *)
LEMMA OpensKnown ==
    ASSUME IInv, Known, NEW p \in Polls, poll[p].at # "opening", NEW cs, NEW c, Opens(p, cs, c), entry' = None,
           Cleared(cs) \/ (cs = client /\ entry = None /\ inflight = None),
           \A q \in Polls \ {p} : poll[q].at = "waiting" => entry = None \/ poll[q].client # entry
    PROVE  Known'
<1>1. \A d \in Clients \ {c} : \/ client'[d] = client[d] /\ entry = None /\ inflight = None
                               \/ /\ client'[d].current = FALSE
                                  /\ \/ d # entry /\ client'[d].at = client[d].at
                                     \/ d = entry /\ entry # None /\ client'[d].at = "dead"
  BY NoneAssumption DEF Opens, Cleared
<1>2. /\ c \in Clients /\ inflight' = c /\ client'[c].at = "connecting" /\ client'[c].current = TRUE
      /\ poll'[p].at = "opening" /\ poll'[p].client = c /\ \A q \in Polls \ {p} : poll'[q] = poll[q]
      /\ \A q \in Polls : poll[q].client # c
  BY DEF Opens, Moves, Others
<1>3. NoStraySession'
  BY <1>1, <1>2, NoneAssumption DEF Known, Registered, NoStraySession
<1>4. EveryConnectIsKnown'
  BY <1>1, <1>2, NoneAssumption DEF Known, Registered, EveryConnectIsKnown
<1>5. InflightConnects' /\ EntryOrInflight'
  BY <1>2 DEF InflightConnects, EntryOrInflight
<1>6. EveryConnectHasPoll'
  <2> SUFFICES ASSUME NEW d \in Clients, client'[d].at = "connecting"
               PROVE  \E q \in Polls : poll'[q].at = "opening" /\ poll'[q].client = d
    BY DEF EveryConnectHasPoll
  <2>1. CASE d = c
    BY <1>2, <2>1
  <2>2. CASE d # c
    <3>1. client[d].at = "connecting"
      BY <1>1, <2>2
    <3>2. PICK q \in Polls : poll[q].at = "opening" /\ poll[q].client = d
      BY <3>1 DEF Known, Awaited, EveryConnectHasPoll
    <3> QED BY <1>2, <3>2
  <2> QED BY <2>1, <2>2
<1>7. OneWaits'
  BY <1>2 DEF Known, Awaited, OneWaits
<1>8. WaitedForLives'
  <2> SUFFICES ASSUME NEW q \in Polls, poll'[q].at = "waiting"
               PROVE  client'[poll'[q].client].at # "dead"
    BY DEF WaitedForLives
  <2>1. q # p /\ poll'[q] = poll[q] /\ poll[q].at = "waiting" /\ poll[q].client # c
    BY <1>2
  <2>2. poll[q].client \in Clients /\ client[poll[q].client].at # "dead"
    BY <2>1 DEF Known, Awaited, WaitedForLives, IInv, TypeOK, Tasks
  <2> QED BY <1>1, <2>1, <2>2
<1> QED BY <1>3, <1>4, <1>5, <1>6, <1>7, <1>8 DEF Known, Registered, Awaited

(* A poll leaves, and its client ends, with or without all that the registry has.    *)
Unwatched(p, c) == \A q \in Polls \ {p} : poll[q].at = "waiting" => poll[q].client # c

ForgetsClient(c, cs) ==
    \/ cs = client /\ entry' = entry /\ inflight' = IF inflight = c THEN None ELSE inflight
    \/ Cleared(cs) /\ entry' = None /\ inflight' = None

LEMMA EndsKnown ==
    ASSUME IInv, Known, NobodyToResume, NEW p \in Polls, Leaves(p),
           NEW cs, NEW c \in Clients, c = poll[p].client, NEW r \in Objects, client' = [cs EXCEPT ![c] = r],
           r.at \in {"dead"} \cup Rejections,
           r.at = "dead" => Unwatched(p, c),
           poll[p].at = "opening" \/ client[c].at # "connecting",
           ForgetsClient(c, cs)
    PROVE  Known'
<1>0. client \in [Clients -> Objects] /\ r.at \notin {"alive", "connecting"}
  BY DEF IInv, TypeOK, Rejections
<1>1. client'[c] = r /\ \A d \in Clients \ {c} : client'[d] = cs[d]
  BY <1>0 DEF Cleared, ForgetsClient
<1>2. /\ poll'[p].at \in {"idle", "acquire"} /\ poll'[p].client = None
      /\ \A q \in Polls \ {p} : poll'[q] = poll[q]
  BY DEF Leaves, Others
<1>3. NoNewWaits
  BY <1>2 DEF NoNewWaits
<1>4. ConnectsKept
  <2> SUFFICES ASSUME NEW d \in Clients, client'[d].at = "connecting"
               PROVE  /\ client[d].at = "connecting"
                      /\ \A q \in Polls : poll[q].at = "opening" /\ poll[q].client = d => poll'[q] = poll[q]
    BY DEF ConnectsKept
  <2>1. d # c /\ client'[d] = cs[d]
    BY <1>0, <1>1
  <2>2. client[d].at = "connecting"
    BY <2>1, NoneAssumption DEF Cleared, ForgetsClient
  <2> QED BY <1>2, <2>1, <2>2
<1>5. DeathsUnwatched
  <2> SUFFICES ASSUME NEW d \in Clients, client'[d].at = "dead", client[d].at # "dead",
                      NEW q \in Polls, poll'[q].at = "waiting"
               PROVE  poll'[q].client # d
    BY DEF DeathsUnwatched
  <2>1. q # p /\ poll'[q] = poll[q]
    BY <1>2
  <2>2. CASE d = c
    BY <1>1, <2>1, <2>2 DEF Unwatched, NoNewWaits
  <2>3. CASE d # c
    <3>1. Cleared(cs) /\ d = entry /\ entry # None
      BY <1>1, <2>3, NoneAssumption DEF Cleared, ForgetsClient
    <3> QED BY <1>3, <3>1, EntryUnwatched
  <2> QED BY <2>2, <2>3
<1>6. Awaited'
  BY <1>3, <1>4, <1>5, StaysAwaited DEF Known, IInv
<1>7. CASE Cleared(cs) /\ entry' = None /\ inflight' = None
  <2>1. \A d \in Clients : /\ client'[d].at # "alive"
                           /\ client'[d].at = "connecting" => client'[d].current = FALSE
    BY <1>0, <1>1, <1>7, NoneAssumption DEF Cleared, Known, Registered, NoStraySession
  <2> QED BY <1>6, <1>7, <2>1, ForgetsAll DEF Known
<1>8. CASE cs = client /\ entry' = entry /\ inflight' = IF inflight = c THEN None ELSE inflight
  <2>1. \A d \in Clients : client'[d].at \in {"alive", "connecting"} =>
            client'[d].at = client[d].at /\ client'[d].current = client[d].current
    BY <1>0, <1>1, <1>8
  <2>2. inflight \in Clients \cup {None}
    BY DEF IInv, TypeOK
  <2>3. \/ inflight' = inflight /\ (inflight # None => client'[inflight] = client[inflight])
        \/ inflight' = None /\ (inflight # None => client'[inflight].at # "connecting")
    BY <1>0, <1>1, <1>8, <2>2
  <2>4. Registered'
    BY <1>8, <2>1, <2>3, RegistryStays DEF Known, IInv
  <2> QED BY <1>6, <2>4 DEF Known
<1> QED BY <1>7, <1>8 DEF ForgetsClient
LEMMA StepKnown ==
    ASSUME AtMostTwoPolls, IInv, Known, [Next]_vars PROVE Known'
<1>0. /\ TypeOK /\ client \in [Clients -> Objects] /\ poll \in [Polls -> Tasks]
      /\ entry \in Clients \cup {None} /\ inflight \in Clients \cup {None}
      /\ \A q \in Polls : /\ poll[q] \in Tasks
                          /\ poll[q].client = None <=> poll[q].at \in {"idle", "acquire"}
                          /\ poll[q].at \notin {"idle", "acquire"} => poll[q].client \in Clients
  BY NoneAssumption DEF IInv, TypeOK, Tasks
<1>a. Cleared(Invalidated)
  BY <1>0, InvalidatedIsCleared
<1>b. \A q \in Polls : poll[q].at = "opening" => client[poll[q].client].at = "connecting"
  BY DEF IInv, OpenersConnect
<1>c. NobodyToResume /\ entry # None => \A q \in Polls : poll[q].at = "waiting" => poll[q].client # entry
  BY DEF IInv, EntrySettled, NobodyToResume, Rejections
\* Polls that leave for another place than a connect.
<1>d. ASSUME NEW p \in Polls, poll[p].at # "opening", Others(p), poll'[p].at # "waiting"
      PROVE  NoNewWaits /\ \A q \in Polls : poll[q].at = "opening" => poll'[q] = poll[q]
  BY <1>d DEF NoNewWaits, Others
<1>e. poll' = poll => NoNewWaits /\ \A q \in Polls : poll[q].at = "opening" => poll'[q] = poll[q]
  BY DEF NoNewWaits
<1>1. ASSUME NEW p \in Polls, NobodyToResume, Acquire(p) PROVE Known'
  <2>1. poll[p].at = "acquire"
    BY <1>1 DEF Acquire
  <2>2. CASE entry # None /\ Goto(p, "ready", entry) /\ UNCHANGED <<client, entry, inflight>>
    <3>1. Moves(p, "ready", entry)
      BY <1>0, <2>2, GotoMoves
    <3> QED BY <1>d, <2>1, <2>2, <3>1, SameKnown DEF Moves
  <2>3. CASE entry # None /\ Open(p, Invalidated) /\ entry' = None
    <3>1. PICK c : Opens(p, Invalidated, c)
      BY <1>0, <1>a, <2>1, <2>3, OpenOpens DEF Cleared
    <3> QED BY <1>1, <1>a, <1>c, <2>1, <2>3, <3>1, OpensKnown
  <2>4. CASE inflight # None /\ Goto(p, "waiting", inflight) /\ UNCHANGED <<client, entry, inflight>>
    <3>1. Moves(p, "waiting", inflight) /\ inflight \in Clients
      BY <1>0, <2>4, GotoMoves
    <3>2. poll'[p].at = "waiting" /\ poll'[p].client = inflight /\ \A q \in Polls \ {p} : poll'[q] = poll[q]
      BY <3>1 DEF Moves, Others
    <3>3. client[inflight].at = "connecting"
      BY <2>4 DEF Known, Registered, InflightConnects
    <3>4. PICK r \in Polls : poll[r].at = "opening" /\ poll[r].client = inflight
      BY <3>1, <3>3 DEF Known, Awaited, EveryConnectHasPoll
    <3>5. Registered'
      BY <1>0, <2>4, RegistryStays DEF Known
    <3>6. EveryConnectHasPoll'
      BY <2>1, <2>4, <3>2 DEF Known, Awaited, EveryConnectHasPoll
    <3>7. ASSUME NEW q \in Polls, poll'[q].at = "waiting" PROVE q = p
      <4>1. r # p /\ (q # p => r # q)
        BY <2>1, <3>2, <3>4, <3>7
      <4> QED BY <4>1 DEF AtMostTwoPolls
    <3>8. OneWaits'
      BY <3>7 DEF OneWaits
    <3>9. WaitedForLives'
      BY <2>4, <3>2, <3>3, <3>7 DEF WaitedForLives
    <3> QED BY <3>5, <3>6, <3>8, <3>9 DEF Known, Awaited
  <2>5. CASE entry = None /\ inflight = None /\ Open(p, client) /\ UNCHANGED entry
    <3>1. PICK c : Opens(p, client, c)
      BY <1>0, <2>1, <2>5, OpenOpens
    <3> QED BY <2>1, <2>5, <3>1, OpensKnown
  <2> QED BY <1>1, <2>2, <2>3, <2>4, <2>5 DEF Acquire
<1>2. ASSUME NEW p \in Polls, OpenAfterWaiting(p) PROVE Known'
  <2> DEFINE c == poll[p].client
  <2>1. poll[p].at = "waiting" /\ c \in Clients /\ client[c].at \in {"alive", "dead"}
    BY <1>0, <1>2 DEF OpenAfterWaiting
  <2>2. client[c].at = "alive" /\ c = entry
    BY <2>1 DEF Known, Registered, Awaited, WaitedForLives, NoStraySession
  <2>3. \A q \in Polls \ {p} : poll[q].at # "waiting"
    BY <2>1 DEF Known, Awaited, OneWaits
  <2>4. CASE isReusable(c, poll[p].fingerprint)
    <3>1. Goto(p, "ready", c) /\ UNCHANGED <<client, entry, inflight>>
      BY <1>2, <2>4 DEF OpenAfterWaiting
    <3>2. Moves(p, "ready", c)
      BY <1>0, <2>1, <3>1, GotoMoves
    <3> QED BY <1>d, <2>1, <3>1, <3>2, SameKnown DEF Moves
  <2>5. CASE ~isReusable(c, poll[p].fingerprint)
    <3>1. Open(p, Invalidated) /\ entry' = None
      BY <1>2, <2>2, <2>5 DEF OpenAfterWaiting
    <3>2. PICK d : Opens(p, Invalidated, d)
      BY <1>0, <1>a, <2>1, <3>1, OpenOpens DEF Cleared
    <3> QED BY <1>a, <2>1, <2>3, <3>1, <3>2, OpensKnown
  <2> QED BY <2>4, <2>5
<1>3. ASSUME NEW p \in Polls, NobodyToResume, Connects(p) PROVE Known'
  <2> DEFINE c == poll[p].client
  <2>1. /\ poll[p].at = "opening" /\ c \in Clients /\ c = poll[p].client /\ client[c].at = "connecting"
        /\ inflight' = IF inflight = c THEN None ELSE inflight
    BY <1>0, <1>b, <1>3 DEF Connects
  <2>2. CASE client[c].current
    <3>1. client' = [client EXCEPT ![c].at = "alive"] /\ entry' = c /\ Goto(p, "ready", c)
      BY <1>3, <2>2 DEF Connects
    <3>2. Moves(p, "ready", c)
      BY <1>0, <2>1, <3>1, GotoMoves
    <3>3. inflight = c /\ inflight' = None /\ c # None
      BY <2>1, <2>2, NoneAssumption DEF Known, Registered, EveryConnectIsKnown
    <3>4. entry = None
      BY <3>3 DEF Known, Registered, EntryOrInflight
    <3>5. /\ client'[c].at = "alive" /\ client'[c].current = client[c].current
          /\ \A d \in Clients \ {c} : client'[d] = client[d]
      <4> DEFINE r == [client[c] EXCEPT !.at = "alive"]
      <4>1. client[c] \in Objects
        BY <1>0, <2>1
      <4>2. r.at = "alive" /\ r.current = client[c].current
        BY <4>1 DEF Objects
      <4>3. client' = [client EXCEPT ![c] = r]
        BY <3>1
      <4> HIDE DEF r
      <4> QED BY <1>0, <2>1, <4>2, <4>3
    <3> HIDE DEF c
    <3>6. NoStraySession'
      BY <2>2, <3>1, <3>4, <3>5, NoneAssumption DEF Known, Registered, NoStraySession
    <3>7. EveryConnectIsKnown'
      BY <3>3, <3>5 DEF Known, Registered, EveryConnectIsKnown
    <3>8. InflightConnects' /\ EntryOrInflight'
      BY <3>3 DEF InflightConnects, EntryOrInflight
    <3>9. NoNewWaits
      BY <3>2 DEF Moves, Others, NoNewWaits
    <3>10. ConnectsKept
      BY <2>1, <3>2, <3>5 DEF ConnectsKept, Moves, Others
    <3>11. DeathsUnwatched
      BY <3>5 DEF DeathsUnwatched
    <3> QED BY <1>0, <3>6, <3>7, <3>8, <3>9, <3>10, <3>11, StaysAwaited DEF Known, Registered
  <2>3. CASE ~client[c].current
    <3>1. client' = [client EXCEPT ![c] = Rejected(p, c, "revoked")] /\ entry' = entry /\ Fail(p)
      BY <1>3, <2>3 DEF Connects, Fail
    <3>2. Leaves(p)
      BY <1>0, <3>1, FailLeaves
    <3>3. /\ Rejected(p, c, "revoked") \in Objects /\ Rejected(p, c, "revoked").at \in {"dead"} \cup Rejections
          /\ Rejected(p, c, "revoked").at = "dead" => Unwatched(p, c)
      BY <1>0, <2>1, RejectedIs DEF Rejections, Unwatched
    <3>4. ForgetsClient(c, client)
      BY <2>1, <3>1 DEF ForgetsClient
    <3> HIDE DEF c
    <3> QED BY <1>3, <2>1, <3>1, <3>2, <3>3, <3>4, EndsKnown
  <2> QED BY <2>2, <2>3
<1>4. ASSUME NEW p \in Polls, NobodyToResume, ConnectFails(p) \/ WaitFails(p) PROVE Known'
  <2> DEFINE c == poll[p].client
  <2>1. /\ c \in Clients /\ c = poll[p].client
        /\ poll[p].at = "opening" \/ client[c].at \in Rejections
    BY <1>0, <1>4 DEF ConnectFails, WaitFails, Rejections
  <2>2. PICK how \in Rejections, cs \in {client, Invalidated} :
            /\ client' = [cs EXCEPT ![c] = Rejected(p, c, how)]
            /\ \/ cs = client /\ entry' = entry /\ inflight' = IF inflight = c THEN None ELSE inflight
               \/ cs = Invalidated /\ entry' = None /\ inflight' = None
    <3>1. CASE ConnectFails(p)
      BY <3>1 DEF ConnectFails, Rejections
    <3>2. CASE WaitFails(p)
      <4>1. inflight = c => client[c].at = "connecting"
        BY <2>1, NoneAssumption DEF Known, Registered, InflightConnects
      <4>2. client[c].at \in Rejections => inflight # c
        BY <4>1 DEF Rejections
      <4> QED BY <3>2, <4>2 DEF WaitFails, Rejections
    <3> QED BY <1>4, <3>1, <3>2
  <2>3. Leaves(p)
    BY <1>0, <1>4, RetryLeaves, FailLeaves DEF ConnectFails, WaitFails
  <2>4. /\ Rejected(p, c, how) \in Objects /\ Rejected(p, c, how).at \in {"dead"} \cup Rejections
        /\ Rejected(p, c, how).at = "dead" => Unwatched(p, c)
    BY <1>0, <2>1, RejectedIs DEF Unwatched
  <2>5. poll[p].at = "opening" \/ client[c].at # "connecting"
    BY <2>1 DEF Rejections
  <2>6. ForgetsClient(c, cs)
    BY <1>a, <2>2 DEF ForgetsClient
  <2> HIDE DEF c
  <2> QED BY <1>4, <2>1, <2>2, <2>3, <2>4, <2>5, <2>6, EndsKnown
<1>5. ASSUME NEW p \in Polls, NobodyToResume, ReadBreaks(p) PROVE Known'
  <2> DEFINE c == poll[p].client
  <2>1. /\ Leaves(p) /\ poll[p].at = "read" /\ c \in Clients /\ c = poll[p].client
        /\ entry' = None /\ inflight' = None /\ client' = [Invalidated EXCEPT ![c] = Dead]
    BY <1>0, <1>5, RetryLeaves DEF ReadBreaks
  <2>2. client[c].at \in {"alive", "dead"}
    BY <2>1 DEF IInv, Settled
  <2>3. Unwatched(p, c)
    BY <1>5, <2>2 DEF NobodyToResume, Rejections, Unwatched
  <2>4. ForgetsClient(c, Invalidated)
    BY <1>a, <2>1 DEF ForgetsClient
  <2> HIDE DEF c
  <2> QED BY <1>5, <2>1, <2>2, <2>3, <2>4, DeadIsObject, EndsKnown
<1>6. ASSUME NEW p \in Polls, NobodyToResume, BeginRead(p) \/ Deadline(p) PROVE Known'
  <2>1. CASE /\ Leaves(p) /\ poll[p].at # "opening" /\ client' = Invalidated /\ entry' = None /\ inflight' = None
    BY <1>6, <1>a, <1>d, <2>1, ClearedKnown DEF Leaves
  <2>2. CASE poll[p].at = "ready" /\ poll' = [poll EXCEPT ![p].at = "read"] /\ UNCHANGED <<client, entry, inflight>>
    <3>1. [poll[p] EXCEPT !.at = "read"].at = "read"
      BY <1>0 DEF Tasks
    <3>2. Others(p) /\ poll'[p].at # "waiting"
      BY <1>0, <2>2, <3>1 DEF Others
    <3> QED BY <1>d, <2>2, <3>2, SameKnown
  <2>3. (poll[p].late \/ Deadline(p)) =>
          Leaves(p) /\ poll[p].at # "opening" /\ client' = Invalidated /\ entry' = None /\ inflight' = None
    BY <1>0, <1>6, RetryLeaves DEF BeginRead, Deadline, invalidate
  <2> QED BY <1>6, <2>1, <2>2, <2>3 DEF BeginRead
<1>7. ASSUME NEW p \in Polls, ReadEnds(p) PROVE Known'
  <2>1. Leaves(p) /\ poll[p].at # "opening" /\ UNCHANGED <<client, entry, inflight>>
    BY <1>0, <1>7, FailLeaves DEF ReadEnds
  <2> QED BY <1>d, <2>1, SameKnown DEF Leaves
<1>8. ASSUME NEW p \in Polls, StartPoll(p) PROVE Known'
  <2>1. [Idle EXCEPT !.at = "acquire", !.fingerprint = config].at = "acquire"
    BY DEF Idle
  <2>2. poll[p].at # "opening" /\ Others(p) /\ poll'[p].at # "waiting" /\ UNCHANGED <<client, entry, inflight>>
    BY <1>0, <1>8, <2>1 DEF StartPoll, Others
  <2> QED BY <1>d, <2>2, SameKnown
<1>9. ASSUME NEW p \in Polls, GrowLate(p) PROVE Known'
  <2>1. [poll[p] EXCEPT !.late = TRUE].at = poll[p].at /\ [poll[p] EXCEPT !.late = TRUE].client = poll[p].client
    BY <1>0 DEF Tasks
  <2>2. \A q \in Polls : poll'[q].at = poll[q].at /\ poll'[q].client = poll[q].client
    BY <1>0, <1>9, <2>1 DEF GrowLate
  <2>3. NoNewWaits
    BY <2>2 DEF NoNewWaits
  <2> QED BY <1>9, <2>2, <2>3, SameKnown DEF GrowLate
<1>10. ASSUME NEW c \in Clients, NobodyToResume, Drop(c) PROVE Known'
  <2>1. /\ client[c].at = "alive" /\ client'[c].at = "dead" /\ UNCHANGED <<entry, inflight, poll>>
        /\ \A d \in Clients \ {c} : client'[d] = client[d]
    BY <1>0, <1>10, DeadIsObject DEF Drop
  <2>2. inflight # None => client'[inflight] = client[inflight]
    <3>1. inflight # None => inflight \in Clients /\ client[inflight].at = "connecting"
      BY <1>0 DEF Known, Registered, InflightConnects
    <3> QED BY <2>1, <3>1
  <2>3. Registered'
    BY <1>0, <2>1, <2>2, RegistryStays DEF Known
  <2>4. ConnectsKept /\ NoNewWaits
    BY <2>1 DEF ConnectsKept, NoNewWaits
  <2>5. DeathsUnwatched
    BY <1>10, <2>1 DEF DeathsUnwatched, NobodyToResume, Rejections
  <2> QED BY <1>0, <2>3, <2>4, <2>5, StaysAwaited DEF Known
<1>11. ASSUME NEW c \in Clients, GrowOld(c) \/ ConnectLost(c) PROVE Known'
  <2> DEFINE old == [client[c] EXCEPT !.old = TRUE]
             lost == [client[c] EXCEPT !.lost = TRUE]
  <2>1. /\ old.at = client[c].at /\ old.current = client[c].current
        /\ lost.at = client[c].at /\ lost.current = client[c].current
    BY <1>0 DEF Objects
  <2>2. /\ client' = [client EXCEPT ![c] = old] \/ client' = [client EXCEPT ![c] = lost]
        /\ UNCHANGED <<entry, inflight, poll>>
    BY <1>11 DEF GrowOld, ConnectLost
  <2> HIDE DEF old, lost
  <2>3. \A d \in Clients : client'[d].at = client[d].at /\ client'[d].current = client[d].current
    BY <1>0, <2>1, <2>2
  <2>4. inflight # None => /\ client'[inflight].at = client[inflight].at
                          /\ client'[inflight].current = client[inflight].current
    BY <1>0, <2>3
  <2>5. Registered'
    BY <1>0, <2>2, <2>3, <2>4, RegistryStays DEF Known
  <2>6. ConnectsKept /\ NoNewWaits /\ DeathsUnwatched
    BY <2>2, <2>3 DEF ConnectsKept, NoNewWaits, DeathsUnwatched
  <2> QED BY <1>0, <2>5, <2>6, StaysAwaited DEF Known
<1>12. CASE NobodyToResume /\ (CloseAll \/ InvalidateServer)
  <2>1. client' = Invalidated /\ entry' = None /\ inflight' = None /\ poll' = poll
    BY <1>12 DEF CloseAll, InvalidateServer, invalidate
  <2> QED BY <1>12, <1>a, <1>e, <2>1, ClearedKnown
<1>13. CASE ChangeConfig \/ UNCHANGED vars
  BY <1>13, <1>e, SameKnown DEF ChangeConfig, vars
<1>14. CASE ProcessDies
  <2>1. /\ entry' = None /\ inflight' = None /\ \A c \in Clients : client'[c].at = "dead"
        /\ \A q \in Polls : poll'[q].at = "idle"
    BY <1>14, DeadIsObject, IdleIsTask DEF ProcessDies
  <2>2. Registered'
    BY <2>1, ForgetsAll
  <2>3. Awaited'
    BY <2>1 DEF Awaited, EveryConnectHasPoll, OneWaits, WaitedForLives
  <2> QED BY <2>2, <2>3 DEF Known
<1> QED BY <1>1, <1>2, <1>3, <1>4, <1>5, <1>6, <1>7, <1>8, <1>9, <1>10, <1>11, <1>12, <1>13, <1>14
    DEF Next, Progress, PollStep, WorldStep

(* With at most two polls of a server at once no connection is left open that nobody *)
(* would close, whatever is invalidated while it connects or others wait for it; and *)
(* with three one may be (session-registry.ts:62-78).                                *)
THEOREM NoStraySessionHolds ==
    ASSUME AtMostTwoPolls PROVE Spec => []NoStraySession
<1>1. Init => IInv /\ Known
  BY InitIInv, InitKnown
<1>2. IInv /\ Known /\ [Next]_vars => IInv' /\ Known'
  BY StepIInv, StepKnown
<1>3. Known => NoStraySession
  BY DEF Known, Registered
<1> QED BY <1>1, <1>2, <1>3, PTL DEF Spec

(* Under the same assumption closeAll and prune find every connect that could still  *)
(* register its session (session-registry.ts:100-121).                               *)
THEOREM EveryConnectIsKnownHolds ==
    ASSUME AtMostTwoPolls PROVE Spec => []EveryConnectIsKnown
<1>1. Init => IInv /\ Known
  BY InitIInv, InitKnown
<1>2. IInv /\ Known /\ [Next]_vars => IInv' /\ Known'
  BY StepIInv, StepKnown
<1>3. Known => EveryConnectIsKnown
  BY DEF Known, Registered
<1> QED BY <1>1, <1>2, <1>3, PTL DEF Spec
================================================================================
