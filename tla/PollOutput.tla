----------------------------- MODULE PollOutput -----------------------------
(***************************************************************************)
(* What Gate reads from the VPN container of a server: the script that     *)
(* prints one section per selector of awg show                             *)
(* (lib/amnezia/commands.ts), what of its output arrives                   *)
(* (lib/ssh/client.ts), and what parsePollOutput and isPeerListComplete    *)
(* make of it (lib/amnezia/parse.ts, peer-sync.ts).                        *)
(*                                                                         *)
(* Each section is a call of awg of its own, "set +e" lets the script go   *)
(* on after one that fails, and nothing tells an output that broke off     *)
(* from a whole one: exec resolves with what came in, up to MAX_STREAM_    *)
(* BYTES of it, and takes a missing exit code for 0.  An output breaks off *)
(* between two lines here; of a peer's line only that it is there matters. *)
(***************************************************************************)
EXTENDS Naturals, Sequences, FiniteSets

CONSTANTS
    Peers,       \* public keys
    Faulty       \* the selectors of peers that may print fewer lines than there
                 \* are peers: awg fails, or the output breaks off among them

\* The markers ---GATE:...--- of pollInnerScript, in its order.
Script == <<"public-key", "listen-port", "peers", "allowed-ips",
            "latest-handshakes", "transfer", "endpoints", "random-trailers",
            "disable-cookies", "content-padding-addition", "clients-table", "end">>

PeerSelectors == {"peers", "allowed-ips", "latest-handshakes", "transfer", "endpoints"}

ASSUME PeersAssumption == IsFiniteSet(Peers)
ASSUME FaultyAssumption == Faulty \subseteq PeerSelectors

\* The outputs a read can get from a VPN with the peers "configured": up to the
\* marker number "last" and what follows it, the lines of each selector, and
\* whether public-key or listen-port has a value.
Outputs ==
    {o \in [configured : SUBSET Peers, last : 1..Len(Script),
            lines : [PeerSelectors -> SUBSET Peers], identity : BOOLEAN] :
        \A s \in PeerSelectors : IF s \in Faulty THEN o.lines[s] \subseteq o.configured
                                 ELSE o.lines[s] = o.configured}

\* splitSections: a section ends where the next begins, or with the output.
sections(o) == {Script[i] : i \in 1..o.last} \ {"end"}

\* parsePeerMap: the peers of a section, none when it did not arrive.
peersIn(o, s) == IF s \in sections(o) THEN o.lines[s] ELSE {}

\* Mutant: a section that is missing counts like one without lines.
SelectorEmpty(o, s) == peersIn(o, s) # {} \/ o.identity

\* A section without a line is good when the interface is known: a VPN without
\* peers prints that.
selectorOk(o, s) ==
    \/ peersIn(o, s) # {}
    \/ s \in sections(o) /\ o.identity

\* Mutant: the list is complete as soon as the peers were printed.
CompleteWithPeers(o) == "peers" \in sections(o)

\* One of the COMPLETE_MARKERS arrived.
isPeerListComplete(o) ==
    \E i \in 1..o.last : Script[i] \in {"clients-table", "end"}

\* readVpnState and onboarding refuse the output otherwise.
accepted(o) == selectorOk(o, "transfer") /\ selectorOk(o, "latest-handshakes")

\* The container on Gate's own host: an exit code other than 0 is good enough when
\* the section arrived.
readLocalAwg(o, exitCode) ==
    /\ exitCode = 0 \/ "transfer" \in sections(o)
    /\ selectorOk(o, "transfer")
    /\ selectorOk(o, "latest-handshakes")

\* The peers the VPN does not have, when the script was heard beyond the last
\* selector; an output that broke off before proves nothing.
gone(o) == IF "clients-table" \in sections(o) THEN Peers \ o.configured ELSE {}

\* Every section with a line of a peer makes the peer known.  One without a line
\* in "transfer" keeps rxBytes = txBytes = 0, one without a line in
\* "latest-handshakes" keeps handshakeUnix = 0 and is offline.
parsePollOutput(o) ==
    LET seen == UNION {peersIn(o, s) : s \in PeerSelectors}
    IN  [seen |-> seen,
         shaken |-> peersIn(o, "latest-handshakes"),
         uncounted |-> seen \ peersIn(o, "transfer"),
         complete |-> isPeerListComplete(o),
         gone |-> gone(o)]

\* What a poll can get to persist.
Readings ==
    {parsePollOutput(o) : o \in
        {out \in Outputs :
            accepted(out) \/ \E exitCode \in {0, 1} : readLocalAwg(out, exitCode)}}
=============================================================================
