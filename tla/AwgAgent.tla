------------------------------- MODULE AwgAgent -------------------------------
(* What the AmneziaWG agent promises to those who send it requests: the       *)
(* configuration it was last told, whether the tunnel of that configuration   *)
(* can be used, and the nodes that have a route through it.  AwgTunnel         *)
(* implements it; AwgConfig relies on it.                                      *)
EXTENDS AwgNames

ASSUME AgentAssumption == None \notin Confs

VARIABLES
    told,      \* the configuration last applied, or None
    usable,    \* its tunnel is up and without an error
    routed,    \* the nodes with a route
    asked      \* the nodes of the list of routes it works on

agentVars == <<told, usable, routed, asked>>

AgentTypeOK ==
    /\ told \in Confs \cup {None}
    /\ usable \in BOOLEAN
    /\ routed \subseteq Hosts
    /\ asked \subseteq Hosts

AgentInit ==
    /\ told = None
    /\ usable = FALSE
    /\ routed = {}
    /\ asked = {}

(* A new configuration, or an old one whose tunnel failed, begins with nothing. *)
Begin(c) ==
    /\ told # c \/ ~usable
    /\ told' = c
    /\ usable' = FALSE
    /\ routed' = {}
    /\ UNCHANGED asked

ComeUp ==
    /\ told # None
    /\ usable' = TRUE
    /\ UNCHANGED <<told, routed, asked>>

GoDown ==
    /\ usable' = FALSE
    /\ UNCHANGED <<told, routed, asked>>

(* An attempt that fails leaves no route behind, and remembers what it was told. *)
GiveUp ==
    /\ usable' = FALSE
    /\ routed' = {}
    /\ UNCHANGED <<told, asked>>

Forget ==
    /\ told' = None
    /\ usable' = FALSE
    /\ routed' = {}
    /\ UNCHANGED asked

(* A list of routes is worked on while the tunnel is usable when it begins, and ends *)
(* with routes to listed nodes only.                                                *)
Ask(hosts) ==
    /\ usable
    /\ asked' = hosts
    /\ UNCHANGED <<told, usable, routed>>

Settle ==
    /\ routed' \in SUBSET asked
    /\ asked' = {}
    /\ UNCHANGED <<told, usable>>

Route(h) ==
    /\ usable
    /\ routed' = routed \cup {h}
    /\ UNCHANGED <<told, usable, asked>>

AgentNext ==
    \/ \E c \in Confs : Begin(c)
    \/ ComeUp \/ GoDown \/ GiveUp \/ Forget
    \/ \E hosts \in SUBSET Hosts : Ask(hosts)
    \/ Settle
    \/ \E h \in Hosts : Route(h)

AgentSpec == AgentInit /\ [][AgentNext]_agentVars
=============================================================================
