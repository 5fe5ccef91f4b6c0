------------------------------- MODULE AwgTunnel -------------------------------
(* The agent that holds the AmneziaWG tunnel (src/src/awg-agent/tunnel.ts and  *)
(* the rules of src/src/lib/awg/routes.ts).  Its operations run one at a time  *)
(* (exclusive); the child process may end, and DNS and the ip command may fail, *)
(* at any await inside one.  An address stands for all its spellings (sameIp). *)
EXTENDS AwgNames, Integers, FiniteSets

CONSTANTS
    Addrs, V4,   \* addresses, and those of family 4
    Policy,      \* of a configuration: the addresses it routes (AllowedIPs, in a family
                 \* of which the client has an address) and its private DNS server
    Announce,    \* the answers DNS may give for a node
    Endpoints    \* the answers DNS may give for the endpoint of a configuration

ASSUME AddrAssumption ==
    /\ V4 \subseteq Addrs
    /\ None \notin Addrs /\ None \notin Confs
ASSUME PolicyAssumption ==
    Policy \in [Confs -> [allowed : SUBSET Addrs, dns : Addrs \cup {None}]]
ASSUME DnsAssumption ==
    /\ Announce \in [Hosts -> SUBSET SUBSET Addrs]
    /\ Endpoints \in [Confs -> SUBSET SUBSET Addrs]
    /\ \A c \in Confs : Endpoints[c] # {}

VARIABLES
    conf,          \* parsed and configHash
    child,         \* "none", "alive", or "dead": ended, its exit event not handled yet
    applyError,
    link,          \* the interface awg0 exists
    iface,         \* the configuration awg setconf gave it
    kernel,        \* the host routes of awg0
    endpointIps,
    routes,        \* the host routes the agent tracks
    nodeBindings,  \* of a node: the tracked address it is reached at
    dnsBinding,
    phase,         \* how far the running operation is
    todo, listed, keep, nextNodes, nextDns, sweep   \* locals of replaceRoutes

ifaceVars == <<link, iface, kernel>>
routeVars == <<routes, nodeBindings, dnsBinding>>
replaceVars == <<todo, listed, keep, nextNodes, nextDns, sweep>>
vars == <<conf, child, applyError, ifaceVars, endpointIps, routeVars, phase, replaceVars>>

Applying == {"link", "configure", "check", "dns"}
NoNodes == [h \in Hosts |-> None]
MaybeAddr == Addrs \cup {None}

TypeOK ==
    /\ conf \in Confs \cup {None}
    /\ child \in {"none", "alive", "dead"}
    /\ applyError \in BOOLEAN
    /\ link \in BOOLEAN
    /\ iface \in Confs \cup {None}
    /\ kernel \subseteq Addrs
    /\ endpointIps \subseteq Addrs
    /\ routes \subseteq Addrs
    /\ nodeBindings \in [Hosts -> MaybeAddr]
    /\ dnsBinding \in MaybeAddr
    /\ phase \in Applying \cup {"idle", "hosts"}
    /\ phase # "idle" => conf # None
    /\ todo \subseteq listed /\ listed \subseteq Hosts
    /\ keep \subseteq Addrs
    /\ nextNodes \in [Hosts -> MaybeAddr]
    /\ nextDns \in MaybeAddr
    /\ sweep \in BOOLEAN

NoReplace ==
    /\ todo = {} /\ listed = {} /\ keep = {}
    /\ nextNodes = NoNodes /\ nextDns = None /\ sweep = TRUE

Init ==
    /\ conf = None /\ child = "none" /\ applyError = FALSE
    /\ link = FALSE /\ iface = None /\ kernel = {}
    /\ endpointIps = {}
    /\ routes = {} /\ nodeBindings = NoNodes /\ dnsBinding = None
    /\ phase = "idle"
    /\ NoReplace

-----------------------------------------------------------------------------
(* Rules. *)

(* requireUp *)
Up == conf # None /\ child # "none" /\ ~applyError

Usable(ips, endpoints) == (ips \cap Policy[conf].allowed) \ endpoints

\* Mutant: the address of before is not preferred.
ChooseAfresh(resolved, endpoints, previous) ==
    LET usable == Usable(resolved, endpoints)
    IN  IF usable \cap V4 # {} THEN usable \cap V4 ELSE usable

(* The addresses chooseRouteIp may return; which one of several depends on the order *)
(* in which DNS lists them.  Empty: it refuses.                                    *)
chooseRouteIp(resolved, endpoints, previous) ==
    LET usable == Usable(resolved, endpoints)
    IN  IF previous \in usable THEN {previous}
        ELSE IF usable \cap V4 # {} THEN usable \cap V4
        ELSE usable

privateDnsRoute(endpoints) ==
    IF Policy[conf].dns \in Policy[conf].allowed \ endpoints
    THEN Policy[conf].dns ELSE None

(* What is tracked and not kept; and, in a sweep, what the kernel has beside it: ip -o *)
(* route show lists family 4 only.                                                   *)
deletionPlan(snapshot) ==
    (routes \ keep)
      \cup (IF sweep /\ snapshot THEN (kernel \cap V4) \ (keep \cup routes) ELSE {})

(* What listRoutes shows: the bindings the kernel has, then what nobody bound. *)
visibleAwgRoutes ==
    LET shown == kernel \cap V4
        bound == {<<h, nodeBindings[h]>> : h \in Hosts} \cup {<<None, dnsBinding>>}
    IN  {b \in bound : b[2] \in shown}
          \cup {<<None, ip>> : ip \in {k \in shown : \A b \in bound : b[2] # k}}

-----------------------------------------------------------------------------
(* apply and clear. *)

\* Mutant: the tracked routes are not cleared.
TeardownLinkOnly ==
    /\ link' = FALSE /\ iface' = None /\ kernel' = {}
    /\ nodeBindings' = NoNodes /\ dnsBinding' = None
    /\ UNCHANGED routes

\* Mutant: the bindings are not cleared.
TeardownRoutes ==
    /\ link' = FALSE /\ iface' = None /\ kernel' = {}
    /\ routes' = {}
    /\ UNCHANGED <<nodeBindings, dnsBinding>>

Teardown ==
    /\ link' = FALSE /\ iface' = None /\ kernel' = {}
    /\ routes' = {} /\ nodeBindings' = NoNodes /\ dnsBinding' = None

(* A configuration that is already up is not applied again. *)
BeginApply(c) ==
    /\ phase = "idle"
    /\ ~(conf = c /\ child # "none" /\ ~applyError)
    /\ Teardown
    /\ conf' = c
    /\ child' = "alive"
    /\ phase' = "link"
    /\ UNCHANGED <<applyError, endpointIps, replaceVars>>

LinkAppears ==
    /\ phase = "link" /\ child = "alive" /\ ~link
    /\ link' = TRUE
    /\ UNCHANGED <<conf, child, applyError, iface, kernel, endpointIps, routeVars, phase, replaceVars>>

WaitForLink ==
    /\ phase = "link" /\ child # "none" /\ link
    /\ phase' = "configure"
    /\ UNCHANGED <<conf, child, applyError, ifaceVars, endpointIps, routeVars, replaceVars>>

(* setconf, the addresses, and the link up *)
Configure ==
    /\ phase = "configure" /\ link
    /\ iface' = conf
    /\ phase' = "check"
    /\ UNCHANGED <<conf, child, applyError, link, kernel, endpointIps, routeVars, replaceVars>>

(* assertDirectPath found nothing: the error of an earlier attempt is forgotten, and *)
(* so is that of a child that ended during this one.                               *)
ClearError ==
    /\ phase = "check"
    /\ applyError' = FALSE
    /\ endpointIps' \in Endpoints[conf]
    /\ phase' = "dns"
    /\ UNCHANGED <<conf, child, ifaceVars, routeVars, replaceVars>>

InstallDnsRoute ==
    /\ phase = "dns"
    /\ endpointIps' \in Endpoints[conf]
    /\ LET dns == privateDnsRoute(endpointIps')
       IN  \/ /\ dns = None
              /\ UNCHANGED <<kernel, routes, dnsBinding>>
           \/ /\ dns # None /\ link
              /\ kernel' = kernel \cup {dns}
              /\ routes' = routes \cup {dns}
              /\ dnsBinding' = dns
    /\ phase' = "idle"
    /\ UNCHANGED <<conf, child, applyError, link, iface, nodeBindings, replaceVars>>

\* Mutant: waitForLink does not look at the child, nor at the clock.
ApplyFailsWithLink ==
    /\ phase \in {"configure", "check"}
    /\ Teardown
    /\ applyError' = TRUE
    /\ child' = "none"
    /\ phase' = "idle"
    /\ UNCHANGED <<conf, endpointIps, replaceVars>>

(* A step of apply throws: the link did not appear, a command failed, the path is not *)
(* direct, or the DNS server could not be routed.                                   *)
ApplyFails ==
    /\ \/ /\ \/ phase = "link" /\ (child = "none" \/ ~link)
             \/ phase \in {"configure", "check"}
          /\ UNCHANGED endpointIps
       \/ /\ phase = "dns"
          /\ endpointIps' \in Endpoints[conf]
          /\ privateDnsRoute(endpointIps') # None
    /\ Teardown
    /\ applyError' = TRUE
    /\ child' = "none"
    /\ phase' = "idle"
    /\ UNCHANGED <<conf, replaceVars>>

Clear ==
    /\ phase = "idle"
    /\ Teardown
    /\ conf' = None /\ child' = "none" /\ applyError' = FALSE /\ endpointIps' = {}
    /\ UNCHANGED <<phase, replaceVars>>

(* amneziawg-go ends, and its interface and routes with it... *)
ChildDies ==
    /\ child = "alive"
    /\ child' = "dead"
    /\ link' = FALSE /\ iface' = None /\ kernel' = {}
    /\ UNCHANGED <<conf, applyError, endpointIps, routeVars, phase, replaceVars>>

(* ...which the agent hears of in its exit event. *)
ChildExit ==
    /\ child = "dead"
    /\ child' = "none"
    /\ applyError' = TRUE
    /\ UNCHANGED <<conf, ifaceVars, endpointIps, routeVars, phase, replaceVars>>

-----------------------------------------------------------------------------
(* replaceRoutes, host by host, and prepare. *)

(* refreshEndpoint(false): what was resolved in the last 5 s is used again. *)
RefreshEndpoint == endpointIps' \in Endpoints[conf] \cup {endpointIps}

(* An ip route replace that is killed by its timeout may have taken effect. *)
CommandFails(ip) == kernel' = kernel \/ (link /\ kernel' = kernel \cup {ip})

(* The route of the private DNS server comes first. *)
NoDnsRoute ==
    /\ keep' = {} /\ nextDns' = None /\ sweep' = TRUE
    /\ UNCHANGED <<kernel, routes>>

DnsInstalled(dns) ==
    /\ link
    /\ kernel' = kernel \cup {dns} /\ routes' = routes \cup {dns}
    /\ keep' = {dns} /\ nextDns' = dns /\ sweep' = TRUE

DnsNotInstalled(dns) ==
    /\ CommandFails(dns)
    /\ nextDns' = IF dnsBinding \in routes THEN dnsBinding ELSE None
    /\ keep' = routes \cap {dnsBinding}
    /\ sweep' = FALSE
    /\ UNCHANGED routes

BeginReplace(hosts) ==
    /\ phase = "idle" /\ Up
    /\ RefreshEndpoint
    /\ LET dns == privateDnsRoute(endpointIps')
       IN  \/ dns = None /\ NoDnsRoute
           \/ dns # None /\ DnsInstalled(dns)
           \/ dns # None /\ DnsNotInstalled(dns)
    /\ todo' = hosts /\ listed' = hosts
    /\ phase' = "hosts"
    /\ UNCHANGED <<conf, child, applyError, link, iface, nodeBindings, dnsBinding, nextNodes>>

\* Mutant: what is answered is not kept.
KeepBinding(h, ip) ==
    /\ nextNodes' = [nextNodes EXCEPT ![h] = ip]
    /\ UNCHANGED keep

(* hostKeepDecision: an address that is kept joins keep, and is what is answered. *)
Keep(h, ip) ==
    /\ keep' = keep \cup {ip}
    /\ nextNodes' = [nextNodes EXCEPT ![h] = ip]

Drop(h) == UNCHANGED <<keep, nextNodes>>

\* Mutant: the previous route is kept whether there is one or not.
FallbackAnyhow(h) == sweep' = FALSE /\ Keep(h, nodeBindings[h])

(* Nothing new could be installed: the previous route is kept, if there is one. *)
Fallback(h) ==
    /\ sweep' = FALSE
    /\ IF nodeBindings[h] \in routes THEN Keep(h, nodeBindings[h]) ELSE Drop(h)

Unresolved(h) == Fallback(h) /\ UNCHANGED <<kernel, routes>>
Refused(h) == Drop(h) /\ UNCHANGED <<kernel, routes, sweep>>
Installed(h, ip) ==
    /\ link
    /\ kernel' = kernel \cup {ip} /\ routes' = routes \cup {ip}
    /\ Keep(h, ip)
    /\ UNCHANGED sweep
NotInstalled(h, ip) == CommandFails(ip) /\ Fallback(h) /\ UNCHANGED routes

HostStep(h, resolved) ==
    LET choices == chooseRouteIp(resolved, endpointIps, nodeBindings[h])
    IN  \/ resolved = {} /\ Unresolved(h)
        \/ resolved # {} /\ choices = {} /\ Refused(h)
        \/ \E ip \in choices : Installed(h, ip)
        \/ \E ip \in choices : NotInstalled(h, ip)

ReplaceHost(h) ==
    /\ phase = "hosts" /\ h \in todo
    /\ \E resolved \in Announce[h] : HostStep(h, resolved)
    /\ todo' = todo \ {h}
    /\ UNCHANGED <<conf, child, applyError, link, iface, endpointIps, nodeBindings, dnsBinding,
                   phase, listed, nextDns>>

(* The deletions, and the new bindings.  A deletion that failed may have *)
(* taken effect; its route stays tracked.                                            *)
FinishReplace ==
    /\ phase = "hosts" /\ todo = {}
    /\ \E snapshot \in BOOLEAN :
       \E gone \in SUBSET deletionPlan(snapshot) :
       \E deleted \in SUBSET gone :
          /\ snapshot => link
          /\ ~link => deleted = {}
          /\ routes' = routes \ deleted
          /\ kernel' = kernel \ gone
    /\ nodeBindings' = [h \in Hosts |->
                          IF nextNodes[h] \in routes' THEN nextNodes[h] ELSE None]
    /\ dnsBinding' = IF nextDns \in routes' THEN nextDns ELSE None
    /\ phase' = "idle"
    /\ todo' = {} /\ listed' = {} /\ keep' = {}
    /\ nextNodes' = NoNodes /\ nextDns' = None /\ sweep' = TRUE
    /\ UNCHANGED <<conf, child, applyError, link, iface, endpointIps>>

(* prepare, which tcp-check and icmp begin with. *)
Prepare(h) ==
    /\ phase = "idle" /\ Up
    /\ RefreshEndpoint
    /\ \E resolved \in Announce[h] :
          \E ip \in chooseRouteIp(resolved, endpointIps', None) :
             \/ /\ link
                /\ kernel' = kernel \cup {ip} /\ routes' = routes \cup {ip}
                /\ nodeBindings' = [nodeBindings EXCEPT ![h] = ip]
             \/ /\ CommandFails(ip)
                /\ UNCHANGED <<routes, nodeBindings>>
    /\ UNCHANGED <<conf, child, applyError, link, iface, dnsBinding, phase, replaceVars>>

(* A connection of a client: refused when its address is not tracked, else the kernel *)
(* sends it where its routes say.                                                  *)
handleConnect(ip) ==
    IF ip \notin routes THEN "refused"
    ELSE IF ip \in kernel THEN "tunnel" ELSE "outside"

-----------------------------------------------------------------------------
ApplyStep == LinkAppears \/ WaitForLink \/ Configure \/ ClearError \/ InstallDnsRoute \/ ApplyFails
ReplaceStep == (\E h \in Hosts : ReplaceHost(h)) \/ FinishReplace

Next ==
    \/ \E c \in Confs : BeginApply(c)
    \/ ApplyStep
    \/ Clear \/ ChildDies \/ ChildExit
    \/ \E hosts \in SUBSET Hosts : BeginReplace(hosts)
    \/ ReplaceStep
    \/ \E h \in Hosts : Prepare(h)

Spec == Init /\ [][Next]_vars
FairSpec == Spec /\ WF_vars(ApplyStep) /\ WF_vars(ReplaceStep) /\ WF_vars(ChildExit)

-----------------------------------------------------------------------------
(* Properties. *)

(* Nothing of a replaced configuration is left: what is routed, tracked or not, is *)
(* what the configuration of now allows (teardown, chooseRouteIp).                *)
RoutesWithinConfig ==
    routes \cup kernel \subseteq (IF conf = None THEN {} ELSE Policy[conf].allowed)

(* A node's binding is a route: the agent lets clients connect to it, and as long as *)
(* there is an interface they get there through the tunnel, whichever commands failed *)
(* or were killed (replaceRoutes, deletionPlan, handleConnect).                      *)
BindingsAreRoutes ==
    \A ip \in {nodeBindings[h] : h \in Hosts} \cup {dnsBinding} :
       ip # None => /\ handleConnect(ip) # "refused"
                    /\ link => handleConnect(ip) = "tunnel"

(* Where apply returns early, because the configuration is already up, the interface *)
(* carries that configuration.                                                      *)
UpIsConfigured ==
    (phase = "idle" /\ Up /\ child = "alive") => (link /\ iface = conf)

(* A listed node keeps its address through replaceRoutes, whatever fails, when each *)
(* answer of DNS is empty or announces that address ("keeps a previous address     *)
(* while it is still announced").                                                  *)
StillAnnounced(h) ==
    /\ nodeBindings[h] \in Policy[conf].allowed \ endpointIps
    /\ \A resolved \in Announce[h] : resolved = {} \/ nodeBindings[h] \in resolved

AnnouncedAddressIsKept ==
    [][phase = "hosts" /\ phase' = "idle" =>
         \A h \in listed : StillAnnounced(h) => nodeBindings'[h] = nodeBindings[h]]_vars

(* What the page of routes lists is what the kernel has: a route nobody asked for is *)
(* listed too, and a bound node is listed by its name (visibleAwgRoutes).            *)
PageListsKernel ==
    /\ {b[2] : b \in visibleAwgRoutes} = kernel \cap V4
    /\ link => \A h \in Hosts :
                  nodeBindings[h] \in V4 => <<h, nodeBindings[h]>> \in visibleAwgRoutes

(* An operation ends, so that the next one of the queue runs. *)
EveryOperationEnds == phase # "idle" ~> phase = "idle"

(* The agent is what its clients take it for. *)
Agent == INSTANCE AwgAgent WITH
    told <- conf,
    usable <- Up /\ phase \notin Applying,
    routed <- {h \in Hosts : nodeBindings[h] # None},
    asked <- listed
ImplementsAgent == Agent!AgentSpec
=============================================================================
