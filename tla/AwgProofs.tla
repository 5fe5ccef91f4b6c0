---------------------------- MODULE AwgProofs -------------------------------
(* Proofs about the agent and about those who use it, for any constants.             *)
(*                                                                                   *)
(* AwgTunnel: the inductive invariant follows replaceRoutes: what it means to keep is *)
(* tracked, and in the kernel as long as there is an interface.                      *)
(*                                                                                   *)
(* AwgConfig, in the second half: the invariant keeps apart the requests of several  *)
(* tasks in one queue, of which some are given up before they are carried out.       *)
EXTENDS AwgTunnel, AwgConfig, SequenceTheorems, TLAPS

USE DEF Applying, NoNodes, MaybeAddr

(* What a running replaceRoutes has decided so far; between operations, nothing. *)
KeepsSound ==
    /\ keep \subseteq routes
    /\ link => keep \subseteq kernel
    /\ \A h \in Hosts : nextNodes[h] # None => nextNodes[h] \in keep /\ h \in listed
    /\ nextDns # None => nextDns \in keep
    /\ phase # "hosts" => NoReplace

(* While the child is alive, its interface carries the configuration once setconf ran. *)
Configured ==
    (child = "alive" /\ phase \notin {"link", "configure"}) => (link /\ iface = conf)

(* The nodes that were dealt with and are still announced keep their address. *)
KeptSoFar ==
    phase = "hosts" =>
       \A h \in listed \ todo : StillAnnounced(h) => nextNodes[h] = nodeBindings[h]

-----------------------------------------------------------------------------
(* chooseRouteIp returns an address that is resolved, allowed and no endpoint, and the *)
(* previous one wherever it is such an address.                                       *)
LEMMA ChoiceIsUsable ==
    ASSUME NEW resolved, NEW endpoints, NEW previous
    PROVE  /\ chooseRouteIp(resolved, endpoints, previous)
                \subseteq (resolved \cap Policy[conf].allowed) \ endpoints
           /\ previous \in (resolved \cap Policy[conf].allowed) \ endpoints
                => chooseRouteIp(resolved, endpoints, previous) = {previous}
BY DEF chooseRouteIp, Usable

LEMMA DnsIsAllowed ==
    ASSUME NEW endpoints
    PROVE  LET dns == privateDnsRoute(endpoints)
           IN  dns # None => dns \in Policy[conf].allowed
BY DEF privateDnsRoute

LEMMA AllowedAreAddrs ==
    ASSUME conf \in Confs
    PROVE  Policy[conf].allowed \subseteq Addrs
BY PolicyAssumption

-----------------------------------------------------------------------------
LEMMA InitTypes == Init => TypeOK
BY DEF Init, TypeOK, NoReplace

LEMMA StepTypes == TypeOK /\ [Next]_vars => TypeOK'
<1> SUFFICES ASSUME TypeOK, [Next]_vars PROVE TypeOK'
  OBVIOUS
<1> USE DEF TypeOK
<1>1. ASSUME NEW c \in Confs, BeginApply(c) PROVE TypeOK'
  BY <1>1, AddrAssumption DEF BeginApply, Teardown, replaceVars
<1>2. CASE LinkAppears
  BY <1>2 DEF LinkAppears, routeVars, replaceVars
<1>3. CASE WaitForLink
  BY <1>3 DEF WaitForLink, ifaceVars, routeVars, replaceVars
<1>4. CASE Configure
  BY <1>4 DEF Configure, routeVars, replaceVars
<1>5. CASE ClearError
  BY <1>5, DnsAssumption DEF ClearError, ifaceVars, routeVars, replaceVars
<1>6. CASE InstallDnsRoute
  BY <1>6, DnsAssumption, AllowedAreAddrs, DnsIsAllowed DEF InstallDnsRoute, replaceVars
<1>7. CASE ApplyFails
  BY <1>7, DnsAssumption DEF ApplyFails, Teardown, replaceVars
<1>8. CASE Clear
  BY <1>8 DEF Clear, Teardown, replaceVars
<1>9. CASE ChildDies
  BY <1>9 DEF ChildDies, routeVars, replaceVars
<1>10. CASE ChildExit
  BY <1>10 DEF ChildExit, ifaceVars, routeVars, replaceVars
<1>11. ASSUME NEW hosts \in SUBSET Hosts, BeginReplace(hosts) PROVE TypeOK'
  <2> DEFINE dns == privateDnsRoute(endpointIps')
  <2>1. conf \in Confs /\ conf # None /\ endpointIps' \subseteq Addrs
    BY <1>11, DnsAssumption DEF BeginReplace, Up, RefreshEndpoint
  <2>2. dns # None => dns \in Addrs
    BY <2>1, AllowedAreAddrs, DnsIsAllowed
  <2>3. CASE dns = None /\ NoDnsRoute
    BY <1>11, <2>1, <2>3 DEF BeginReplace, NoDnsRoute
  <2>4. CASE dns # None /\ DnsInstalled(dns)
    BY <1>11, <2>1, <2>2, <2>4 DEF BeginReplace, DnsInstalled
  <2>5. CASE dns # None /\ DnsNotInstalled(dns)
    BY <1>11, <2>1, <2>2, <2>5 DEF BeginReplace, DnsNotInstalled, CommandFails
  <2> QED
    BY <1>11, <2>3, <2>4, <2>5 DEF BeginReplace
<1>12. ASSUME NEW h \in Hosts, ReplaceHost(h) PROVE TypeOK'
  <2>1. conf \in Confs /\ phase = "hosts"
    BY <1>12 DEF ReplaceHost
  <2>2. PICK resolved \in Announce[h] : HostStep(h, resolved)
    BY <1>12 DEF ReplaceHost
  <2>3. chooseRouteIp(resolved, endpointIps, nodeBindings[h]) \subseteq Addrs
    BY <2>1, AllowedAreAddrs, ChoiceIsUsable
  <2>4. CASE Unresolved(h)
    BY <1>12, <2>4 DEF ReplaceHost, Unresolved, Fallback, Keep, Drop
  <2>5. CASE Refused(h)
    BY <1>12, <2>5 DEF ReplaceHost, Refused, Drop
  <2>6. ASSUME NEW ip \in Addrs, Installed(h, ip) PROVE TypeOK'
    BY <1>12, <2>6 DEF ReplaceHost, Installed, Keep
  <2>7. ASSUME NEW ip \in Addrs, NotInstalled(h, ip) PROVE TypeOK'
    BY <1>12, <2>7 DEF ReplaceHost, NotInstalled, CommandFails, Fallback, Keep, Drop
  <2> QED
    BY <2>2, <2>3, <2>4, <2>5, <2>6, <2>7 DEF HostStep
<1>13. CASE FinishReplace
  BY <1>13 DEF FinishReplace, deletionPlan
<1>14. ASSUME NEW h \in Hosts, Prepare(h) PROVE TypeOK'
  BY <1>14, DnsAssumption, AllowedAreAddrs, ChoiceIsUsable
     DEF Prepare, Up, RefreshEndpoint, CommandFails, replaceVars
<1>15. CASE UNCHANGED vars
  BY <1>15 DEF vars, ifaceVars, routeVars, replaceVars
<1> QED
  BY <1>1, <1>2, <1>3, <1>4, <1>5, <1>6, <1>7, <1>8, <1>9, <1>10, <1>11, <1>12, <1>13,
     <1>14, <1>15 DEF Next, ApplyStep, ReplaceStep

(* Every variable keeps to its type. *)
THEOREM TypesHold == Spec => []TypeOK
BY InitTypes, StepTypes, PTL DEF Spec

-----------------------------------------------------------------------------
(* Routes belong to the configuration of now. *)

LEMMA StepWithin ==
    TypeOK /\ RoutesWithinConfig /\ [Next]_vars => RoutesWithinConfig'
<1> SUFFICES ASSUME TypeOK, RoutesWithinConfig, [Next]_vars PROVE RoutesWithinConfig'
  OBVIOUS
<1> USE DEF RoutesWithinConfig
<1>1. ASSUME NEW c \in Confs, BeginApply(c) PROVE RoutesWithinConfig'
  BY <1>1 DEF BeginApply, Teardown
<1>2. CASE LinkAppears \/ WaitForLink \/ Configure \/ ClearError \/ ChildDies \/ ChildExit
  BY <1>2 DEF LinkAppears, WaitForLink, Configure, ClearError, ChildDies, ChildExit, ifaceVars,
              routeVars
<1>3. CASE InstallDnsRoute
  BY <1>3, DnsIsAllowed DEF InstallDnsRoute, TypeOK
<1>4. CASE ApplyFails \/ Clear
  BY <1>4 DEF ApplyFails, Clear, Teardown
<1>5. ASSUME NEW hosts \in SUBSET Hosts, BeginReplace(hosts) PROVE RoutesWithinConfig'
  <2> DEFINE dns == privateDnsRoute(endpointIps')
  <2>1. conf' = conf /\ conf # None
    BY <1>5 DEF BeginReplace, Up
  <2>2. dns # None => dns \in Policy[conf].allowed
    BY DnsIsAllowed
  <2>3. CASE NoDnsRoute
    BY <2>1, <2>3 DEF NoDnsRoute
  <2>4. CASE dns # None /\ DnsInstalled(dns)
    BY <2>1, <2>2, <2>4 DEF DnsInstalled
  <2>5. CASE dns # None /\ DnsNotInstalled(dns)
    BY <2>1, <2>2, <2>5 DEF DnsNotInstalled, CommandFails
  <2> QED
    BY <1>5, <2>3, <2>4, <2>5 DEF BeginReplace
<1>6. ASSUME NEW h \in Hosts, ReplaceHost(h) PROVE RoutesWithinConfig'
  <2>1. conf' = conf /\ conf # None
    BY <1>6 DEF ReplaceHost, TypeOK
  <2>2. PICK resolved \in Announce[h] : HostStep(h, resolved)
    BY <1>6 DEF ReplaceHost
  <2>3. chooseRouteIp(resolved, endpointIps, nodeBindings[h]) \subseteq Policy[conf].allowed
    BY ChoiceIsUsable
  <2>4. CASE Unresolved(h) \/ Refused(h)
    BY <2>1, <2>4 DEF Unresolved, Refused
  <2>5. ASSUME NEW ip \in Policy[conf].allowed, Installed(h, ip) \/ NotInstalled(h, ip)
        PROVE  RoutesWithinConfig'
    BY <2>1, <2>5 DEF Installed, NotInstalled, CommandFails
  <2> QED
    BY <2>2, <2>3, <2>4, <2>5 DEF HostStep
<1>7. CASE FinishReplace
  BY <1>7 DEF FinishReplace
<1>8. ASSUME NEW h \in Hosts, Prepare(h) PROVE RoutesWithinConfig'
  <2>1. conf' = conf /\ conf # None
    BY <1>8 DEF Prepare, Up
  <2>2. PICK ip \in Policy[conf].allowed :
           \/ kernel' = kernel \cup {ip} /\ routes' = routes \cup {ip}
           \/ CommandFails(ip) /\ UNCHANGED routes
    BY <1>8, ChoiceIsUsable DEF Prepare
  <2> QED
    BY <2>1, <2>2 DEF CommandFails
<1>9. CASE UNCHANGED vars
  BY <1>9 DEF vars, ifaceVars, routeVars
<1> QED
  BY <1>1, <1>2, <1>3, <1>4, <1>5, <1>6, <1>7, <1>8, <1>9 DEF Next, ApplyStep, ReplaceStep

(* No route, tracked or in the kernel, outlives the configuration that allowed it. *)
THEOREM RoutesStayWithinConfig == Spec => []RoutesWithinConfig
<1>1. Init => RoutesWithinConfig
  BY DEF Init, RoutesWithinConfig
<1> QED
  BY <1>1, StepWithin, TypesHold, PTL DEF Spec

-----------------------------------------------------------------------------
(* After setconf the interface carries the configuration while its child is alive. *)

LEMMA StepConfigured == TypeOK /\ Configured /\ [Next]_vars => Configured'
<1> SUFFICES ASSUME TypeOK, Configured, [Next]_vars PROVE Configured'
  OBVIOUS
<1> USE DEF Configured
<1>1. CASE (\E c \in Confs : BeginApply(c)) \/ Clear \/ ApplyFails
  BY <1>1 DEF BeginApply, Clear, ApplyFails
<1>2. CASE LinkAppears \/ WaitForLink \/ Configure
  BY <1>2 DEF LinkAppears, WaitForLink, Configure, ifaceVars
<1>3. CASE ClearError \/ InstallDnsRoute
  BY <1>3 DEF ClearError, InstallDnsRoute, ifaceVars
<1>4. CASE ChildDies \/ ChildExit
  BY <1>4 DEF ChildDies, ChildExit
<1>5. CASE (\E hosts \in SUBSET Hosts : BeginReplace(hosts)) \/ FinishReplace
             \/ (\E h \in Hosts : ReplaceHost(h) \/ Prepare(h))
  BY <1>5 DEF BeginReplace, FinishReplace, ReplaceHost, Prepare
<1>6. CASE UNCHANGED vars
  BY <1>6 DEF vars, ifaceVars
<1> QED
  BY <1>1, <1>2, <1>3, <1>4, <1>5, <1>6 DEF Next, ApplyStep, ReplaceStep

(* Where apply returns early, the interface carries the configuration it was given. *)
THEOREM UpIsConfiguredHolds == Spec => []UpIsConfigured
<1>1. Init => Configured
  BY DEF Init, Configured
<1>2. Configured => UpIsConfigured
  BY DEF Configured, UpIsConfigured
<1> QED
  BY <1>1, <1>2, StepConfigured, TypesHold, PTL DEF Spec

-----------------------------------------------------------------------------
(* What is to be kept is tracked and in the kernel; hence so is what is bound. *)

Fresh == phase = "link" => routes = {}
Sound == BindingsAreRoutes /\ KeepsSound /\ Fresh

LEMMA StepSound == TypeOK /\ Sound /\ [Next]_vars => Sound'
<1> SUFFICES ASSUME TypeOK, Sound, [Next]_vars PROVE Sound'
  OBVIOUS
<1> USE DEF Sound, Fresh, BindingsAreRoutes, handleConnect, KeepsSound
<1>1. ASSUME NEW c \in Confs, BeginApply(c) PROVE Sound'
  BY <1>1 DEF BeginApply, Teardown, replaceVars, NoReplace, TypeOK
<1>2. CASE LinkAppears
  BY <1>2 DEF LinkAppears, routeVars, replaceVars, NoReplace, TypeOK
<1>3. CASE WaitForLink \/ Configure \/ ClearError \/ ChildExit
  BY <1>3 DEF WaitForLink, Configure, ClearError, ChildExit, ifaceVars, routeVars, replaceVars,
              NoReplace, TypeOK
<1>4. CASE InstallDnsRoute
  BY <1>4 DEF InstallDnsRoute, replaceVars, NoReplace, TypeOK
<1>5. CASE ApplyFails \/ Clear
  BY <1>5 DEF ApplyFails, Clear, Teardown, replaceVars, NoReplace, TypeOK
<1>6. CASE ChildDies
  BY <1>6 DEF ChildDies, routeVars, replaceVars, NoReplace, TypeOK
<1>7. ASSUME NEW hosts \in SUBSET Hosts, BeginReplace(hosts) PROVE Sound'
  <2> DEFINE dns == privateDnsRoute(endpointIps')
  <2>1. /\ phase' = "hosts" /\ phase = "idle"
        /\ UNCHANGED <<link, nodeBindings, dnsBinding, nextNodes>>
    BY <1>7 DEF BeginReplace
  <2>2. NoReplace
    BY <2>1
  <2>3. CASE NoDnsRoute
    BY <2>1, <2>2, <2>3 DEF NoDnsRoute, NoReplace, TypeOK
  <2>4. CASE DnsInstalled(dns)
    BY <2>1, <2>2, <2>4 DEF DnsInstalled, NoReplace, TypeOK
  <2>5. CASE DnsNotInstalled(dns)
    <3>1. kernel \subseteq kernel' /\ routes' = routes
      BY <2>5 DEF DnsNotInstalled, CommandFails
    <3>2. BindingsAreRoutes'
      BY <2>1, <3>1 DEF TypeOK
    <3>3. KeepsSound'
      <4>1. CASE dnsBinding \in routes /\ dnsBinding # None
        BY <4>1, <2>1, <2>2, <2>5, <3>1 DEF DnsNotInstalled, NoReplace, TypeOK
      <4>2. CASE dnsBinding = None
        BY <4>2, <2>1, <2>2, <2>5, <3>1, AddrAssumption DEF DnsNotInstalled, NoReplace, TypeOK
      <4> QED
        BY <4>1, <4>2
    <3> QED
      BY <2>1, <3>2, <3>3
  <2> QED
    BY <1>7, <2>3, <2>4, <2>5 DEF BeginReplace
<1>8. ASSUME NEW h \in Hosts, ReplaceHost(h) PROVE Sound'
  <2>1. /\ phase = "hosts" /\ phase' = "hosts" /\ h \in listed
        /\ UNCHANGED <<link, nodeBindings, dnsBinding, listed, nextDns>>
    BY <1>8 DEF ReplaceHost, TypeOK
  <2>2. PICK resolved \in Announce[h] : HostStep(h, resolved)
    BY <1>8 DEF ReplaceHost
  <2>3. chooseRouteIp(resolved, endpointIps, nodeBindings[h]) \subseteq Addrs
    BY <1>8, AllowedAreAddrs, ChoiceIsUsable DEF ReplaceHost, TypeOK
  <2>4. nodeBindings[h] \in routes => nodeBindings[h] # None
    BY AddrAssumption DEF TypeOK
  <2>5. ASSUME Fallback(h), kernel \subseteq kernel', routes' = routes PROVE Sound'
    <3>1. BindingsAreRoutes'
      BY <2>1, <2>5 DEF TypeOK
    <3>2. CASE nodeBindings[h] \in routes
      BY <2>1, <2>4, <2>5, <3>1, <3>2 DEF Fallback, Keep, TypeOK
    <3>3. CASE nodeBindings[h] \notin routes
      BY <2>1, <2>5, <3>1, <3>3 DEF Fallback, Drop, TypeOK
    <3> QED
      BY <3>2, <3>3
  <2>6. CASE Unresolved(h)
    BY <2>5, <2>6 DEF Unresolved
  <2>7. CASE Refused(h)
    BY <2>1, <2>7 DEF Refused, Drop, TypeOK
  <2>8. ASSUME NEW ip \in Addrs, Installed(h, ip) PROVE Sound'
    BY <2>1, <2>8, AddrAssumption DEF Installed, Keep, TypeOK
  <2>9. ASSUME NEW ip \in Addrs, NotInstalled(h, ip) PROVE Sound'
    BY <2>5, <2>9 DEF NotInstalled, CommandFails
  <2> QED
    BY <2>2, <2>3, <2>6, <2>7, <2>8, <2>9 DEF HostStep
<1>9. CASE FinishReplace
  <2>1. PICK snapshot \in BOOLEAN : \E gone \in SUBSET deletionPlan(snapshot) :
           \E deleted \in SUBSET gone : routes' = routes \ deleted /\ kernel' = kernel \ gone
    BY <1>9 DEF FinishReplace
  <2>2. keep \subseteq routes' /\ (link => keep \subseteq kernel')
    BY <2>1 DEF deletionPlan
  <2>3. BindingsAreRoutes'
    <3>1. \A h \in Hosts : nodeBindings'[h] # None =>
             nodeBindings'[h] \in routes' /\ nodeBindings'[h] \in keep
      BY <1>9 DEF FinishReplace, TypeOK
    <3>2. dnsBinding' # None => dnsBinding' \in routes' /\ dnsBinding' \in keep
      BY <1>9 DEF FinishReplace
    <3> QED
      BY <1>9, <2>2, <3>1, <3>2 DEF FinishReplace
  <2>4. KeepsSound'
    BY <1>9 DEF FinishReplace, NoReplace
  <2> QED
    BY <1>9, <2>3, <2>4 DEF FinishReplace
<1>10. ASSUME NEW h \in Hosts, Prepare(h) PROVE Sound'
  <2>1. /\ phase = "idle" /\ UNCHANGED <<link, dnsBinding, phase, replaceVars>>
    BY <1>10 DEF Prepare
  <2>2. PICK ip :
           \/ /\ kernel' = kernel \cup {ip} /\ routes' = routes \cup {ip}
              /\ nodeBindings' = [nodeBindings EXCEPT ![h] = ip]
           \/ CommandFails(ip) /\ UNCHANGED <<routes, nodeBindings>>
    BY <1>10 DEF Prepare
  <2>3. kernel \subseteq kernel' /\ routes \subseteq routes'
    BY <2>2 DEF CommandFails
  <2>4. BindingsAreRoutes'
    BY <2>1, <2>2, <2>3 DEF TypeOK
  <2>5. KeepsSound'
    BY <2>1, <2>3 DEF replaceVars, NoReplace
  <2> QED
    BY <2>1, <2>4, <2>5
<1>11. CASE UNCHANGED vars
  BY <1>11 DEF vars, ifaceVars, routeVars, replaceVars, NoReplace
<1> QED
  BY <1>1, <1>2, <1>3, <1>4, <1>5, <1>6, <1>7, <1>8, <1>9, <1>10, <1>11
     DEF Next, ApplyStep, ReplaceStep

LEMMA SoundHolds == Spec => []Sound
<1>1. Init => Sound
  BY DEF Init, Sound, Fresh, BindingsAreRoutes, handleConnect, KeepsSound, NoReplace
<1> QED
  BY <1>1, StepSound, TypesHold, PTL DEF Spec

(* A bound node has its route, whichever commands fail or are killed. *)
THEOREM BindingsAreRoutesHolds == Spec => []BindingsAreRoutes
<1>1. Sound => BindingsAreRoutes
  BY DEF Sound
<1> QED
  BY <1>1, SoundHolds, PTL

(* The page lists what the kernel has, a bound node by its name. *)
THEOREM PageListsKernelHolds == Spec => []PageListsKernel
<1>1. TypeOK /\ BindingsAreRoutes => PageListsKernel
  <2> SUFFICES ASSUME TypeOK, BindingsAreRoutes PROVE PageListsKernel
    OBVIOUS
  <2>1. ASSUME NEW ip \in kernel \cap V4 PROVE \E b \in visibleAwgRoutes : b[2] = ip
    <3> DEFINE bound == {<<h, nodeBindings[h]>> : h \in Hosts} \cup {<<None, dnsBinding>>}
    <3>1. CASE \E b \in bound : b[2] = ip
      BY <3>1 DEF visibleAwgRoutes
    <3>2. CASE \A b \in bound : b[2] # ip
      <4>1. <<None, ip>> \in visibleAwgRoutes
        BY <3>2 DEF visibleAwgRoutes
      <4> QED
        BY <4>1
    <3> QED
      BY <3>1, <3>2
  <2>2. \A b \in visibleAwgRoutes : b[2] \in kernel \cap V4
    BY DEF visibleAwgRoutes
  <2>3. ASSUME link, NEW h \in Hosts, nodeBindings[h] \in V4
        PROVE  <<h, nodeBindings[h]>> \in visibleAwgRoutes
    <3>1. nodeBindings[h] \in kernel
      BY <2>3, AddrAssumption DEF BindingsAreRoutes, handleConnect
    <3> QED
      BY <2>3, <3>1 DEF visibleAwgRoutes
  <2> QED
    BY <2>1, <2>2, <2>3 DEF PageListsKernel
<1> QED
  BY <1>1, TypesHold, BindingsAreRoutesHolds, PTL

-----------------------------------------------------------------------------
(* A node that is still announced is dealt with by keeping its address. *)

LEMMA StepKept == TypeOK /\ Sound /\ KeptSoFar /\ [Next]_vars => KeptSoFar'
<1> SUFFICES ASSUME TypeOK, Sound, KeptSoFar, [Next]_vars PROVE KeptSoFar'
  OBVIOUS
<1> USE DEF KeptSoFar
<1>1. CASE phase' # "hosts"
  BY <1>1
<1>2. CASE UNCHANGED <<conf, endpointIps, nodeBindings, phase, todo, listed, nextNodes>>
  BY <1>2 DEF StillAnnounced
<1>3. CASE ChildDies \/ ChildExit \/ UNCHANGED vars
  BY <1>2, <1>3 DEF ChildDies, ChildExit, vars, ifaceVars, routeVars, replaceVars
<1>4. ASSUME NEW hosts \in SUBSET Hosts, BeginReplace(hosts) PROVE KeptSoFar'
  BY <1>4 DEF BeginReplace
<1>5. ASSUME NEW h \in Hosts, ReplaceHost(h) PROVE KeptSoFar'
  <2>1. /\ phase = "hosts" /\ h \in listed /\ todo' = todo \ {h}
        /\ UNCHANGED <<conf, endpointIps, nodeBindings, listed>>
    BY <1>5 DEF ReplaceHost, TypeOK
  <2>2. PICK resolved \in Announce[h] : HostStep(h, resolved)
    BY <1>5 DEF ReplaceHost
  <2>3. ASSUME NEW g \in Hosts, g # h PROVE nextNodes'[g] = nextNodes[g]
    BY <2>2, <2>3
       DEF HostStep, Unresolved, Refused, Installed, NotInstalled, Fallback, Keep, Drop, TypeOK
  <2>4. ASSUME StillAnnounced(h) PROVE nextNodes'[h] = nodeBindings[h]
    <3>1. nodeBindings[h] \in routes
      <4>1. nodeBindings[h] # None
        BY <2>1, <2>4, AllowedAreAddrs, AddrAssumption DEF StillAnnounced, TypeOK
      <4> QED
        BY <4>1 DEF Sound, BindingsAreRoutes, handleConnect
    <3>2. CASE Fallback(h)
      BY <3>1, <3>2 DEF Fallback, Keep, TypeOK
    <3>3. CASE resolved # {}
      <4>1. chooseRouteIp(resolved, endpointIps, nodeBindings[h]) = {nodeBindings[h]}
        BY <2>4, <3>3, ChoiceIsUsable DEF StillAnnounced
      <4>2. Installed(h, nodeBindings[h]) \/ Fallback(h)
        BY <2>2, <3>3, <4>1 DEF HostStep, NotInstalled
      <4> QED
        BY <3>2, <4>2 DEF Installed, Keep, TypeOK
    <3>4. CASE resolved = {}
      <4>1. chooseRouteIp(resolved, endpointIps, nodeBindings[h]) = {}
        BY <3>4, ChoiceIsUsable
      <4> QED
        BY <2>2, <3>2, <3>4, <4>1 DEF HostStep, Unresolved
    <3> QED
      BY <3>3, <3>4
  <2>5. \A g \in Hosts : StillAnnounced(g)' = StillAnnounced(g)
    BY <2>1 DEF StillAnnounced
  <2> QED
    BY <2>1, <2>3, <2>4, <2>5 DEF TypeOK
<1>6. ASSUME NEW h \in Hosts, Prepare(h) PROVE KeptSoFar'
  BY <1>1, <1>6 DEF Prepare
<1>7. CASE ApplyStep \/ Clear \/ FinishReplace \/ \E c \in Confs : BeginApply(c)
  BY <1>1, <1>7 DEF ApplyStep, LinkAppears, WaitForLink, Configure, ClearError, InstallDnsRoute,
                    ApplyFails, Clear, FinishReplace, BeginApply
<1> QED
  BY <1>3, <1>4, <1>5, <1>6, <1>7 DEF Next, ReplaceStep

(* replaceRoutes never moves a node away from an address that is still announced. *)
THEOREM AnnouncedAddressIsKeptHolds == Spec => AnnouncedAddressIsKept
<1> DEFINE Step == phase = "hosts" /\ phase' = "idle" =>
              \A h \in listed : StillAnnounced(h) => nodeBindings'[h] = nodeBindings[h]
<1>1. Init => KeptSoFar
  BY DEF Init, KeptSoFar
<1>2. ASSUME TypeOK, Sound, KeptSoFar, [Next]_vars PROVE [Step]_vars
  <2> SUFFICES ASSUME phase = "hosts", phase' = "idle", NEW h \in listed, StillAnnounced(h)
               PROVE  nodeBindings'[h] = nodeBindings[h]
    OBVIOUS
  <2>1. FinishReplace
    BY <1>2 DEF Next, ApplyStep, ReplaceStep, BeginApply, LinkAppears, WaitForLink, Configure,
       ClearError, InstallDnsRoute, ApplyFails, Clear, ChildDies, ChildExit, BeginReplace,
       ReplaceHost, Prepare, vars
  <2>2. nextNodes[h] = nodeBindings[h] /\ h \in Hosts
    BY <1>2, <2>1 DEF FinishReplace, KeptSoFar, TypeOK
  <2>3. nextNodes[h] # None
    BY <1>2, <2>2, AllowedAreAddrs, AddrAssumption DEF StillAnnounced, TypeOK
  <2>4. nextNodes[h] \in routes'
    <3>1. nextNodes[h] \in keep /\ keep \subseteq routes
      BY <1>2, <2>2, <2>3 DEF Sound, KeepsSound
    <3>2. PICK snapshot \in BOOLEAN : \E gone \in SUBSET deletionPlan(snapshot) :
             \E deleted \in SUBSET gone : routes' = routes \ deleted
      BY <2>1 DEF FinishReplace
    <3> QED
      BY <3>1, <3>2 DEF deletionPlan
  <2> QED
    BY <2>1, <2>2, <2>4 DEF FinishReplace
<1> QED
  BY <1>1, <1>2, StepKept, SoundHolds, TypesHold, PTL DEF Spec, AnnouncedAddressIsKept

-----------------------------------------------------------------------------
(* Refinement: what the clients of the agent may rely on. *)

Routed == {h \in Hosts : nodeBindings[h] # None}
Ready == Up /\ phase \notin Applying

LEMMA InitAgent == Init => Agent!AgentInit
BY DEF Init, NoReplace, Agent!AgentInit, Up

LEMMA StepAgent ==
    TypeOK /\ Sound /\ [Next]_vars => [Agent!AgentNext]_(Agent!agentVars)
<1> SUFFICES ASSUME TypeOK, Sound, [Next]_vars
             PROVE  \/ Agent!AgentNext
                    \/ UNCHANGED <<conf, Ready, Routed, listed>>
  BY DEF Agent!agentVars, Ready, Routed
<1>1. ASSUME NEW c \in Confs, BeginApply(c) PROVE Agent!Begin(c)
  BY <1>1 DEF BeginApply, Teardown, replaceVars, Agent!Begin, Up
<1>2. CASE LinkAppears \/ WaitForLink \/ Configure \/ ClearError
  <2>1. Ready = FALSE /\ Ready' = FALSE /\ UNCHANGED <<conf, nodeBindings, listed>>
    BY <1>2 DEF LinkAppears, WaitForLink, Configure, ClearError, routeVars, replaceVars, Ready
  <2> QED
    BY <2>1 DEF Routed
<1>3. CASE InstallDnsRoute
  <2>1. Ready = FALSE /\ UNCHANGED <<conf, nodeBindings, listed>>
    BY <1>3 DEF InstallDnsRoute, replaceVars, Ready
  <2>2. CASE Ready'
    <3>1. conf # None
      BY <2>1, <2>2 DEF Ready, Up
    <3> QED
      BY <2>1, <2>2, <3>1 DEF Agent!AgentNext, Agent!ComeUp, Ready
  <2>3. CASE Ready' = FALSE
    BY <2>1, <2>3 DEF Routed
  <2> QED
    BY <2>2, <2>3 DEF Ready
<1>4. CASE ApplyFails
  BY <1>4 DEF ApplyFails, Teardown, replaceVars, Agent!AgentNext, Agent!GiveUp, Up
<1>5. CASE Clear
  BY <1>5 DEF Clear, Teardown, replaceVars, Agent!AgentNext, Agent!Forget, Up
<1>6. CASE ChildDies
  <2>1. UNCHANGED <<conf, applyError, phase, nodeBindings, listed>>
    BY <1>6 DEF ChildDies, routeVars, replaceVars
  <2>2. child # "none" /\ child' # "none"
    BY <1>6 DEF ChildDies
  <2> QED
    BY <2>1, <2>2 DEF Ready, Up, Routed
<1>7. CASE ChildExit
  BY <1>7 DEF ChildExit, routeVars, replaceVars, Agent!AgentNext, Agent!GoDown, Up
<1>8. ASSUME NEW hosts \in SUBSET Hosts, BeginReplace(hosts) PROVE Agent!Ask(hosts)
  BY <1>8 DEF BeginReplace, Agent!Ask, Up
<1>9. ASSUME NEW h \in Hosts, ReplaceHost(h) PROVE UNCHANGED <<conf, Ready, Routed, listed>>
  BY <1>9 DEF ReplaceHost, Ready, Up, Routed
<1>10. CASE FinishReplace
  <2>1. Routed' \subseteq listed
    BY <1>10 DEF FinishReplace, Sound, KeepsSound, Routed
  <2>2. UNCHANGED <<conf, Ready>> /\ listed' = {}
    BY <1>10 DEF FinishReplace, Ready, Up
  <2> QED
    BY <2>1, <2>2 DEF Agent!AgentNext, Agent!Settle, Ready, Routed
<1>11. ASSUME NEW h \in Hosts, Prepare(h)
       PROVE  Agent!Route(h) \/ UNCHANGED <<conf, Ready, Routed, listed>>
  <2>1. UNCHANGED <<conf, child, applyError, phase, listed>> /\ Ready
    BY <1>11 DEF Prepare, replaceVars, Ready
  <2>2. PICK ip : ip \in Addrs /\ \/ nodeBindings' = [nodeBindings EXCEPT ![h] = ip]
                                  \/ UNCHANGED nodeBindings
    BY <1>11, ChoiceIsUsable, AllowedAreAddrs DEF Prepare, Up, TypeOK
  <2>3. Ready'
    BY <2>1 DEF Ready, Up
  <2>4. CASE nodeBindings' = [nodeBindings EXCEPT ![h] = ip]
    <3>1. Routed' = Routed \cup {h}
      BY <2>2, <2>4, AddrAssumption DEF Routed, TypeOK
    <3> QED
      BY <2>1, <2>3, <3>1 DEF Agent!Route, Ready, Routed
  <2>5. CASE UNCHANGED nodeBindings
    BY <2>1, <2>3, <2>5 DEF Routed
  <2> QED
    BY <2>2, <2>4, <2>5
<1>12. CASE UNCHANGED vars
  BY <1>12 DEF vars, routeVars, replaceVars, Ready, Up, Routed
<1> QED
  BY <1>1, <1>2, <1>3, <1>4, <1>5, <1>6, <1>7, <1>8, <1>9, <1>10, <1>11, <1>12
     DEF Next, ApplyStep, ReplaceStep, Agent!AgentNext

(* The tunnel implements the agent that AwgConfig builds on, in any number of nodes, *)
(* configurations and addresses.                                                     *)
THEOREM TunnelIsAgent == Spec => ImplementsAgent
BY InitAgent, StepAgent, TypesHold, SoundHolds, PTL DEF Spec, ImplementsAgent, Agent!AgentSpec
-----------------------------------------------------------------------------
(* AwgConfig: the requests that several tasks have at one agent. *)

(* A task that waits has one request at the agent, which is as the task is; nobody else *)
(* has one, so that an answer is never that to a request of before.                     *)
AnswersMatch ==
    /\ \A t \in Tasks : task[t].step = "wait" => \E i \in DOMAIN queue : queue[i].task = t
    /\ \A i \in DOMAIN queue : queue[i].task # None =>
          LET t == queue[i].task
          IN  /\ task[t].step = "wait"
              /\ queue[i].kind = task[t].kind /\ queue[i].conf = task[t].conf
              /\ queue[i].hosts = task[t].hosts
              /\ \A j \in DOMAIN queue : queue[j].task = t => j = i

(* Who asks for a status or an apply knows a configuration; who is idle has begun nothing. *)
NamesConf(kind, c) == kind \in {"status", "apply"} => c # None
KnowsConf(x) ==
    /\ x.step # "read" => NamesConf(x.kind, x.conf)
    /\ x.step = "clearError" => x.kind \in {"status", "apply"}
    /\ x.job = "idle" => x.step = "read"

RequestsOK ==
    /\ task \in [Tasks -> Task]
    /\ queue \in Seq(Request)
    /\ started \in BOOLEAN
    /\ AnswersMatch
    /\ \A t \in Tasks : KnowsConf(task[t])
    /\ \A i \in DOMAIN queue : NamesConf(queue[i].kind, queue[i].conf)

(* What the agent has begun is the first of its requests. *)
WorksOnFirst ==
    /\ started => /\ queue # <<>>
                  /\ \/ Head(queue).kind = "apply" /\ told = Head(queue).conf /\ ~usable /\ asked = {}
                     \/ Head(queue).kind = "routes" /\ told # None /\ asked = Head(queue).hosts
    /\ ~started => asked = {}

(* A tunnel is used only with a configuration that works, and without one there is no *)
(* route.                                                                            *)
UsableIsWhole ==
    /\ usable => told \in Confs \ Broken
    /\ told = None => routed = {}

RowsOK ==
    /\ stored \in MaybeConf
    /\ rowError \in BOOLEAN /\ (rowError => stored # None)
    /\ nodes \subseteq Hosts /\ preparing \subseteq Hosts
    /\ edits \in 0..MaxEdits /\ faults \in 0..MaxFaults

(* An idle task is a task, and so is one that begins to sync. *)
LEMMA IdleIsTask == Idle \in Task /\ Sync \in Task /\ KnowsConf(Idle) /\ KnowsConf(Sync)
BY DEF Idle, Sync, Task, Steps, Kinds, MaybeConf, KnowsConf

(* The first request of a queue, and the rest of them. *)
LEMMA FirstOf ==
    ASSUME NEW q \in Seq(Request), q # <<>>
    PROVE  /\ 1 \in DOMAIN q /\ Head(q) = q[1] /\ q[1] \in Request
           /\ Tail(q) \in Seq(Request)
           /\ \A i \in DOMAIN Tail(q) : i + 1 \in DOMAIN q /\ Tail(q)[i] = q[i + 1]
           /\ \A i \in DOMAIN q : i # 1 => i - 1 \in DOMAIN Tail(q)
<1>1. Len(q) \in Nat \ {0} /\ DOMAIN q = 1..Len(q)
  BY EmptySeq, LenProperties
<1>2. /\ Head(q) \in Request /\ Tail(q) \in Seq(Request) /\ Len(Tail(q)) = Len(q) - 1
      /\ \A i \in 1..Len(Tail(q)) : Tail(q)[i] = q[i + 1]
  BY HeadTailProperties
<1>3. DOMAIN Tail(q) = 1..(Len(q) - 1)
  BY <1>2, LenProperties
<1>4. Head(q) = q[1]
  OBVIOUS
<1>5. 1 \in DOMAIN q /\ q[1] \in Request
  BY <1>1, <1>2, <1>4
<1>6. \A i \in DOMAIN Tail(q) : i + 1 \in DOMAIN q
  BY <1>1, <1>3
<1>7. \A i \in DOMAIN q : i # 1 => i - 1 \in DOMAIN Tail(q)
  BY <1>1, <1>3
<1> QED
  BY <1>2, <1>3, <1>4, <1>5, <1>6, <1>7

(* A queue with one request more. *)
LEMMA OneMore ==
    ASSUME NEW q \in Seq(Request), NEW r \in Request
    PROVE  /\ Append(q, r) \in Seq(Request) /\ Append(q, r) # <<>>
           /\ Len(q) + 1 \in DOMAIN Append(q, r) /\ Append(q, r)[Len(q) + 1] = r
           /\ Len(q) + 1 \notin DOMAIN q
           /\ \A i \in DOMAIN q : i \in DOMAIN Append(q, r) /\ Append(q, r)[i] = q[i]
           /\ \A i \in DOMAIN Append(q, r) : i # Len(q) + 1 => i \in DOMAIN q
           /\ q # <<>> => Head(Append(q, r)) = Head(q)
<1>1. Len(q) \in Nat /\ DOMAIN q = 1..Len(q)
  BY LenProperties
<1>2. /\ Append(q, r) \in Seq(Request) /\ Append(q, r) # <<>>
      /\ Len(Append(q, r)) = Len(q) + 1 /\ Append(q, r)[Len(q) + 1] = r
      /\ \A i \in 1..Len(q) : Append(q, r)[i] = q[i]
  BY AppendProperties
<1>3. DOMAIN Append(q, r) = 1..(Len(q) + 1)
  BY <1>2, LenProperties
<1>4. q # <<>> => Head(Append(q, r)) = Head(q)
  <2> SUFFICES ASSUME q # <<>> PROVE Head(Append(q, r)) = Head(q)
    OBVIOUS
  <2>1. 1 \in 1..Len(q)
    BY <1>1, EmptySeq
  <2> QED
    BY <1>2, <2>1, FirstOf
<1> QED
  BY <1>1, <1>2, <1>3, <1>4

-----------------------------------------------------------------------------
(* What a step does to tasks and queue. *)

(* A task that does not wait goes on by itself. *)
LEMMA TaskGoesOn ==
    ASSUME RequestsOK, NEW t \in Tasks, NEW new \in Task, KnowsConf(new),
           task[t].step # "wait", new.step # "wait",
           task' = [task EXCEPT ![t] = new], UNCHANGED queueVars
    PROVE  RequestsOK'
<1>1. queue' = queue /\ started' = started
  BY DEF queueVars
<1>2. task' \in [Tasks -> Task] /\ task'[t] = new /\ \A u \in Tasks : u # t => task'[u] = task[u]
  BY DEF RequestsOK
<1>3. \A i \in DOMAIN queue : queue[i].task # None => queue[i].task # t /\ queue[i].task \in Tasks
  <2> SUFFICES ASSUME NEW i \in DOMAIN queue, queue[i].task # None
               PROVE  queue[i].task # t /\ queue[i].task \in Tasks
    OBVIOUS
  <2>1. queue[i] \in Request
    BY ElementOfSeq, LenProperties DEF RequestsOK
  <2> QED
    BY <2>1 DEF RequestsOK, AnswersMatch, Request
<1>4. AnswersMatch'
  BY <1>1, <1>2, <1>3 DEF RequestsOK, AnswersMatch
<1>5. \A u \in Tasks : KnowsConf(task'[u])
  BY <1>2 DEF RequestsOK
<1> QED
  BY <1>1, <1>2, <1>4, <1>5 DEF RequestsOK

(* A task sends its request, and waits. *)
LEMMA TaskSends ==
    ASSUME RequestsOK, ConfigAssumption, NEW t \in Tasks, Send(t)
    PROVE  /\ RequestsOK'
           /\ queue' # <<>> /\ (queue # <<>> => Head(queue') = Head(queue))
<1> DEFINE r == [task |-> t, kind |-> task[t].kind, conf |-> task[t].conf, hosts |-> task[t].hosts]
           new == [task[t] EXCEPT !.step = "wait"]
           n == Len(queue) + 1
<1>1. /\ queue' = Append(queue, r) /\ started' = started
      /\ task' = [task EXCEPT ![t] = new] /\ task[t].step = "send"
  BY DEF Send, At
<1>2. task[t] \in Task /\ queue \in Seq(Request) /\ started \in BOOLEAN
  BY DEF RequestsOK
<1>3. r \in Request /\ new \in Task
  BY <1>2 DEF Task, Request, Steps
<1>4. task' \in [Tasks -> Task] /\ task'[t] = new /\ \A u \in Tasks : u # t => task'[u] = task[u]
  BY <1>1, <1>3 DEF RequestsOK
<1>5. /\ queue' \in Seq(Request) /\ queue' # <<>> /\ n \in DOMAIN queue' /\ queue'[n] = r
      /\ n \notin DOMAIN queue
      /\ \A i \in DOMAIN queue : i \in DOMAIN queue' /\ queue'[i] = queue[i]
      /\ \A i \in DOMAIN queue' : i # n => i \in DOMAIN queue
      /\ queue # <<>> => Head(queue') = Head(queue)
  BY <1>1, <1>2, <1>3, OneMore
<1>6. t # None
  BY DEF ConfigAssumption, Tasks
<1>7. KnowsConf(task[t]) /\ NamesConf(r.kind, r.conf) /\ KnowsConf(new)
  BY <1>1, <1>2 DEF RequestsOK, KnowsConf, NamesConf, Task
<1>8. new.step = "wait" /\ new.kind = r.kind /\ new.conf = r.conf /\ new.hosts = r.hosts /\ r.task = t
  BY <1>2 DEF Task
<1> HIDE DEF r, new, n
<1>9. \A i \in DOMAIN queue : queue[i].task # t
  BY <1>1, <1>6 DEF RequestsOK, AnswersMatch
<1>10. \A i \in DOMAIN queue : queue[i].task # None => queue[i].task \in Tasks
  <2> SUFFICES ASSUME NEW i \in DOMAIN queue, queue[i].task # None PROVE queue[i].task \in Tasks
    OBVIOUS
  <2>1. queue[i] \in Request
    BY <1>2, ElementOfSeq, LenProperties
  <2> QED
    BY <2>1 DEF Request
<1>11. \A u \in Tasks : task'[u].step = "wait" => \E i \in DOMAIN queue' : queue'[i].task = u
  <2> SUFFICES ASSUME NEW u \in Tasks, task'[u].step = "wait"
               PROVE  \E i \in DOMAIN queue' : queue'[i].task = u
    OBVIOUS
  <2>1. CASE u = t
    BY <1>5, <1>8, <2>1
  <2>2. CASE u # t
    BY <1>4, <1>5, <2>2 DEF RequestsOK, AnswersMatch
  <2> QED
    BY <2>1, <2>2
<1>12. ASSUME NEW i \in DOMAIN queue', queue'[i].task # None
       PROVE  /\ task'[queue'[i].task].step = "wait"
              /\ queue'[i].kind = task'[queue'[i].task].kind
              /\ queue'[i].conf = task'[queue'[i].task].conf
              /\ queue'[i].hosts = task'[queue'[i].task].hosts
              /\ \A j \in DOMAIN queue' : queue'[j].task = queue'[i].task => j = i
  <2>1. CASE i = n
    BY <1>4, <1>5, <1>8, <1>9, <2>1
  <2>2. CASE i # n
    <3>1. i \in DOMAIN queue /\ queue'[i] = queue[i] /\ queue[i].task # t /\ queue[i].task \in Tasks
      BY <1>5, <1>9, <1>10, <1>12, <2>2
    <3>2. task'[queue[i].task] = task[queue[i].task]
      BY <1>4, <3>1
    <3>3. \A j \in DOMAIN queue' : queue'[j].task = queue[i].task => j \in DOMAIN queue /\ queue'[j] = queue[j]
      BY <1>5, <1>8, <3>1
    <3> QED
      BY <1>12, <3>1, <3>2, <3>3 DEF RequestsOK, AnswersMatch
  <2> QED
    BY <2>1, <2>2
<1>13. AnswersMatch'
  BY <1>11, <1>12 DEF AnswersMatch
<1>14. \A i \in DOMAIN queue' : NamesConf(queue'[i].kind, queue'[i].conf)
  BY <1>5, <1>7 DEF RequestsOK
<1>15. \A u \in Tasks : KnowsConf(task'[u])
  BY <1>4, <1>7 DEF RequestsOK
<1> QED
  BY <1>1, <1>2, <1>4, <1>5, <1>13, <1>14, <1>15 DEF RequestsOK

(* A task gives up: its request stays in the queue, and is nobody's. *)
LEMMA TaskGivesUp ==
    ASSUME RequestsOK, ConfigAssumption, NEW t \in Tasks, TimeOut(t)
    PROVE  /\ RequestsOK'
           /\ queue' = <<>> <=> queue = <<>>
           /\ queue # <<>> => /\ Head(queue').kind = Head(queue).kind
                              /\ Head(queue').conf = Head(queue).conf
                              /\ Head(queue').hosts = Head(queue).hosts
<1> DEFINE new == [task[t] EXCEPT !.step = "failed"]
           Freed(r) == IF r.task = t THEN [r EXCEPT !.task = None] ELSE r
<1>1. /\ queue' = [i \in DOMAIN queue |-> Freed(queue[i])] /\ started' = started
      /\ task' = [task EXCEPT ![t] = new] /\ task[t].step = "wait"
  BY DEF TimeOut, At
<1>2. task[t] \in Task /\ queue \in Seq(Request) /\ started \in BOOLEAN /\ t # None
  BY DEF RequestsOK, ConfigAssumption, Tasks
<1>3. new \in Task /\ new.step = "failed" /\ new.kind = task[t].kind /\ new.conf = task[t].conf
      /\ new.job = task[t].job
  BY <1>2 DEF Task, Steps
<1>4. task' \in [Tasks -> Task] /\ task'[t] = new /\ \A u \in Tasks : u # t => task'[u] = task[u]
  BY <1>1, <1>3 DEF RequestsOK
<1>5. ASSUME NEW r \in Request
      PROVE  /\ Freed(r) \in Request /\ Freed(r).kind = r.kind /\ Freed(r).conf = r.conf
             /\ Freed(r).hosts = r.hosts
             /\ Freed(r).task = IF r.task = t THEN None ELSE r.task
  BY DEF Request
<1>6. Len(queue) \in Nat /\ DOMAIN queue = 1..Len(queue) /\ queue \in [1..Len(queue) -> Request]
  BY <1>2, LenProperties
<1>7. \A i \in DOMAIN queue : queue[i] \in Request
  BY <1>6
<1>8. DOMAIN queue' = DOMAIN queue /\ \A i \in DOMAIN queue : queue'[i] = Freed(queue[i])
  BY <1>1
<1>9. queue' \in [1..Len(queue) -> Request]
  BY <1>1, <1>5, <1>6, <1>7
<1>10. queue' \in Seq(Request)
  BY <1>6, <1>9, SeqDef
<1>11. \A i \in DOMAIN queue :
          /\ queue'[i].kind = queue[i].kind /\ queue'[i].conf = queue[i].conf
          /\ queue'[i].hosts = queue[i].hosts
          /\ queue'[i].task = IF queue[i].task = t THEN None ELSE queue[i].task
  BY <1>5, <1>7, <1>8
<1> HIDE DEF new, Freed
<1>12. \A i \in DOMAIN queue : queue[i].task # None => queue[i].task \in Tasks
  BY <1>7 DEF Request
<1>13. \A u \in Tasks : task'[u].step = "wait" => \E i \in DOMAIN queue' : queue'[i].task = u
  <2> SUFFICES ASSUME NEW u \in Tasks, task'[u].step = "wait"
               PROVE  \E i \in DOMAIN queue' : queue'[i].task = u
    OBVIOUS
  <2>1. u # t /\ task[u].step = "wait"
    BY <1>3, <1>4
  <2>2. PICK i \in DOMAIN queue : queue[i].task = u
    BY <2>1 DEF RequestsOK, AnswersMatch
  <2> QED
    BY <1>8, <1>11, <2>1, <2>2
<1>14. ASSUME NEW i \in DOMAIN queue', queue'[i].task # None
       PROVE  /\ task'[queue'[i].task].step = "wait"
              /\ queue'[i].kind = task'[queue'[i].task].kind
              /\ queue'[i].conf = task'[queue'[i].task].conf
              /\ queue'[i].hosts = task'[queue'[i].task].hosts
              /\ \A j \in DOMAIN queue' : queue'[j].task = queue'[i].task => j = i
  <2>1. i \in DOMAIN queue /\ queue[i].task # t /\ queue'[i].task = queue[i].task /\ queue[i].task \in Tasks
    BY <1>8, <1>11, <1>12, <1>14
  <2>2. task'[queue[i].task] = task[queue[i].task]
    BY <1>4, <2>1
  <2>3. \A j \in DOMAIN queue : queue'[j].task = queue[i].task => queue[j].task = queue[i].task
    BY <1>11, <1>14, <2>1
  <2>4. /\ task[queue[i].task].step = "wait"
        /\ queue[i].kind = task[queue[i].task].kind
        /\ queue[i].conf = task[queue[i].task].conf
        /\ queue[i].hosts = task[queue[i].task].hosts
        /\ \A j \in DOMAIN queue : queue[j].task = queue[i].task => j = i
    BY <1>14, <2>1 DEF RequestsOK, AnswersMatch
  <2>5. \A j \in DOMAIN queue' : queue'[j].task = queue'[i].task => j = i
    BY <1>8, <2>1, <2>3, <2>4
  <2> QED
    BY <1>11, <2>1, <2>2, <2>4, <2>5
<1>15. AnswersMatch'
  BY <1>13, <1>14 DEF AnswersMatch
<1>16. \A i \in DOMAIN queue' : NamesConf(queue'[i].kind, queue'[i].conf)
  BY <1>8, <1>11 DEF RequestsOK
<1>17. KnowsConf(new)
  BY <1>1, <1>3 DEF RequestsOK, KnowsConf
<1>18. \A u \in Tasks : KnowsConf(task'[u])
  BY <1>4, <1>17 DEF RequestsOK
<1>19. RequestsOK'
  BY <1>1, <1>2, <1>4, <1>10, <1>15, <1>16, <1>18 DEF RequestsOK
<1>20. queue' = <<>> <=> queue = <<>>
  <2>1. \A q \in Seq(Request) : q = <<>> <=> DOMAIN q = {}
    <3> SUFFICES ASSUME NEW q \in Seq(Request) PROVE q = <<>> <=> DOMAIN q = {}
      OBVIOUS
    <3>1. q # <<>> => 1 \in DOMAIN q
      BY FirstOf
    <3> QED
      BY <3>1
  <2> QED
    BY <1>2, <1>8, <1>10, <2>1
<1>21. queue # <<>> => /\ Head(queue').kind = Head(queue).kind
                       /\ Head(queue').conf = Head(queue).conf
                       /\ Head(queue').hosts = Head(queue).hosts
  <2> SUFFICES ASSUME queue # <<>>
               PROVE  /\ Head(queue').kind = Head(queue).kind
                      /\ Head(queue').conf = Head(queue).conf
                      /\ Head(queue').hosts = Head(queue).hosts
    OBVIOUS
  <2>1. 1 \in DOMAIN queue /\ Head(queue) = queue[1]
    BY <1>2, FirstOf
  <2>2. Head(queue') = queue'[1]
    BY <1>10, <1>20, FirstOf
  <2> QED
    BY <1>11, <2>1, <2>2
<1> QED
  BY <1>19, <1>20, <1>21

(* The agent answers its first request: the task that waits for it goes on. *)
LEMMA AgentAnswers ==
    ASSUME RequestsOK, ConfigAssumption, queue # <<>>, NEW step \in {"ok", "failed"}, Answer(step)
    PROVE  RequestsOK' /\ started' = FALSE
<1> DEFINE t == Head(queue).task
           new == [task[t] EXCEPT !.step = step, !.applied = (usable /\ told = task[t].conf)]
<1>1. /\ queue' = Tail(queue) /\ started' = FALSE
      /\ task' = IF t = None THEN task ELSE [task EXCEPT ![t] = new]
  BY DEF Answer
<1>2. task \in [Tasks -> Task] /\ queue \in Seq(Request)
  BY DEF RequestsOK
<1>3. /\ 1 \in DOMAIN queue /\ Head(queue) = queue[1] /\ queue[1] \in Request
      /\ queue' \in Seq(Request)
      /\ \A i \in DOMAIN queue' : i + 1 \in DOMAIN queue /\ queue'[i] = queue[i + 1]
      /\ \A i \in DOMAIN queue : i # 1 => i - 1 \in DOMAIN queue'
  BY <1>1, <1>2, FirstOf
<1>4. DOMAIN queue \subseteq Nat /\ DOMAIN queue' \subseteq Nat \ {0}
  BY <1>2, <1>3, LenProperties
<1>5. t # None => t \in Tasks
  BY <1>3 DEF Request
<1>6. ASSUME t # None
      PROVE  /\ new \in Task /\ new.step = step /\ new.kind = task[t].kind /\ new.conf = task[t].conf
             /\ new.job = task[t].job /\ task[t].step = "wait"
  <2>1. task[t] \in Task
    BY <1>2, <1>5, <1>6
  <2>2. (usable /\ told = task[t].conf) \in BOOLEAN
    OBVIOUS
  <2>3. task[t].step = "wait"
    BY <1>3, <1>6 DEF RequestsOK, AnswersMatch
  <2> QED
    BY <2>1, <2>2, <2>3 DEF Task, Steps
<1> HIDE DEF new
<1>7. /\ task' \in [Tasks -> Task] /\ \A u \in Tasks : u # t => task'[u] = task[u]
      /\ t # None => task'[t] = new
  BY <1>1, <1>2, <1>5, <1>6
<1>8. \A i \in DOMAIN queue' : i + 1 # 1
  BY <1>4
<1>9. \A i \in DOMAIN queue' : queue'[i].task # None => queue'[i].task \in Tasks /\ queue'[i].task # t
  <2> SUFFICES ASSUME NEW i \in DOMAIN queue', queue'[i].task # None
               PROVE  queue'[i].task \in Tasks /\ queue'[i].task # t
    OBVIOUS
  <2>1. queue'[i] \in Request
    BY <1>3, ElementOfSeq, LenProperties
  <2>2. i + 1 \in DOMAIN queue /\ queue'[i] = queue[i + 1] /\ i + 1 # 1
    BY <1>3, <1>8
  <2>3. queue[i + 1].task # queue[1].task
    BY <1>3, <2>2 DEF RequestsOK, AnswersMatch
  <2> QED
    BY <1>3, <2>1, <2>2, <2>3 DEF Request
<1>10. \A u \in Tasks : task'[u].step = "wait" => \E i \in DOMAIN queue' : queue'[i].task = u
  <2> SUFFICES ASSUME NEW u \in Tasks, task'[u].step = "wait"
               PROVE  \E i \in DOMAIN queue' : queue'[i].task = u
    OBVIOUS
  <2>1. u # None
    BY DEF ConfigAssumption, Tasks
  <2>2. u # t
    BY <1>6, <1>7, <2>1
  <2>3. PICK i \in DOMAIN queue : queue[i].task = u
    BY <1>7, <2>2 DEF RequestsOK, AnswersMatch
  <2>4. i # 1
    BY <1>3, <2>2, <2>3
  <2>5. i - 1 \in DOMAIN queue' /\ (i - 1) + 1 = i
    BY <1>3, <1>4, <2>4
  <2> QED
    BY <1>3, <2>3, <2>5
<1>11. ASSUME NEW i \in DOMAIN queue', queue'[i].task # None
       PROVE  /\ task'[queue'[i].task].step = "wait"
              /\ queue'[i].kind = task'[queue'[i].task].kind
              /\ queue'[i].conf = task'[queue'[i].task].conf
              /\ queue'[i].hosts = task'[queue'[i].task].hosts
              /\ \A j \in DOMAIN queue' : queue'[j].task = queue'[i].task => j = i
  <2>1. i + 1 \in DOMAIN queue /\ queue'[i] = queue[i + 1]
    BY <1>3
  <2>2. /\ task[queue'[i].task].step = "wait"
        /\ queue'[i].kind = task[queue'[i].task].kind
        /\ queue'[i].conf = task[queue'[i].task].conf
        /\ queue'[i].hosts = task[queue'[i].task].hosts
        /\ \A j \in DOMAIN queue : queue[j].task = queue'[i].task => j = i + 1
    BY <1>11, <2>1 DEF RequestsOK, AnswersMatch
  <2>3. task'[queue'[i].task] = task[queue'[i].task]
    BY <1>7, <1>9, <1>11
  <2>4. ASSUME NEW j \in DOMAIN queue', queue'[j].task = queue'[i].task PROVE j = i
    <3>1. j + 1 \in DOMAIN queue /\ queue'[j] = queue[j + 1]
      BY <1>3
    <3>2. j + 1 = i + 1
      BY <2>2, <2>4, <3>1
    <3>3. i \in Nat /\ j \in Nat
      BY <1>4
    <3> QED
      BY <3>2, <3>3
  <2> QED
    BY <2>2, <2>3, <2>4
<1>12. AnswersMatch'
  BY <1>10, <1>11 DEF AnswersMatch
<1>13. \A i \in DOMAIN queue' : NamesConf(queue'[i].kind, queue'[i].conf)
  BY <1>3 DEF RequestsOK
<1>14. \A u \in Tasks : KnowsConf(task'[u])
  <2> SUFFICES ASSUME NEW u \in Tasks PROVE KnowsConf(task'[u])
    OBVIOUS
  <2>1. CASE u = t
    <3>1. t # None
      BY <2>1 DEF ConfigAssumption, Tasks
    <3> QED
      BY <1>6, <1>7, <2>1, <3>1 DEF RequestsOK, KnowsConf
  <2>2. CASE u # t
    BY <1>7, <2>2 DEF RequestsOK
  <2> QED
    BY <2>1, <2>2
<1> QED
  BY <1>1, <1>3, <1>7, <1>12, <1>13, <1>14 DEF RequestsOK

-----------------------------------------------------------------------------
(* The steps. *)

AgentOK == AgentTypeOK /\ WorksOnFirst /\ UsableIsWhole

(* A task that does not wait takes a step of its own. *)
GoesOn(t) ==
    /\ \E new \in Task : /\ KnowsConf(new) /\ new.step # "wait" /\ task[t].step # "wait"
                         /\ task' = [task EXCEPT ![t] = new]
    /\ UNCHANGED queueVars

(* Every job begins with a task that is idle. *)
LEMMA JobBegins ==
    ASSUME RowsOK, RequestsOK, ConfigAssumption, AgentAssumption, NEW t \in Tasks,
           \/ Tick(t) \/ Delete(t)
           \/ \E c \in Confs : Save(t, c)
           \/ \E hosts \in SUBSET Hosts : ChangeNodes(t, hosts)
           \/ \E h \in Hosts : CheckNode(t, h)
    PROVE  RowsOK' /\ GoesOn(t) /\ UNCHANGED agentVars
<1>1. task[t] \in Task /\ (task[t].job = "idle" => task[t].step # "wait")
  BY DEF RequestsOK, KnowsConf
<1>2. ASSUME Edit PROVE edits' \in 0..MaxEdits
  BY <1>2 DEF Edit, RowsOK, ConfigAssumption
<1>3. CASE Tick(t)
  BY <1>1, <1>3, IdleIsTask DEF Tick, GoesOn, RowsOK, rowVars, Sync, Idle
<1>4. CASE Delete(t)
  <2> DEFINE new == [Idle EXCEPT !.job = "delete", !.step = "send", !.kind = "clear"]
  <2>1. new \in Task /\ KnowsConf(new) /\ new.step # "wait"
    BY DEF Idle, Task, Steps, Kinds, MaybeConf, KnowsConf, NamesConf
  <2>2. task[t].job = "idle" /\ task' = [task EXCEPT ![t] = new] /\ UNCHANGED <<agentVars, queueVars>>
    BY <1>4 DEF Delete
  <2>3. RowsOK'
    BY <1>2, <1>4 DEF Delete, RowsOK, MaybeConf
  <2> QED
    BY <1>1, <2>1, <2>2, <2>3 DEF GoesOn
<1>5. ASSUME NEW c \in Confs, Save(t, c) PROVE RowsOK' /\ GoesOn(t) /\ UNCHANGED agentVars
  <2> DEFINE new == [Idle EXCEPT !.job = "save", !.step = "send", !.kind = "apply", !.conf = c]
  <2>1. new \in Task /\ KnowsConf(new) /\ new.step # "wait"
    BY AgentAssumption DEF Idle, Task, Steps, Kinds, MaybeConf, KnowsConf, NamesConf, AgentAssumption
  <2>2. task[t].job = "idle" /\ task' = [task EXCEPT ![t] = new] /\ UNCHANGED <<agentVars, queueVars>>
    BY <1>5 DEF Save
  <2>3. RowsOK'
    BY <1>2, <1>5 DEF Save, RowsOK, MaybeConf
  <2> QED
    BY <1>1, <2>1, <2>2, <2>3 DEF GoesOn
<1>6. ASSUME NEW hosts \in SUBSET Hosts, ChangeNodes(t, hosts)
      PROVE  RowsOK' /\ GoesOn(t) /\ UNCHANGED agentVars
  <2>1. RowsOK'
    BY <1>2, <1>6 DEF ChangeNodes, RowsOK
  <2> QED
    BY <1>1, <1>6, <2>1, IdleIsTask DEF ChangeNodes, GoesOn, Sync, Idle
<1>7. ASSUME NEW h \in Hosts, CheckNode(t, h) PROVE RowsOK' /\ GoesOn(t) /\ UNCHANGED agentVars
  <2> DEFINE new == [Idle EXCEPT !.job = "check", !.hosts = {h}]
  <2>1. new \in Task /\ KnowsConf(new) /\ new.step # "wait"
    BY DEF Idle, Task, Steps, Kinds, MaybeConf, KnowsConf
  <2>2. task[t].job = "idle" /\ task' = [task EXCEPT ![t] = new] /\ UNCHANGED <<agentVars, queueVars>>
    BY <1>7 DEF CheckNode
  <2>3. RowsOK'
    BY <1>2, <1>7 DEF CheckNode, RowsOK, rowVars
  <2> QED
    BY <1>1, <2>1, <2>2, <2>3 DEF GoesOn
<1> QED
  BY <1>3, <1>4, <1>5, <1>6, <1>7

(* A task becomes another one, and whether it can be. *)
LEMMA BecomingGoesOn ==
    ASSUME NEW t \in Tasks, NEW new \in Task, KnowsConf(new), new.step # "wait",
           task[t].step # "wait", Becomes(t, new)
    PROVE  GoesOn(t) /\ UNCHANGED <<agentVars, preparing, edits, faults>>
BY DEF Becomes, GoesOn

(* The steps of a sync, of a save, of a deletion and of a check. *)
LEMMA JobGoesOn ==
    ASSUME RowsOK, RequestsOK, NEW t \in Tasks,
           \/ ReadRow(t) \/ StatusRead(t) \/ Applied(t) \/ ApplyFailed(t) \/ ClearRowError(t)
           \/ CheckStatus(t) \/ EndCheck(t) \/ ListNodes(t) \/ EndJob(t)
    PROVE  RowsOK' /\ GoesOn(t) /\ UNCHANGED agentVars
<1> DEFINE x == task[t]
           ok == GoesOn(t) /\ UNCHANGED <<agentVars, preparing, edits, faults>>
<1>1. x \in Task /\ KnowsConf(x)
  BY DEF RequestsOK
<1>2. Idle \in Task /\ Idle.step # "wait" /\ KnowsConf(Idle) /\ Sync \in Task /\ Sync.step # "wait" /\ KnowsConf(Sync)
  BY IdleIsTask DEF Sync, Idle
<1>3. ASSUME NEW kind \in {"clear", "tcp", "routes"}, x.job # "idle"
      PROVE  WillSend(t, kind) \in Task /\ WillSend(t, kind).step # "wait" /\ KnowsConf(WillSend(t, kind))
  BY <1>1, <1>3 DEF WillSend, Task, Steps, Kinds, KnowsConf, NamesConf
<1>4. ASSUME NEW kind \in {"status", "apply"}, x.job # "idle", x.conf # None
      PROVE  WillSend(t, kind) \in Task /\ WillSend(t, kind).step # "wait" /\ KnowsConf(WillSend(t, kind))
  BY <1>1, <1>4 DEF WillSend, Task, Steps, Kinds, KnowsConf, NamesConf
<1>5. ASSUME NEW step \in {"clearError", "list"}, x.job # "idle", x.step # "read",
             step = "clearError" => x.kind \in {"status", "apply"}
      PROVE  LET new == [x EXCEPT !.step = step]
             IN  new \in Task /\ new.step # "wait" /\ KnowsConf(new)
  BY <1>1, <1>5 DEF Task, Steps, KnowsConf, NamesConf
<1>6. CASE ReadRow(t)
  <2> DEFINE known == [x EXCEPT !.step = "send", !.conf = stored, !.error = rowError,
                                !.kind = IF x.job = "check" THEN "apply" ELSE "status"]
  <2>1. x.job # "idle" /\ x.step = "read" /\ UNCHANGED rowVars
    BY <1>6 DEF ReadRow, At
  <2>2. CASE stored # None
    <3>1. known \in Task /\ known.step # "wait" /\ KnowsConf(known)
      BY <1>1, <2>1, <2>2 DEF RowsOK, Task, Steps, Kinds, KnowsConf, NamesConf
    <3>2. Becomes(t, known)
      BY <1>6, <2>2 DEF ReadRow
    <3>3. ok
      <4> HIDE DEF known
      <4> QED BY <2>1, <3>1, <3>2, BecomingGoesOn
    <3> QED
      BY <2>1, <3>3 DEF RowsOK, rowVars
  <2>3. CASE stored = None
    <3>1. Becomes(t, Sync) \/ Becomes(t, WillSend(t, "clear"))
      BY <1>6, <2>3 DEF ReadRow
    <3>2. ok
      BY <1>2, <1>3, <2>1, <3>1, BecomingGoesOn
    <3> QED
      BY <2>1, <3>2 DEF RowsOK, rowVars
  <2> QED
    BY <2>2, <2>3
<1>7. CASE StatusRead(t)
  <2>1. x.job # "idle" /\ x.step \in {"ok", "failed"} /\ x.kind = "status" /\ UNCHANGED rowVars
    BY <1>7 DEF StatusRead, At
  <2>2. x.conf # None
    BY <1>1, <2>1 DEF KnowsConf, NamesConf
  <2>3. Becomes(t, [x EXCEPT !.step = "clearError"]) \/ Becomes(t, WillSend(t, "apply"))
    BY <1>7 DEF StatusRead
  <2>4. ok
    BY <1>4, <1>5, <2>1, <2>2, <2>3, BecomingGoesOn
  <2> QED
    BY <2>1, <2>4 DEF RowsOK, rowVars
<1>8. CASE Applied(t)
  <2>1. x.job # "idle" /\ x.step = "ok" /\ x.kind = "apply" /\ UNCHANGED rowVars
    BY <1>8 DEF Applied, At
  <2>2. Becomes(t, [x EXCEPT !.step = "clearError"]) \/ Becomes(t, Sync)
    BY <1>8 DEF Applied
  <2>3. ok
    BY <1>2, <1>5, <2>1, <2>2, BecomingGoesOn
  <2> QED
    BY <2>1, <2>3 DEF RowsOK, rowVars
<1>9. CASE ApplyFailed(t)
  <2>1. x.job # "idle" /\ x.step = "failed" /\ UNCHANGED <<stored, nodes>>
    BY <1>9 DEF ApplyFailed, At
  <2>2. (rowError' = (stored # None) \/ rowError' = rowError) /\ (Becomes(t, Idle) \/ Becomes(t, Sync))
    BY <1>9 DEF ApplyFailed
  <2>3. ok
    BY <1>2, <2>1, <2>2, BecomingGoesOn
  <2>4. rowError' \in BOOLEAN /\ (rowError' => stored # None)
    <3>1. CASE rowError' = (stored # None)
      BY <3>1
    <3>2. CASE rowError' = rowError
      BY <3>2 DEF RowsOK
    <3> QED
      BY <2>2, <3>1, <3>2
  <2> QED
    BY <2>1, <2>3, <2>4 DEF RowsOK
<1>10. CASE ClearRowError(t)
  <2>1. x.job # "idle" /\ x.step = "clearError" /\ UNCHANGED <<stored, nodes>>
    BY <1>10 DEF ClearRowError, At
  <2>2. \/ Becomes(t, Sync) \/ Becomes(t, Idle)
        \/ x.job = "check" /\ Becomes(t, WillSend(t, "status"))
        \/ Becomes(t, [x EXCEPT !.step = "list"])
    BY <1>10 DEF ClearRowError
  <2>3. rowError' = (rowError /\ ~x.error)
    BY <1>10 DEF ClearRowError
  <2>4. rowError' \in BOOLEAN /\ (rowError' => stored # None)
    <3>1. rowError' \in BOOLEAN
      BY <2>3
    <3>2. rowError' => rowError
      BY <2>3
    <3> QED
      BY <3>1, <3>2 DEF RowsOK
  <2>5. ok
    <3>1. x.conf # None
      BY <1>1, <2>1 DEF KnowsConf, NamesConf
    <3> QED
      BY <1>2, <1>4, <1>5, <2>1, <2>2, <3>1, BecomingGoesOn
  <2> QED
    BY <2>1, <2>4, <2>5 DEF RowsOK
<1>11. CASE CheckStatus(t)
  <2>1. x.job # "idle" /\ x.step \in {"ok", "failed"} /\ UNCHANGED rowVars
    BY <1>11 DEF CheckStatus, At
  <2>2. Becomes(t, WillSend(t, "tcp")) \/ Becomes(t, Sync)
    BY <1>11 DEF CheckStatus
  <2>3. ok
    BY <1>2, <1>3, <2>1, <2>2, BecomingGoesOn
  <2> QED
    BY <2>1, <2>3 DEF RowsOK, rowVars
<1>12. CASE EndCheck(t)
  <2>1. x.job # "idle" /\ x.step \in {"ok", "failed"} /\ UNCHANGED <<stored, rowError>>
    BY <1>12 DEF EndCheck, At
  <2>2. nodes' \subseteq Hosts
    BY <1>1, <1>12 DEF EndCheck, RowsOK, Task
  <2>3. ok
    BY <1>2, <1>12, <2>1, BecomingGoesOn DEF EndCheck
  <2> QED
    BY <2>1, <2>2, <2>3 DEF RowsOK
<1>13. CASE ListNodes(t)
  <2> DEFINE new == [WillSend(t, "routes") EXCEPT !.hosts = nodes]
  <2>1. x.job # "idle" /\ x.step = "list" /\ UNCHANGED rowVars /\ Becomes(t, new)
    BY <1>13 DEF ListNodes, At
  <2>2. new \in Task /\ new.step # "wait" /\ KnowsConf(new)
    BY <1>1, <2>1 DEF RowsOK, WillSend, Task, Steps, Kinds, KnowsConf, NamesConf
  <2>3. ok
    <3> HIDE DEF new
    <3> QED BY <2>1, <2>2, BecomingGoesOn
  <2> QED
    BY <2>1, <2>3 DEF RowsOK, rowVars
<1>14. CASE EndJob(t)
  <2>1. x.job # "idle" /\ x.step \in {"ok", "failed"} /\ UNCHANGED rowVars /\ Becomes(t, Idle)
    BY <1>14 DEF EndJob, At
  <2>2. ok
    BY <1>2, <2>1, BecomingGoesOn
  <2> QED
    BY <2>1, <2>2 DEF RowsOK, rowVars
<1> QED
  BY <1>6, <1>7, <1>8, <1>9, <1>10, <1>11, <1>12, <1>13, <1>14

(* The agent keeps what it knows while it takes no step and its first request stays. *)
LEMMA AgentRests ==
    ASSUME AgentOK, UNCHANGED <<agentVars, started>>,
           queue # <<>> => /\ queue' # <<>>
                           /\ Head(queue').kind = Head(queue).kind
                           /\ Head(queue').conf = Head(queue).conf
                           /\ Head(queue').hosts = Head(queue).hosts
    PROVE  AgentOK'
BY DEF AgentOK, AgentTypeOK, WorksOnFirst, UsableIsWhole, agentVars

(* Requests stay as they are where no task and no request takes part. *)
LEMMA RequestsRest ==
    ASSUME RequestsOK, UNCHANGED <<task, queue, started>>
    PROVE  RequestsOK'
BY DEF RequestsOK, AnswersMatch

(* The agent begins to work on its first request. *)
LEMMA RequestsStart ==
    ASSUME RequestsOK, Start
    PROVE  RequestsOK'
BY DEF RequestsOK, AnswersMatch, Start

(* One step of the agent, which takes the steps it promises. *)
LEMMA AgentWorks ==
    ASSUME RowsOK, RequestsOK, AgentOK, ConfigAssumption, AgentAssumption, AgentStep
    PROVE  /\ RowsOK' /\ RequestsOK' /\ AgentOK'
           /\ AgentNext \/ UNCHANGED agentVars
<1> DEFINE first == Head(queue)
<1>1. queue # <<>> /\ queue \in Seq(Request)
  BY DEF AgentStep, Serving, ServeStatus, StartApply, FinishApply, BreakApply, ServeClear, StartRoutes,
         FinishRoutes, ServeTcp, RequestsOK
<1>2. first \in Request /\ NamesConf(first.kind, first.conf)
  BY <1>1, FirstOf DEF RequestsOK
<1>3. first.conf \in Confs \cup {None} /\ first.hosts \in SUBSET Hosts
  BY <1>2 DEF Request, MaybeConf
<1>4. ASSUME NEW step \in {"ok", "failed"}, Answer(step)
      PROVE  RequestsOK' /\ started' = FALSE /\ UNCHANGED <<rowVars, preparing, edits>>
  BY <1>1, <1>4, AgentAnswers DEF Answer
<1>5. ASSUME faults' = faults \/ Fault, UNCHANGED <<rowVars, preparing, edits>> PROVE RowsOK'
  <2>1. faults' \in 0..MaxFaults
    BY <1>5 DEF Fault, RowsOK, ConfigAssumption
  <2> QED
    BY <1>5, <2>1 DEF RowsOK, rowVars
<1> HIDE DEF first
<1>6. CASE ServeStatus
  <2>1. ~started
    BY <1>6 DEF ServeStatus, Serving, AgentOK, WorksOnFirst
  <2>2. Answer("ok") /\ UNCHANGED <<agentVars, faults>>
    BY <1>6 DEF ServeStatus
  <2>3. AgentOK'
    BY <1>4, <2>1, <2>2 DEF AgentOK, AgentTypeOK, WorksOnFirst, UsableIsWhole, agentVars
  <2> QED
    BY <1>4, <1>5, <2>2, <2>3
<1>7. CASE StartApply
  <2>1. first.kind = "apply" /\ ~started
    BY <1>7 DEF StartApply, Serving, first
  <2>2. first.conf \in Confs
    BY <1>2, <1>3, <2>1 DEF NamesConf
  <2>3. CASE Answer("ok") /\ UNCHANGED <<agentVars, faults>>
    <3>1. AgentOK'
      BY <1>4, <2>1, <2>3 DEF AgentOK, AgentTypeOK, WorksOnFirst, UsableIsWhole, agentVars
    <3> QED
      BY <1>4, <1>5, <2>3, <3>1
  <2>4. CASE Begin(first.conf) /\ Start
    <3>1. /\ told' = first.conf /\ usable' = FALSE /\ routed' = {} /\ asked' = asked
          /\ started' = TRUE /\ queue' = queue /\ UNCHANGED <<rowVars, preparing, edits, faults>>
      BY <2>4 DEF Begin, Start
    <3>2. AgentOK'
      BY <1>1, <2>1, <2>2, <3>1 DEF AgentOK, AgentTypeOK, WorksOnFirst, UsableIsWhole, first
    <3>3. AgentNext
      BY <2>2, <2>4 DEF AgentNext
    <3> QED
      BY <1>5, <2>4, <3>1, <3>2, <3>3, RequestsStart
  <2> QED
    BY <1>7, <2>3, <2>4 DEF StartApply, first
<1>8. CASE FinishApply
  <2>1. told = first.conf /\ first.conf # None /\ asked = {} /\ told \in Confs \ Broken
    BY <1>2, <1>3, <1>8 DEF FinishApply, Serving, AgentOK, WorksOnFirst, NamesConf, first
  <2>2. ComeUp /\ Answer("ok") /\ faults' = faults
    BY <1>8 DEF FinishApply
  <2>3. AgentOK'
    BY <1>4, <2>1, <2>2 DEF ComeUp, AgentOK, AgentTypeOK, WorksOnFirst, UsableIsWhole
  <2> QED
    BY <1>4, <1>5, <2>2, <2>3 DEF AgentNext
<1>9. CASE BreakApply
  <2>1. asked = {}
    BY <1>9 DEF BreakApply, Serving, AgentOK, WorksOnFirst
  <2>2. GiveUp /\ (Answer("failed") \/ Answer("ok")) /\ (faults' = faults \/ Fault)
    BY <1>9 DEF BreakApply
  <2>3. RequestsOK' /\ started' = FALSE /\ UNCHANGED <<rowVars, preparing, edits>>
    BY <1>4, <2>2
  <2>4. AgentOK'
    BY <2>1, <2>2, <2>3 DEF GiveUp, AgentOK, AgentTypeOK, WorksOnFirst, UsableIsWhole
  <2> QED
    BY <1>5, <2>2, <2>3, <2>4 DEF AgentNext
<1>10. CASE ServeClear
  <2>1. ~started
    BY <1>10 DEF ServeClear, Serving, AgentOK, WorksOnFirst
  <2>2. Forget /\ Answer("ok") /\ faults' = faults
    BY <1>10 DEF ServeClear
  <2>3. AgentOK'
    BY <1>4, <2>1, <2>2, AgentAssumption DEF Forget, AgentOK, AgentTypeOK, WorksOnFirst, UsableIsWhole
  <2> QED
    BY <1>4, <1>5, <2>2, <2>3 DEF AgentNext
<1>11. CASE StartRoutes
  <2>1. first.kind = "routes" /\ ~started
    BY <1>11 DEF StartRoutes, Serving, first
  <2>2. CASE Ask(first.hosts) /\ Start
    <3>1. /\ usable /\ asked' = first.hosts /\ UNCHANGED <<told, usable, routed>>
          /\ started' = TRUE /\ queue' = queue /\ UNCHANGED <<rowVars, preparing, edits, faults>>
      BY <2>2 DEF Ask, Start
    <3>2. told # None
      BY <3>1, AgentAssumption DEF AgentOK, UsableIsWhole, AgentAssumption
    <3>3. AgentOK'
      BY <1>1, <1>3, <2>1, <3>1, <3>2 DEF AgentOK, AgentTypeOK, WorksOnFirst, UsableIsWhole, first
    <3>4. AgentNext
      BY <1>3, <2>2 DEF AgentNext
    <3> QED
      BY <1>5, <2>2, <3>1, <3>3, <3>4, RequestsStart
  <2>3. CASE Answer("failed") /\ UNCHANGED <<agentVars, faults>>
    <3>1. AgentOK'
      BY <1>4, <2>1, <2>3 DEF AgentOK, AgentTypeOK, WorksOnFirst, UsableIsWhole, agentVars
    <3> QED
      BY <1>4, <1>5, <2>3, <3>1
  <2> QED
    BY <1>11, <2>2, <2>3 DEF StartRoutes, first
<1>12. CASE FinishRoutes
  <2>1. told # None
    BY <1>12 DEF FinishRoutes, Serving, AgentOK, WorksOnFirst
  <2>2. Settle /\ Answer("ok") /\ faults' = faults
    BY <1>12 DEF FinishRoutes
  <2>3. AgentOK'
    BY <1>4, <2>1, <2>2 DEF Settle, AgentOK, AgentTypeOK, WorksOnFirst, UsableIsWhole
  <2> QED
    BY <1>4, <1>5, <2>2, <2>3 DEF AgentNext
<1>13. CASE ServeTcp
  <2>1. ~started
    BY <1>13 DEF ServeTcp, Serving, AgentOK, WorksOnFirst
  <2>2. ASSUME NEW h \in first.hosts, Route(h), Answer("ok") \/ Answer("failed")
        PROVE  AgentOK' /\ AgentNext
    <3>1. h \in Hosts
      BY <1>3
    <3>2. told # None
      BY <2>2, AgentAssumption DEF Route, AgentOK, UsableIsWhole, AgentAssumption
    <3> QED
      BY <1>4, <2>1, <2>2, <3>1, <3>2 DEF Route, AgentNext, AgentOK, AgentTypeOK, WorksOnFirst, UsableIsWhole
  <2>3. ASSUME Answer("failed"), UNCHANGED agentVars PROVE AgentOK'
    BY <1>4, <2>1, <2>3 DEF AgentOK, AgentTypeOK, WorksOnFirst, UsableIsWhole, agentVars
  <2>4. faults' = faults /\ (Answer("ok") \/ Answer("failed"))
    BY <1>13 DEF ServeTcp
  <2>5. AgentOK' /\ (AgentNext \/ UNCHANGED agentVars)
    BY <1>13, <2>2, <2>3 DEF ServeTcp, first
  <2> QED
    BY <1>4, <1>5, <2>4, <2>5
<1> QED
  BY <1>6, <1>7, <1>8, <1>9, <1>10, <1>11, <1>12, <1>13 DEF AgentStep

(* Nothing but the routes of a tunnel and its being usable changes beside a request. *)
LEMMA AgentBeside ==
    ASSUME AgentOK, UNCHANGED <<queue, started>>,
           \/ \E h \in Hosts : Route(h) /\ ~started
           \/ usable /\ GoDown
    PROVE  AgentOK' /\ AgentNext
<1>1. ASSUME NEW h \in Hosts, Route(h), ~started PROVE AgentOK' /\ AgentNext
  <2>1. AgentNext
    BY <1>1 DEF AgentNext
  <2> QED
    BY <2>1, <1>1, AgentAssumption DEF Route, AgentOK, AgentTypeOK, WorksOnFirst, UsableIsWhole, AgentAssumption
<1>2. CASE usable /\ GoDown
  BY <1>2 DEF GoDown, AgentNext, AgentOK, AgentTypeOK, WorksOnFirst, UsableIsWhole
<1> QED
  BY <1>1, <1>2

ConfigInv == RowsOK /\ RequestsOK /\ AgentOK

LEMMA InitConfigInv == ConfigInit => ConfigInv
<1> SUFFICES ASSUME ConfigInit PROVE ConfigInv
  OBVIOUS
<1>1. RowsOK
  <2>1. 0 \in 0..MaxEdits /\ 0 \in 0..MaxFaults
    BY ConfigAssumption DEF ConfigAssumption
  <2> QED
    BY <2>1 DEF ConfigInit, RowsOK, MaybeConf
<1>2. AgentOK
  BY DEF ConfigInit, AgentInit, AgentOK, AgentTypeOK, WorksOnFirst, UsableIsWhole
<1>3. task \in [Tasks -> Task] /\ \A t \in Tasks : task[t] = Idle /\ KnowsConf(task[t])
  BY IdleIsTask DEF ConfigInit
<1>4. queue = <<>> /\ queue \in Seq(Request) /\ DOMAIN queue = {} /\ started = FALSE
  BY EmptySeq DEF ConfigInit
<1>5. AnswersMatch
  BY <1>3, <1>4 DEF AnswersMatch, Idle
<1>6. RequestsOK
  BY <1>3, <1>4, <1>5 DEF RequestsOK
<1> QED
  BY <1>1, <1>2, <1>6 DEF ConfigInv

(* Every step keeps the invariant, and is a step of the agent or leaves it alone. *)
LEMMA StepConfigInv ==
    ConfigInv /\ [ConfigNext]_configVars => ConfigInv' /\ [AgentNext]_agentVars
<1> SUFFICES ASSUME ConfigInv, [ConfigNext]_configVars
             PROVE  ConfigInv' /\ (AgentNext \/ UNCHANGED agentVars)
  OBVIOUS
<1>0. RowsOK /\ RequestsOK /\ AgentOK /\ ConfigAssumption /\ AgentAssumption
  BY ConfigAssumption, AgentAssumption DEF ConfigInv
<1> USE <1>0
<1>1. ASSUME NEW t \in Tasks, RowsOK', GoesOn(t), UNCHANGED agentVars
      PROVE  ConfigInv' /\ UNCHANGED agentVars
  <2>1. PICK new \in Task : /\ KnowsConf(new) /\ new.step # "wait" /\ task[t].step # "wait"
                            /\ task' = [task EXCEPT ![t] = new]
    BY <1>1 DEF GoesOn
  <2>2. RequestsOK'
    BY <1>1, <2>1, TaskGoesOn DEF GoesOn
  <2>3. UNCHANGED <<agentVars, started, queue>>
    BY <1>1 DEF GoesOn, queueVars
  <2>4. AgentOK'
    BY <2>3, AgentRests
  <2> QED
    BY <1>1, <2>2, <2>4 DEF ConfigInv
<1>2. ASSUME Fault PROVE faults' \in 0..MaxFaults
  BY <1>2 DEF Fault, RowsOK, ConfigAssumption
<1>3. ASSUME NEW t \in Tasks,
             \/ Tick(t) \/ (t \in Requests /\ \/ \E c \in Confs : Save(t, c)
                                              \/ Delete(t)
                                              \/ \E hosts \in SUBSET Hosts : ChangeNodes(t, hosts)
                                              \/ \E h \in Hosts : CheckNode(t, h))
      PROVE  ConfigInv' /\ UNCHANGED agentVars
  <2>1. RowsOK' /\ GoesOn(t) /\ UNCHANGED agentVars
    BY <1>3, JobBegins
  <2> QED
    BY <1>1, <2>1
<1>4. ASSUME NEW t \in Tasks, TaskStep(t), ~Send(t) PROVE ConfigInv' /\ UNCHANGED agentVars
  <2>1. RowsOK' /\ GoesOn(t) /\ UNCHANGED agentVars
    BY <1>4, JobGoesOn DEF TaskStep
  <2> QED
    BY <1>1, <2>1
<1>5. ASSUME NEW t \in Tasks, Send(t) PROVE ConfigInv' /\ UNCHANGED agentVars
  <2>1. RequestsOK' /\ queue' # <<>> /\ (queue # <<>> => Head(queue') = Head(queue))
    BY <1>5, TaskSends
  <2>2. UNCHANGED <<agentVars, started, rowVars, preparing, edits, faults>>
    BY <1>5 DEF Send
  <2>3. AgentOK'
    BY <2>1, <2>2, AgentRests
  <2>4. RowsOK'
    BY <2>2 DEF RowsOK, rowVars
  <2> QED
    BY <2>1, <2>2, <2>3, <2>4 DEF ConfigInv
<1>6. ASSUME NEW t \in Tasks, Unreachable(t) PROVE ConfigInv' /\ UNCHANGED agentVars
  <2> DEFINE new == [task[t] EXCEPT !.step = "failed"]
  <2>1. /\ task[t].job # "idle" /\ task[t].step = "send" /\ Fault /\ task' = [task EXCEPT ![t] = new]
        /\ UNCHANGED <<agentVars, rowVars, preparing, queueVars, edits>>
    BY <1>6 DEF Unreachable, At
  <2>2. task[t] \in Task /\ KnowsConf(task[t])
    BY DEF RequestsOK
  <2>3. new \in Task /\ new.step # "wait" /\ KnowsConf(new)
    BY <2>1, <2>2 DEF Task, Steps, KnowsConf, NamesConf
  <2>4. RowsOK'
    BY <1>2, <2>1 DEF RowsOK, rowVars
  <2>5. GoesOn(t)
    <3> HIDE DEF new
    <3> QED BY <2>1, <2>3 DEF GoesOn
  <2> QED
    BY <1>1, <2>1, <2>4, <2>5
<1>7. ASSUME NEW t \in Tasks, TimeOut(t) PROVE ConfigInv' /\ UNCHANGED agentVars
  <2>1. /\ RequestsOK'
        /\ queue # <<>> => /\ queue' # <<>>
                           /\ Head(queue').kind = Head(queue).kind
                           /\ Head(queue').conf = Head(queue).conf
                           /\ Head(queue').hosts = Head(queue).hosts
    BY <1>7, TaskGivesUp
  <2>2. Fault /\ UNCHANGED <<agentVars, started, rowVars, preparing, edits>>
    BY <1>7 DEF TimeOut
  <2>3. AgentOK'
    BY <2>1, <2>2, AgentRests
  <2>4. RowsOK'
    BY <1>2, <2>2 DEF RowsOK, rowVars
  <2> QED
    BY <2>1, <2>2, <2>3, <2>4 DEF ConfigInv
<1>8. CASE AgentStep
  BY <1>8, AgentWorks DEF ConfigInv
<1>9. ASSUME NEW h \in Hosts, LoadPoll(h) PROVE ConfigInv' /\ UNCHANGED agentVars
  <2>1. UNCHANGED <<agentVars, rowVars, task, queue, started, edits, faults>> /\ preparing' \subseteq Hosts
    BY <1>9 DEF LoadPoll, queueVars, RowsOK
  <2>2. RowsOK'
    BY <2>1 DEF RowsOK, rowVars
  <2> QED
    BY <2>1, <2>2, AgentRests, RequestsRest DEF ConfigInv
<1>10. ASSUME NEW h \in Hosts, PreparePoll(h) PROVE ConfigInv' /\ (AgentNext \/ UNCHANGED agentVars)
  <2>1. /\ UNCHANGED <<rowVars, task, queue, started, edits, faults>> /\ preparing' \subseteq Hosts
        /\ ~started /\ (Route(h) \/ UNCHANGED agentVars)
    BY <1>10 DEF PreparePoll, queueVars, RowsOK
  <2>2. RowsOK'
    BY <2>1 DEF RowsOK, rowVars
  <2>3. AgentOK' /\ (AgentNext \/ UNCHANGED agentVars)
    BY <2>1, AgentRests, AgentBeside
  <2> QED
    BY <2>1, <2>2, <2>3, RequestsRest DEF ConfigInv
<1>11. CASE ChildEnds
  <2>1. /\ usable /\ GoDown /\ Fault
        /\ UNCHANGED <<rowVars, task, preparing, queue, started, edits>>
    BY <1>11 DEF ChildEnds, queueVars
  <2>2. RowsOK'
    BY <1>2, <2>1 DEF RowsOK, rowVars
  <2> QED
    BY <2>1, <2>2, AgentBeside, RequestsRest DEF ConfigInv
<1>12. CASE UNCHANGED configVars
  <2>1. UNCHANGED <<agentVars, rowVars, task, preparing, queue, started, edits, faults>>
    BY <1>12 DEF configVars, queueVars
  <2>2. RowsOK'
    BY <2>1 DEF RowsOK, rowVars
  <2> QED
    BY <2>1, <2>2, AgentRests, RequestsRest DEF ConfigInv
<1> QED
  BY <1>3, <1>4, <1>5, <1>6, <1>7, <1>8, <1>9, <1>10, <1>11, <1>12 DEF ConfigNext, Tasks

LEMMA ConfigInvHolds == ConfigSpec => []ConfigInv
BY InitConfigInv, StepConfigInv, PTL DEF ConfigSpec

(* The types of the row, of what runs, of the queue of requests and of the agent, for  *)
(* any number of tasks, requests under way, lost requests and changes of the row.      *)
THEOREM ConfigTypesHold == ConfigSpec => []ConfigTypeOK
<1>1. ConfigInv => ConfigTypeOK
  BY DEF ConfigInv, RowsOK, RequestsOK, AgentOK, ConfigTypeOK
<1> QED
  BY <1>1, ConfigInvHolds, PTL

(* agentFetch gives up after a time and the agent carries the request out all the same: *)
(* its answer then reaches nobody, and never the next request of the same task.         *)
THEOREM AnswersMatchHolds == ConfigSpec => []AnswersMatch
<1>1. ConfigInv => AnswersMatch
  BY DEF ConfigInv, RequestsOK
<1> QED
  BY <1>1, ConfigInvHolds, PTL

(* The tunnel is usable only with a configuration that can be applied, never a broken  *)
(* one, and without one no node has a route: whatever is saved or deleted meanwhile,   *)
(* with requests that are lost or late, applies that fail and children that end.       *)
THEOREM UsableIsWholeHolds == ConfigSpec => []UsableIsWhole
<1>1. ConfigInv => UsableIsWhole
  BY DEF ConfigInv, AgentOK
<1> QED
  BY <1>1, ConfigInvHolds, PTL

(* Whoever sends requests relies on no more of the agent than AwgAgent promises, which *)
(* is what AwgTunnel implements (TunnelIsAgent).                                       *)
THEOREM ClientsKeepToAgent == ConfigSpec => AgentSpec
<1>1. ConfigInit => AgentInit
  BY DEF ConfigInit
<1> QED
  BY <1>1, StepConfigInv, ConfigInvHolds, PTL DEF ConfigSpec, AgentSpec
=============================================================================
