CONSTANTS
    Hosts = {h}
    Confs = {good, bad}
    Broken = {bad}
    None = None
    Ticks = {tick}
    Requests = {request}
    MaxEdits = 3
    MaxFaults = 1
SPECIFICATION FairConfigSpec
INVARIANT ConfigTypeOK
PROPERTIES AgentFollowsRow RoutesFollowNodes
