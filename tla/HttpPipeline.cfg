CONSTANTS
    Hosts = {"a", "b"}
    MaxProtocols = 1  MaxCalls = 0
    AutoRelease = FALSE
    MaxFronts = 2  MaxUpstreams = 1  MaxRequests = 0
    Pipelining = FALSE
    Requests <- MCRequests  Responses <- MCResponses
    MaxSent = 2
    Crossing = TRUE
    Servers = {1}  Peers = {1}  Backlog = 1
    Processes = 1  MaxCommands = 0
    Catalogues <- MCCatalogues  HostsSet <- MCHostsSet
    HostSuffixes <- MCHostSuffixes  Answers <- MCAnswers
    MaxEvents = 0
SPECIFICATION Spec
INVARIANT Pipelined
CHECK_DEADLOCK FALSE
