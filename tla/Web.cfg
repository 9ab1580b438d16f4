CONSTANTS
    Hosts = {"a", "b"}
    MaxProtocols = 2  MaxCalls = 3
    AutoRelease = FALSE
    MaxFronts = 2  MaxUpstreams = 4  MaxRequests = 3
    Pipelining = FALSE
    Requests <- MCRequests  Responses <- MCResponses
    MaxSent = 2
    Crossing = FALSE
    Servers = {1, 2}
    Peers = {1, 2}
    Backlog = 2
    Processes = 2
    MaxCommands = 2
    Catalogues <- MCCatalogues  HostsSet <- MCHostsSet
    HostSuffixes <- MCHostSuffixes  Answers <- MCAnswers
    MaxEvents = 3
SPECIFICATION Spec
INVARIANTS CutFree ClientSafety ProxySafety
    ListenerSafety PreforkSafety DiscoverySafety
PROPERTIES IterationsEnd EventuallyAnswered
CHECK_DEADLOCK FALSE
