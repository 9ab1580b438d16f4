CONSTANTS
    p1 = p1  p2 = p2
    Peers = {p1, p2}
    Holds <- MCHolds
    NumberPieces = 2  NumberBlocks = 2  FinalBlocks = 2
    MaxRequests = 2  MaxPeers = 0  ThresholdEnd = 2
    Magnet = {p1, p2}
    MaxBad = 0  MaxChokes = 0  MaxCloses = 0
    d1 = d1  d2 = d2  h1 = h1  None = None
    Domains = {d1, d2}  Hosts = {h1}
    Tos <- MCTos
    Jobs <- MCRaceJobs
    Race = TRUE
    a1 = a1  a2 = a2  a3 = a3
    Addresses = {a1, a2, a3}  Locals = {a1, a2}
    MaxText = 0  MaxMessages = 0  MaxUpgrades = 0
    Encodings = {"plain", "chunked", "gzip"}
    HttpRequests <- MCHttpRequests
    HttpResponses <- MCHttpResponses
    MaxAsked = 2
    Crossed = FALSE
SPECIFICATION Spec
PROPERTIES EventuallyCalled
CHECK_DEADLOCK FALSE
