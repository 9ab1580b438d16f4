CONSTANTS
    p1 = p1  p2 = p2
    Peers = {p1, p2}
    Holds <- MCHolds
    NumberPieces = 2  NumberBlocks = 2  FinalBlocks = 2
    MaxRequests = 2  MaxPeers = 2  ThresholdEnd = 2
    Magnet = {p1, p2}
    MaxBad = 1  MaxChokes = 2  MaxCloses = 1
    d1 = d1  d2 = d2  h1 = h1  None = None
    Domains = {d1, d2}  Hosts = {h1}
    Tos <- MCTos
    Jobs <- MCJobs
    Race = FALSE
    a1 = a1  a2 = a2  a3 = a3
    Addresses = {a1, a2, a3}  Locals = {a1, a2}
    MaxText = 1  MaxMessages = 2  MaxUpgrades = 1
    Encodings = {"plain", "chunked", "gzip"}
    HttpRequests <- MCHttpRequests
    HttpResponses <- MCHttpResponses
    MaxAsked = 2
    Crossed = FALSE
SPECIFICATION Spec
INVARIANTS TorrentSafety MailSafety WsgiSafety
PROPERTIES EventuallyComplete EventuallyCalled EveryAnswer
CHECK_DEADLOCK FALSE
