CONSTANTS
    r1 = r1  r2 = r2  flush = flush  task = task  ev = ev
    Requests = {r1, r2}
    Callables = {flush, task}
    Verified = {flush}
    Events = {ev}
    Delays <- LoopDelays
    Recycled = {}
    LidModulus = 2
    Foreign = TRUE
    Stopping = TRUE
    MaxTime = 2
    MaxNotified = 1
    k1 = k1  k2 = k2
    Sessions = {1, 2}  Mails = {k1, k2}  MaxLines = 3
    Chunks <- MCChunks
    Addresses = {"first", "second"}
    Files = {1, 3}  MaxBlock = 2  MaxFaults = 2
    Payloads = {0, 2}  MaxMessages = 2
    FileRequests <- MCFileRequests  MaxPiped = 3  BufferSize = 2
    Macs = {"m", "n"}  Pool = {1, 2}  Lease = 2  MaxClock = 3  MaxSaid = 3
SPECIFICATION MCSpec
SYMMETRY MCSymmetry
INVARIANTS TypeOK LostOnlyInMerge TickDrains OneFlush
    PopSafety TftpSafety  ProtocolsSafety
PROPERTIES CalledInTurn FateIsFinal
