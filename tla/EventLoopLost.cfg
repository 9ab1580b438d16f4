CONSTANTS
    r1 = r1  r2 = r2  flush = flush  task = task  ev = ev
    Requests = {r1, r2}
    Callables = {flush, task}
    Verified = {flush}
    Events = {}
    Delays <- LoopDelays
    Recycled = {}
    LidModulus = 2
    Foreign = TRUE
    Stopping = FALSE
    MaxTime = 3
    MaxNotified = 0
    k1 = k1  k2 = k2
    Sessions = {1}  Mails = {k1, k2}  MaxLines = 0
    Chunks <- MCChunks
    Addresses = {"first", "second"}
    Files = {1, 3}  MaxBlock = 2  MaxFaults = 0
    Payloads = {0, 2}  MaxMessages = 0
    FileRequests <- MCFileRequests  MaxPiped = 0  BufferSize = 2
    Macs = {"m"}  Pool = {1}  Lease = 2  MaxClock = 1  MaxSaid = 0
SPECIFICATION MCSpec
INVARIANTS NoLostRequest
