CONSTANTS
    m1 = m1  m2 = m2  m3 = m3  m4 = m4
    r1 = r1  r2 = r2  again = again  task = task
    Messages = {m1, m2, m3, m4}
    Silent = {m1, m4}
    High = 1
    Low = 0
    Kinds = {"raw", "http"}
    Early = {"http"}
    Chunk = 2
    Ways = {"connect", "upgrade"}
    Edge = FALSE
    Size <- MCSize
    Setups <- MCSetups
    Least = 5
    Requests = {r1, r2}
    Callables = {again, task}
    Verified = {again}
    Events = {}
    Delays <- MCDelays
    Recycled = {0}
    LidModulus = 2
    Foreign = FALSE
    Stopping = FALSE
    MaxTime = 3
    MaxNotified = 0
SPECIFICATION FlowFairSpec
INVARIANTS TunnelSafety ProtocolSafety StarterSafety
PROPERTIES DownResumes EventuallyEntered EventuallyThrough
    LoopGoes
CHECK_DEADLOCK FALSE
