CONSTANTS
    m1 = m1  m2 = m2  m3 = m3  m4 = m4
    r1 = r1  r2 = r2  again = again  task = task
    Messages = {m1, m2, m3}
    Silent = {}
    High = 1
    Low = 0
    Kinds = {"raw"}
    Early = {}
    Chunk = 1
    Ways = {"upgrade"}
    Edge = TRUE
    Size <- MCSize
    Setups <- MCSetups
    Least = 5
    Requests = {r1, r2}
    Callables = {again, task}
    Verified = {again}
    Events = {}
    Delays <- MCDelays
    Recycled = {0}
    LidModulus = 2
    Foreign = FALSE
    Stopping = FALSE
    MaxTime = 3
    MaxNotified = 0
SPECIFICATION TunnelFairSpec
PROPERTIES DownResumes
CHECK_DEADLOCK FALSE
