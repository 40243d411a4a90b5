\* Two workers, one permit in all, an unreliable Redis.
SPECIFICATION GateSpec
CONSTANTS
    w1 = w1  w2 = w2  c1 = c1  c2 = c2  c3 = c3
    Redis = Redis  None = None
    Workers = {w1, w2}
    Calls = {c1, c2, c3}
    WorkerOf <- Placement
    Cooldown = 1
    Limit = 1
    PermitTtl = 2
    QueueTimeout = 2
    MaxRun = 1
INVARIANTS LimitPerPlace GlobalLimit PermitsMatchCalls
PROPERTY EveryCallEnds
