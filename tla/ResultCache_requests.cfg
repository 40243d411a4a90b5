\* One slot on each of two workers, an unreliable Redis, loads that may fail.
SPECIFICATION CacheSpec
CONSTANTS
    w1 = w1  w2 = w2  r1 = r1  r2 = r2  r3 = r3
    Redis = Redis  None = None
    Workers = {w1, w2}
    Requests = {r1, r3}
    WorkerOf <- Apart
    Cooldown = 1
    SoftTtl = 1
    HardTtl = 2
    LockTtl = 2
    MaxLoad = 1
    Watched = {}
INVARIANTS OneLoadPerLock SingleFlight
PROPERTY EveryRequestEnds
