\* One check slot on each of two workers; a query may outlive its lock.
SPECIFICATION FreshSpec
CONSTANTS
    w1 = w1  w2 = w2  r1 = r1  r2 = r2  r3 = r3
    Redis = Redis  None = None
    Workers = {w1, w2}
    Checks = {r1, r3}
    WorkerOf <- Apart
    Stamps = {1, 2, 3, 4, 5, 6}
    Cooldown = 1
    EntryTtl = 2
    LockTtl = 1
    MaxQuery = 1
INVARIANTS OneCheckPerLock ForcedCheckIsNew
PROPERTY EveryCheckEnds
