\* Two requests for a stored widget while the ETL loads its source.
SPECIFICATION ReplaySpec
CONSTANTS
    monthly = monthly  target = target  yearly = yearly  average = average  other = other
    s1 = s1  r1 = r1  r2 = r2
    Absent = Absent  NoWatermark = NoWatermark  Failed = Failed
    Times = {1, 2, 3}
    Dealers = {1, 2}
    PeriodOf <- Calendar
    DimGrain = "day"
    Base <- Metrics
    Ratio <- Parts
    IfZero <- ZeroResults
    Grain <- Kept
    Additive <- Summed
    Questions <- Plain
    Sources = {s1}
    SourceOf <- FromTable
    Table <- Tables
    MaxLoads = 1
    MaxKept = 1
    Requests = {r1, r2}
INVARIANTS CurrentKeyIsCurrent PlainReplayIsTheAnswer CumulatedIsTheTotal
SYMMETRY Twins
