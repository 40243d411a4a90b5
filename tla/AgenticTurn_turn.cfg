\* A question with or without a dashboard, three reports.
SPECIFICATION Spec
CONSTANTS
    r1 = r1  r2 = r2  r3 = r3
    c1 = c1  c2 = c2  c3 = c3  c4 = c4
    None = None
    Reports = {r1, r2, r3}
    Columns = {c1, c2, c3, c4}
    Of <- MCOf
    Alike <- MCAlike
    Monthly = {r1, r2}
    WithTotal = {r2}
    FunnelReport = r2
    MaxWidgets = 2
    StackDepth = 3
INVARIANTS OneOutcome AskBudget ReportFitsQuestion ProposalFits
PROPERTY TurnEnds
