\* A headquarters tab that publishes a template and a dealer tab that loads it.
CONSTANTS
    hq = hq
    d1 = d1
    hana = hana
    dana = dana
    n1 = n1
    n2 = n2
    o1 = o1
    o2 = o2
    o3 = o3
    p1 = p1
    p2 = p2
    p3 = p3
    t1 = t1
    t2 = t2
    c1 = c1
    c2 = c2
    None = None
    Users <- TwoUsers
    Scopes = {hq, d1}
    HQ = hq
    ScopeOf <- TwoScopeOf
    Names = {n1}
    Objects = {o1, o2}
    Contents = {c1, c2}
    PageIds = {p1, p2}
    Sessions = {t1, t2}
    UserOf <- TwoUserOf
    ClientIds <- TemplateIds
    TemplateNames = {n1}
    MaxSavedPages = 2
    MaxVersion = 2
SPECIFICATION Spec
SYMMETRY SymmetricData
INVARIANTS RestorableHistory VersionKeysUnique
PROPERTY KeepsHistory
