\* Two tabs of one user saving, reloading and deleting one page.
CONSTANTS
    hq = hq
    d1 = d1
    hana = hana
    dana = dana
    n1 = n1
    n2 = n2
    o1 = o1
    o2 = o2
    o3 = o3
    p1 = p1
    p2 = p2
    p3 = p3
    t1 = t1
    t2 = t2
    c1 = c1
    c2 = c2
    None = None
    Users <- OneUser
    Scopes = {hq, d1}
    HQ = hq
    ScopeOf <- OneScopeOf
    Names = {n1, n2}
    Objects = {o1, o2}
    Contents = {c1, c2}
    PageIds = {p1, p2, p3}
    Sessions = {t1, t2}
    UserOf <- OneUserOf
    ClientIds <- OwnIds
    TemplateNames = {n1, n2}
    MaxSavedPages = 2
    MaxVersion = 3
SPECIFICATION Spec
SYMMETRY Symmetric
INVARIANTS TypeOK WorkingSetMatchesManifest OnePagePerKey
PROPERTIES NoLostUpdate SavedDraftIsStored
