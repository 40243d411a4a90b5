\* Two colleagues deploy, pin, withdraw, edit and delete pages on two shared tabs.
CONSTANTS
    hq = hq
    d1 = d1
    dana = dana
    eli = eli
    n1 = n1
    o1 = o1
    o2 = o2
    p1 = p1
    p2 = p2
    t1 = t1
    t2 = t2
    a = a
    b = b
    c1 = c1
    None = None
    Users <- Colleagues
    Scopes = {hq, d1}
    HQ = hq
    ScopeOf <- InD1
    Names = {n1}
    Objects = {o1, o2}
    Contents = {c1}
    PageIds = {p1, p2}
    Sessions = {t1, t2}
    UserOf <- OneTabEach
    ClientIds <- OwnObject
    TemplateNames = {n1}
    MaxSavedPages = 2
    MaxVersion = 2
    Tabs = {a, b}
    RoleOf <- AllUsers
    MaxReleases = 3
SPECIFICATION DSpec
SYMMETRY Renamings
INVARIANTS DeploymentIsRestorable FlaggedPageIsShown
PROPERTIES PublicViewIsStable RollbackTakesEffect
