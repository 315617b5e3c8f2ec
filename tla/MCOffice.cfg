SPECIFICATION Spec
CONSTANTS
    t1 = t1
    t2 = t2
    e1 = e1
    l1 = l1
    a = a
    b = b
    TaskIds = {t1, t2}
    Events = {e1}
    Leads = {l1}
    Templates = {a, b}
    Workers = {w1, w2}
    MaxTaskRequests = 3
    MaxSteps = 3
    Nil = Nil
    ev = ev
    ld = ld
    p = p
    q = q
    SharedEvents = {ev}
    SharedLeads = {ld}
    People = {p, q}
    Editors = {u1, u2}
    LastStage = 3
    MaxEdits = 3
    Void = Void
    f1 = f1
    f2 = f2
    FunnelIds = {f1, f2}
    LeadIds = {l1, l2}
    Agents = {u1, u2}
    MaxGroups = 3
    MaxFunnelRequests = 3
    Nobody = Nobody
    r1 = r1
    j1 = j1
    g1 = g1
    g2 = g2
    g3 = g3
    s1 = s1
    s2 = s2
    Rules = {r1}
    JobIds = {j1, j2, j3, j4}
    Folders = {g1, g2, g3}
    Statuses = {s1, s2}
    Clerks = {u1, u2}
    Horizon = 1
    LastDay = 1
    MaxBoardRequests = 2
    Cleared = Cleared
    Deleters = {w1, w2}
    Authors = {u1, u2}
    LastGeneration = 1
    MaxReferenceRequests = 4
    Missing = Missing
    mia = mia
    sam = sam
    tom = tom
    i1 = i1
    d1 = d1
    d2 = d2
    x1 = x1
    x2 = x2
    Colleagues = {mia, sam, tom}
    Papers = {i1}
    Visitors = {w1, w2}
    Departments = {d1, d2}
    Teams = {g1}
    Duties = {x1, x2}
    MaxVisits = 2
    Unknown = Unknown
INVARIANTS
    TasksStayConsistent
    EditsAreExplained
    
    
    ReferencesResolve
    AccessIsConsistent
SYMMETRY Symmetry
CHECK_DEADLOCK FALSE
