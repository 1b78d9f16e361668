SPECIFICATION FairSpec
CONSTANTS
    i1 = i1
    p1 = p1
    p2 = p2
    s1 = s1
    s2 = s2
    e1 = e1
    e2 = e2
    e3 = e3
    web = web
    db = db
    Old = Old
    New = New
    NoLabel = NoLabel
    Absent = Absent
    IPs = {i1}
    Pods = {p1, p2}
    Services = {s1, s2}
    Slices = {e1, e2, e3}
    Name <- MCName
    MaxChanges = 3
    MaxClosings = 1
CHECK_DEADLOCK FALSE
INVARIANTS
    TypeOK
    PodNamesRight
    ServiceNamesRight
PROPERTIES
    EventuallyRight
    CloseEndsWatches
