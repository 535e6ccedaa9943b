SPECIFICATION Spec
CONSTANTS
    w1 = w1  w2 = w2  w3 = w3  c1 = c1  c2 = c2  s1 = s1  p1 = p1  hostA = hostA 
    Writers = {w1, w2, w3}
    Commits = {c1, c2}
    Sigs = {}
    Parked = {p1}
    HomeOf <- AllHome
    HostOf <- OneHost
    JobsOf <- BackfillJobs
    MaxRecords = 2
    ClaimsAge = FALSE
    FsFails = FALSE
    ReadsFail = FALSE
    MaxForeign = 0
    MaxCrashes = 0
PROPERTIES BackfillComplete
CHECK_DEADLOCK FALSE
