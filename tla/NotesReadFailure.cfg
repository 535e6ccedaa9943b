SPECIFICATION Spec
CONSTANTS
    w1 = w1  w2 = w2  w3 = w3  c1 = c1  c2 = c2  s1 = s1  p1 = p1  hostA = hostA 
    Writers = {w1, w2}
    Commits = {c1}
    Sigs = {}
    Parked = {}
    HomeOf <- AllHome
    HostOf <- OneHost
    JobsOf <- AppendJobs
    MaxRecords = 2
    ClaimsAge = FALSE
    FsFails = FALSE
    ReadsFail = TRUE
    MaxForeign = 0
    MaxCrashes = 0
INVARIANTS NoLostRecord
CHECK_DEADLOCK FALSE
