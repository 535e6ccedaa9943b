SPECIFICATION FairSpec
CONSTANTS
    w1 = w1  w2 = w2  w3 = w3  c1 = c1  c2 = c2  s1 = s1  p1 = p1  hostA = hostA 
    Writers = {w1, w2}
    Commits = {c1, c2}
    Sigs = {s1}
    Parked = {p1}
    HomeOf <- AllHome
    HostOf <- OneHost
    JobsOf <- MixedJobs
    MaxRecords = 2
    ClaimsAge = TRUE
    FsFails = TRUE
    ReadsFail = FALSE
    MaxForeign = 1
    MaxCrashes = 1
INVARIANTS TypeOK NoLostRecord RetentionCovers RefsMoveWithRecords ExclusiveUntilAbandoned
PROPERTIES ImplementsStore DeadClaimCleared
CHECK_DEADLOCK FALSE
