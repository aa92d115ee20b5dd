\* Two replicas and one registration, with fairness.
CONSTANTS
    r1 = r1
    r2 = r2
    o1 = o1
    o2 = o2
    Replica = {r1, r2}
    OperationID = {o1}
    Stamped = {o1}
    None = None
    MaxFaults = 1
SPECIFICATION FairSpec
PROPERTIES FollowersConverge
CHECK_DEADLOCK FALSE
