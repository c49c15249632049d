SPECIFICATION ContestSpec
CONSTANTS
    u1 = u1 u2 = u2 r1 = r1 r2 = r2 s1 = s1 s2 = s2 s3 = s3
    User = {u1, u2}
    Request = {r1, r2}
    Submission = {s1, s2, s3}
    NoPart = NoPart NoSub = NoSub
    MaxSubmissions = 1
    PendingLimit = 1
    Windowed = TRUE
    MaxVirtual = 3
    Scenarios <- MCScenarios
SYMMETRY MCSymmetry
INVARIANTS ContestTypeOK VirtualIdsDense LimitsHold DisqualificationHolds ContestRowKept
CHECK_DEADLOCK FALSE
