SPECIFICATION PageSpec
CONSTANTS
    c1 = c1 handler = handler other = other
    Client = {c1}
    Poster = {handler, other}
    Handler = handler Other = other
    Channel = {"sub", "submissions"}
    Type = {"internal-error", "grading-end", "compile-error", "test-case",
            "grading-begin", "processing", "aborted-submission"}
    Topic = "sub"
    Wanted <- MCWanted
    Scripts <- MCScripts
    OtherPosts <- MCOtherPosts
    Heard <- MCHeard
    MaxQueue = 2
    MaxExtra = 1
    MaxFaults = 1
INVARIANTS PageTypeOK NotSkipped ToldMeansShown
PROPERTIES Forward VerdictShown
CHECK_DEADLOCK FALSE
