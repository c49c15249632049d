SPECIFICATION LiveSpec
CONSTANTS
    s1 = s1 s2 = s2 h1 = h1 h2 = h2 h3 = h3 n1 = n1 n2 = n2 p1 = p1 p2 = p2
    Submission = {s1, s2}
    Handler = {h1, h2}
    Name = {n1, n2}
    Problem = {p1, p2}
    NoJudge = NoJudge NoSub = NoSub NoNode = NoNode AnyJudge = AnyJudge
    NameOf <- MCNameOf
    ProblemOf <- MCProblemOf
    ProblemLists <- MCProblemLists
    Requests <- MCRequests
    Script <- MCScript
    Verdicts <- MCVerdicts
    Priorities = 4
    MaxRequests = 2
    MaxPackets = 1
    SendErrors = FALSE
    DbErrors = FALSE
    Vanishing = FALSE
    Reloads = FALSE
    Forces = {FALSE}
PROPERTIES Settled LostWorkReturns ImplementsDispatcher
CHECK_DEADLOCK FALSE
