SPECIFICATION LifeSpec
CONSTANTS
    s1 = s1 h1 = h1 h2 = h2 n1 = n1 n2 = n2 p1 = p1 w1 = w1 w2 = w2
    Submission = {s1}
    Handler = {h1, h2}
    Name = {n1, n2}
    Problem = {p1}
    NoJudge = NoJudge NoSub = NoSub NoNode = NoNode AnyJudge = AnyJudge NoTodo = NoTodo
    NameOf <- MCNameOf
    ProblemOf <- MCProblemOf
    ProblemLists <- MCProblemLists
    Requests <- MCRequests
    Script <- MCScript
    Verdicts <- MCVerdicts
    Priorities = 4
    SendErrors = FALSE DbErrors = FALSE Vanishing = FALSE Reloads = FALSE
    Forces = {}
    Web = {w1, w2}
    MaxRequests = 2
    MaxPackets = 1
    LostReplies = FALSE
    RejudgeQueued = TRUE
    Restarts = FALSE
INVARIANT VerdictComplete
CHECK_DEADLOCK FALSE
