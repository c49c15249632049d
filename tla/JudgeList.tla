------------------------------ MODULE JudgeList ------------------------------
(***************************************************************************)
(* The bridge's JudgeList (judge_list.py): the priority queue of waiting   *)
(* submissions, the two maps over submissions and the set of judges, with  *)
(* the fields of JudgeHandler its methods read and write.  Every method    *)
(* runs under one re-entrant lock, so each is an action operator that      *)
(* takes effect in a single step; the threads that call them are in        *)
(* JudgeBridge.                                                            *)
(***************************************************************************)
EXTENDS Integers, Sequences, FiniteSets, SequencesExt

CONSTANTS
    Submission,    \* submission ids
    Handler,       \* JudgeHandler objects: one for each connection a judge makes
    Name,          \* names of judges
    NameOf,        \* the name the handler's judge authenticates with
    Problem,       \* a problem together with a language an executor exists for
    ProblemOf,     \* the problem and language of a submission
    Priorities,    \* the number of priorities (4 in the code)
    NoJudge,       \* submission_map has no such key
    NoSub,         \* a judge is not working
    NoNode,        \* node_map has no such key
    AnyJudge,      \* the judge_id None
    SendErrors,    \* a send on a lost connection may raise
    DbErrors,      \* a database operation may raise
    Vanishing      \* the row of a submission may be deleted (judged or not)

Priority == 0 .. Priorities - 1
JudgeId == Name \cup {AnyJudge}

ASSUME ConstantsAssumption ==
    /\ Priorities \in Nat \ {0}
    /\ Submission \cap Priority = {}
    /\ NameOf \in [Handler -> Name]
    /\ ProblemOf \in [Submission -> Problem]
    /\ NoJudge \notin Handler
    /\ NoSub \notin Submission
    /\ NoNode \notin JudgeId
    /\ AnyJudge \notin Name
    /\ SendErrors \in BOOLEAN /\ DbErrors \in BOOLEAN /\ Vanishing \in BOOLEAN

VARIABLES
    queue,         \* the dllist: ids of waiting submissions, and the markers 0, 1, ...
    nodeMap,       \* node_map: the judge_id in the submission's node, or NoNode
    submissionMap, \* submission_map: the handler, or NoJudge
    judges,        \* the set of registered handlers
    working,       \* JudgeHandler._working
    problems,      \* JudgeHandler.problems and .executors
    sock,          \* the connection: "open", "broken" by the judge, "shut" by close()
    toJudge,       \* packets sent to the judge and not yet read by it
    rows           \* the submissions that have a row in the database

listVars == <<queue, nodeMap, submissionMap, judges>>
handlerVars == <<working, problems, sock, toJudge>>
listExternals == <<problems, sock, rows>>  \* what judge, register, ... only read

Packet(name, s) == [name |-> name, id |-> s]

ToJudgePacket ==
    [name : {"submission-request", "terminate-submission"}, id : Submission]
    \cup {Packet("disconnect", NoSub)}

-----------------------------------------------------------------------------
(* The queue.  A waiting submission of priority p stands before marker p   *)
(* and after marker p - 1.                                                 *)

PositionOf(x) == CHOOSE i \in DOMAIN queue : queue[i] = x

\* Mutation: the submission lands behind its marker, among those of the next priority.
InsertBefore_After(p, s) == InsertAt(queue, PositionOf(p) + 1, s)

InsertBefore(p, s) == InsertAt(queue, PositionOf(p), s)

Unlink(s) == RemoveAt(queue, PositionOf(s))

\* JudgeHandler.can_judge; the executor check is folded into "problems".
CanJudge(h, s, id) ==
    /\ ProblemOf[s] \in problems[h]
    /\ id \in {AnyJudge, NameOf[h]}

\* The positions of the waiting submissions that judge h may take.
Eligible(h) ==
    {i \in DOMAIN queue : queue[i] \in Submission /\ CanJudge(h, queue[i], nodeMap[queue[i]])}

IsFirst(i, S) == i \in S /\ \A k \in S : i <= k

-----------------------------------------------------------------------------
(* JudgeHandler.submit: read the submission's row, note the work, send.    *)

Outcomes(h, s) ==
    LET sends  == IF sock[h] = "shut" THEN {} ELSE {"sent"}
        raises == IF sock[h] = "shut" \/ (SendErrors /\ sock[h] = "broken")
                  THEN {"sendError"} ELSE {}
        fails  == IF DbErrors THEN {"dbError"} ELSE {}
    IN fails \cup IF s \in rows THEN sends \cup raises ELSE {"vanished"}

\* A packet sent on a broken connection is lost.
Deliver(h, packet) ==
    IF sock[h] = "open" THEN [toJudge EXCEPT ![h] = Append(@, packet)] ELSE toJudge

\* Mutation: _working is set after the send instead of before it.
Submit_SendFirst(h, s, outcome, w) ==
    /\ working' = IF outcome = "sent" THEN [w EXCEPT ![h] = s] ELSE w
    /\ toJudge' = IF outcome = "sent"
                  THEN Deliver(h, Packet("submission-request", s)) ELSE toJudge

\* w is the value of working when submit is entered.
Submit(h, s, outcome, w) ==
    /\ working' = IF outcome \in {"sent", "sendError"} THEN [w EXCEPT ![h] = s] ELSE w
    /\ toJudge' = IF outcome = "sent"
                  THEN Deliver(h, Packet("submission-request", s)) ELSE toJudge

\* Mutations: a vanished submission keeps its key in node_map; a judge whose send failed
\* stays in the set.
TakeOut_KeepsKey(h, i, outcome, js) ==
    /\ queue' = IF outcome \in {"sent", "vanished"} THEN RemoveAt(queue, i) ELSE queue
    /\ nodeMap' = IF outcome = "sent" THEN [nodeMap EXCEPT ![queue[i]] = NoNode] ELSE nodeMap
    /\ judges' = IF outcome \in {"sent", "vanished"} THEN js ELSE js \ {h}

TakeOut_KeepsJudge(h, i, outcome, js) ==
    /\ queue' = IF outcome \in {"sent", "vanished"} THEN RemoveAt(queue, i) ELSE queue
    /\ nodeMap' = IF outcome \in {"sent", "vanished"}
                  THEN [nodeMap EXCEPT ![queue[i]] = NoNode] ELSE nodeMap
    /\ judges' = js

\* The end of _handle_free_judge: the node leaves the queue, or else the judge leaves the set.
TakeOut(h, i, outcome, js) ==
    IF outcome \in {"sent", "vanished"}
    THEN /\ queue' = RemoveAt(queue, i)
         /\ nodeMap' = [nodeMap EXCEPT ![queue[i]] = NoNode]
         /\ judges' = js
    ELSE /\ judges' = js \ {h}
         /\ UNCHANGED <<queue, nodeMap>>

\* _handle_free_judge(h), entered with submission_map, judges and working at sm, js and w.
HandleFreeJudge(h, sm, js, w) ==
    \/ /\ Eligible(h) = {}
       /\ submissionMap' = sm /\ judges' = js /\ working' = w
       /\ UNCHANGED <<queue, nodeMap, toJudge>>
    \/ \E i \in Eligible(h) : \E outcome \in Outcomes(h, queue[i]) :
          /\ IsFirst(i, Eligible(h))
          /\ submissionMap' = [sm EXCEPT ![queue[i]] = h]
          /\ Submit(h, queue[i], outcome, w)
          /\ TakeOut(h, i, outcome, js)

-----------------------------------------------------------------------------
(* The methods of JudgeList.                                               *)

\* Mutation: only the queue is looked up.
Known_QueueOnly(s) == nodeMap[s] # NoNode

Known(s) == submissionMap[s] # NoJudge \/ nodeMap[s] # NoNode

Candidates(s, id) == {h \in judges : working[h] = NoSub /\ CanJudge(h, s, id)}

\* judge(s, ..., judge_id, priority).  "load" is a number the judges report, so any
\* candidate may have the least.  A failed dispatch retries, and finds s in submission_map.
Judge(s, id, p) ==
    /\ UNCHANGED listExternals
    /\ \/ Known(s) /\ UNCHANGED <<listVars, working, toJudge>>
       \/ /\ ~Known(s) /\ Candidates(s, id) = {}
          /\ queue' = InsertBefore(p, s)
          /\ nodeMap' = [nodeMap EXCEPT ![s] = id]
          /\ UNCHANGED <<submissionMap, judges, working, toJudge>>
       \/ /\ ~Known(s)
          /\ \E h \in Candidates(s, id) : \E outcome \in Outcomes(h, s) :
                /\ submissionMap' = [submissionMap EXCEPT ![s] = h]
                /\ Submit(h, s, outcome, working)
                /\ judges' = IF outcome = "sent" THEN judges ELSE judges \ {h}
          /\ UNCHANGED <<queue, nodeMap>>

\* Mutation: a new judge does not look at the queue.
RegisterJudge_NoLook(h) ==
    /\ judges' = judges \cup {h}
    /\ UNCHANGED <<queue, nodeMap, submissionMap, working, toJudge, listExternals>>

\* register(h).  disconnect(judge, force=True) is given the handler where it compares
\* names, so it disconnects nobody.
RegisterJudge(h) ==
    /\ HandleFreeJudge(h, submissionMap, judges \cup {h}, working)
    /\ UNCHANGED listExternals

\* Mutation: update_problems does nothing.
UpdateProblems_NoLook(h) == UNCHANGED <<listVars, working, toJudge, listExternals>>

\* update_problems(h)
UpdateProblems(h) ==
    /\ HandleFreeJudge(h, submissionMap, judges, working)
    /\ UNCHANGED listExternals

\* Mutations: submission_map keeps the submission; _working keeps it; _working is reset to
\* the wrong sentinel; the queue is not looked at.
OnJudgeFree_KeepsMap(h, s) ==
    /\ IF submissionMap[s] = NoJudge
       THEN UNCHANGED <<listVars, working, toJudge>>
       ELSE HandleFreeJudge(h, submissionMap, judges, [working EXCEPT ![h] = NoSub])
    /\ UNCHANGED listExternals

OnJudgeFree_KeepsWorking(h, s) ==
    /\ IF submissionMap[s] = NoJudge
       THEN UNCHANGED <<listVars, working, toJudge>>
       ELSE HandleFreeJudge(h, [submissionMap EXCEPT ![s] = NoJudge], judges, working)
    /\ UNCHANGED listExternals

OnJudgeFree_Sentinel(h, s) ==
    /\ IF submissionMap[s] = NoJudge
       THEN UNCHANGED <<listVars, working, toJudge>>
       ELSE HandleFreeJudge(h, [submissionMap EXCEPT ![s] = NoJudge], judges,
                            [working EXCEPT ![h] = NoJudge])
    /\ UNCHANGED listExternals

OnJudgeFree_NoLook(h, s) ==
    /\ submissionMap' = [submissionMap EXCEPT ![s] = NoJudge]
    /\ working' = [working EXCEPT ![h] = NoSub]
    /\ UNCHANGED <<queue, nodeMap, judges, toJudge, listExternals>>

\* on_judge_free(h, s); a KeyError from submission_map leaves everything as it was.
OnJudgeFree(h, s) ==
    /\ IF submissionMap[s] = NoJudge
       THEN UNCHANGED <<listVars, working, toJudge>>
       ELSE HandleFreeJudge(h, [submissionMap EXCEPT ![s] = NoJudge], judges,
                            [working EXCEPT ![h] = NoSub])
    /\ UNCHANGED listExternals

\* Mutation: only the set of judges forgets the judge.
RemoveJudge_KeepsMap(h) ==
    /\ judges' = judges \ {h}
    /\ UNCHANGED <<queue, nodeMap, submissionMap, handlerVars, rows>>

\* remove(h)
RemoveJudge(h) ==
    /\ submissionMap' = IF working[h] = NoSub THEN submissionMap
                        ELSE [submissionMap EXCEPT ![working[h]] = NoJudge]
    /\ judges' = judges \ {h}
    /\ UNCHANGED <<queue, nodeMap, handlerVars, rows>>

\* Mutation: the node leaves the queue and its key stays in node_map.
Abort_KeepsKey(s) ==
    /\ IF submissionMap[s] # NoJudge
       THEN /\ toJudge' = Deliver(submissionMap[s], Packet("terminate-submission", s))
            /\ UNCHANGED queue
       ELSE /\ queue' = IF nodeMap[s] # NoNode THEN Unlink(s) ELSE queue
            /\ UNCHANGED toJudge
    /\ UNCHANGED <<nodeMap, submissionMap, judges, working, listExternals>>

\* abort(s).  The packet that reaches the judge is bare: the id in it is kept for the
\* properties only.  A send that raises changes nothing.
Abort(s) ==
    /\ \/ /\ submissionMap[s] # NoJudge
          /\ toJudge' = Deliver(submissionMap[s], Packet("terminate-submission", s))
          /\ UNCHANGED <<queue, nodeMap>>
       \/ /\ submissionMap[s] = NoJudge /\ nodeMap[s] # NoNode
          /\ queue' = Unlink(s)
          /\ nodeMap' = [nodeMap EXCEPT ![s] = NoNode]
          /\ UNCHANGED toJudge
       \/ ~Known(s) /\ UNCHANGED <<queue, nodeMap, toJudge>>
    /\ UNCHANGED <<submissionMap, judges, working, listExternals>>

\* disconnect(name, force): each judge of that name in turn, until one of them raises.
Named(n) == {h \in judges : NameOf[h] = n}

DisconnectJudges(n, force) ==
    \E done \in SUBSET Named(n) :
       /\ done = Named(n) \/ \E h \in Named(n) \ done : sock[h] # "open"
       /\ sock' = [h \in Handler |-> IF force /\ h \in done THEN "shut" ELSE sock[h]]
       /\ toJudge' = [h \in Handler |->
             CASE h \in done /\ force -> <<>>
               [] h \in done /\ ~force /\ sock[h] = "open"
                      -> Append(toJudge[h], Packet("disconnect", NoSub))
               [] OTHER -> toJudge[h]]
       /\ UNCHANGED <<listVars, working, problems, rows>>

Markers == [i \in 1 .. Priorities |-> i - 1]

ListInit ==
    /\ queue = Markers
    /\ nodeMap = [s \in Submission |-> NoNode]
    /\ submissionMap = [s \in Submission |-> NoJudge]
    /\ judges = {}
=============================================================================
