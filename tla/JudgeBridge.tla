----------------------------- MODULE JudgeBridge -----------------------------
(***************************************************************************)
(* The bridge at work: the thread of each JudgeHandler (judge_handler.py)  *)
(* from handshake to on_disconnect, the Django-facing threads              *)
(* (django_handler.py), the judges at the other end of the connections     *)
(* (external), and connections that break at any moment.  A handler's      *)
(* thread releases the lock of JudgeList between the steps modelled here.  *)
(***************************************************************************)
EXTENDS JudgeList

CONSTANTS
    ProblemLists,  \* the lists of problems a judge may report
    Requests,      \* the submission-requests the site makes: [id, judge, priority]
    Script,        \* names of the packets a judge sends while it grades
    Verdicts,      \* names of the packets it may finish with
    Forces,        \* the values of "force" in a disconnect-judge request
    Reloads,       \* whether judges report their problems again (supported-problems)
    MaxRequests,   \* bound: submission-requests in a behaviour
    MaxPackets     \* bound: packets waiting for a judge before another termination

ASSUME BridgeAssumption ==
    /\ ProblemLists \subseteq SUBSET Problem
    /\ Requests \subseteq [id : Submission, judge : JudgeId, priority : Priority]
    /\ Script \in Seq({"grading-begin", "test-case-status"})
    /\ Verdicts \subseteq {"grading-end", "compile-error", "internal-error"}
    /\ Forces \subseteq BOOLEAN /\ Reloads \in BOOLEAN
    /\ MaxRequests \in Nat /\ MaxPackets \in Nat

VARIABLES
    phase,      \* how far the handler's thread has come
    row,        \* JudgeHandler.judge is set
    fromJudge,  \* packets sent by the judge and not yet read by the handler
    grading,    \* external: the submission the judge works on
    stage,      \* external: how many packets of Script it has sent for it
    requests,   \* the number of submission-requests so far
    wanted      \* history: submissions requested, not aborted in the queue, with no final packet handled

judgeVars == <<fromJudge, grading, stage>>
historyVars == <<requests, wanted>>
vars == <<listVars, handlerVars, rows, phase, row, judgeVars, historyVars>>

Phases == {"new", "named", "registered", "up", "updating",
           "dropped", "removed", "offline", "gone"}

Reply(name, s, ps, n) == [name |-> name, id |-> s, problems |-> ps, position |-> n]

FinalPackets == Verdicts \cup {"submission-terminated"}

FromJudgePacket ==
    [name : {"submission-acknowledged", "grading-begin", "test-case-status",
             "submission-terminated"} \cup Verdicts,
     id : Submission, problems : {{}}, position : Nat]
    \cup [name : {"supported-problems"}, id : {NoSub}, problems : SUBSET Problem, position : {0}]

TypeOK ==
    /\ queue \in Seq(Submission \cup Priority)
    /\ nodeMap \in [Submission -> JudgeId \cup {NoNode}]
    /\ submissionMap \in [Submission -> Handler \cup {NoJudge}]
    /\ judges \in SUBSET Handler
    /\ working \in [Handler -> Submission \cup {NoSub}]
    /\ problems \in [Handler -> SUBSET Problem]
    /\ sock \in [Handler -> {"open", "broken", "shut"}]
    /\ toJudge \in [Handler -> Seq(ToJudgePacket)]
    /\ phase \in [Handler -> Phases]
    /\ row \in [Handler -> BOOLEAN]
    /\ fromJudge \in [Handler -> Seq(FromJudgePacket)]
    /\ grading \in [Handler -> Submission \cup {NoSub}]
    /\ stage \in [Handler -> Nat]
    /\ requests \in Nat
    /\ rows \in SUBSET Submission
    /\ wanted \in SUBSET Submission

Init ==
    /\ ListInit
    /\ rows = Submission
    /\ working = [h \in Handler |-> NoSub]
    /\ problems = [h \in Handler |-> {}]
    /\ sock = [h \in Handler |-> "open"]
    /\ toJudge = [h \in Handler |-> <<>>]
    /\ phase = [h \in Handler |-> "new"]
    /\ row = [h \in Handler |-> FALSE]
    /\ fromJudge = [h \in Handler |-> <<>>]
    /\ grading = [h \in Handler |-> NoSub]
    /\ stage = [h \in Handler |-> 0]
    /\ requests = 0
    /\ wanted = {}

-----------------------------------------------------------------------------
(* The handler's thread.                                                   *)

GoTo(h, from, to) == phase[h] = from /\ phase' = [phase EXCEPT ![h] = to]

\* on_handshake up to the reply; an unauthenticated judge never gets a name and is left out.
Handshake(h, ps) ==
    /\ GoTo(h, "new", "named")
    /\ problems' = [problems EXCEPT ![h] = ps]
    /\ UNCHANGED <<rows, listVars, working, sock, toJudge, row, judgeVars, historyVars>>

\* The reply to the handshake raises: on_packet swallows it and the loop meets the end of stream.
HandshakeFails(h) ==
    /\ sock[h] # "open"
    /\ GoTo(h, "named", "dropped")
    /\ UNCHANGED <<rows, listVars, handlerVars, row, judgeVars, historyVars>>

\* on_handshake: judges.register(self)
Register(h) ==
    /\ GoTo(h, "named", "registered")
    /\ RegisterJudge(h)
    /\ UNCHANGED <<row, judgeVars, historyVars>>

\* on_handshake: self._connected(); on_packet swallows what it raises.
Connected(h) ==
    /\ GoTo(h, "registered", "up")
    /\ \/ row' = [row EXCEPT ![h] = TRUE]
       \/ DbErrors /\ UNCHANGED row
    /\ UNCHANGED <<rows, listVars, handlerVars, judgeVars, historyVars>>

Incoming(h, names) ==
    /\ fromJudge[h] # <<>> /\ Head(fromJudge[h]).name \in names
    /\ fromJudge' = [fromJudge EXCEPT ![h] = Tail(@)]

\* close(): the judge at the other end is cut off.
Close(h) ==
    /\ sock' = [sock EXCEPT ![h] = "shut"]
    /\ toJudge' = [toJudge EXCEPT ![h] = <<>>]
    /\ grading' = [grading EXCEPT ![h] = NoSub]

\* on_submission_acknowledged
HandleAcknowledged(h) ==
    /\ phase[h] = "up" /\ Incoming(h, {"submission-acknowledged"})
    /\ IF Head(fromJudge[h]).id = working[h]
       THEN UNCHANGED <<sock, toJudge, grading>> ELSE Close(h)
    /\ UNCHANGED <<rows, listVars, working, problems, phase, row, stage, historyVars>>

\* on_grading_begin and on_test_case touch the database only.
HandleProgress(h) ==
    /\ phase[h] = "up" /\ Incoming(h, {"grading-begin", "test-case-status"})
    /\ UNCHANGED <<rows, listVars, handlerVars, phase, row, grading, stage, historyVars>>

\* on_grading_end, on_compile_error, on_internal_error, on_submission_terminated: _free_self
HandleFinal(h) ==
    /\ phase[h] = "up" /\ Incoming(h, FinalPackets)
    /\ OnJudgeFree(h, Head(fromJudge[h]).id)
    /\ wanted' = wanted \ {Head(fromJudge[h]).id}
    /\ UNCHANGED <<phase, row, grading, stage, requests>>

\* on_supported_problems: the new list, then "if not self.working" without the lock.
HandleSupportedProblems(h) ==
    /\ phase[h] = "up" /\ Incoming(h, {"supported-problems"})
    /\ problems' = [problems EXCEPT ![h] = Head(fromJudge[h]).problems]
    /\ phase' = IF working[h] = NoSub THEN [phase EXCEPT ![h] = "updating"] ELSE phase
    /\ UNCHANGED <<rows, listVars, working, sock, toJudge, row, grading, stage, historyVars>>

\* on_supported_problems: self.judges.update_problems(self)
HandleUpdateProblems(h) ==
    /\ GoTo(h, "updating", "up")
    /\ UpdateProblems(h)
    /\ UNCHANGED <<row, judgeVars, historyVars>>

\* handle() ends: Disconnect, a timeout or a socket error; unread packets are lost.
EndOfStream(h) ==
    /\ sock[h] # "open"
    /\ GoTo(h, "up", "dropped")
    /\ fromJudge' = [fromJudge EXCEPT ![h] = <<>>]
    /\ UNCHANGED <<rows, listVars, handlerVars, row, grading, stage, historyVars>>

\* on_disconnect: self.judges.remove(self)
Unregister(h) ==
    /\ GoTo(h, "dropped", "removed")
    /\ RemoveJudge(h)
    /\ UNCHANGED <<row, judgeVars, historyVars>>

\* on_disconnect: self._disconnected(), which needs self.judge and the database.
Disconnected(h) ==
    /\ \/ row[h] /\ GoTo(h, "removed", "offline")
       \/ (~row[h] \/ DbErrors) /\ GoTo(h, "removed", "gone")
    /\ UNCHANGED <<rows, listVars, handlerVars, row, judgeVars, historyVars>>

\* Mutation: the lost work is forgotten.
Requeue_Forgets(h) ==
    /\ GoTo(h, "offline", "gone")
    /\ UNCHANGED <<listVars, handlerVars, rows, row, judgeVars, historyVars>>

\* on_disconnect: what the judge was working on is judged again, at priority 0.
Requeue(h) ==
    /\ GoTo(h, "offline", "gone")
    /\ IF working[h] = NoSub THEN UNCHANGED <<listVars, handlerVars, rows>>
       ELSE Judge(working[h], AnyJudge, 0)
    /\ UNCHANGED <<row, judgeVars, historyVars>>

-----------------------------------------------------------------------------
(* The Django-facing threads.                                              *)

SubmissionRequest(r) ==
    /\ requests < MaxRequests
    /\ requests' = requests + 1
    /\ Judge(r.id, r.judge, r.priority)
    /\ wanted' = wanted \cup {r.id}
    /\ UNCHANGED <<phase, row, judgeVars>>

TerminationRequest(s) ==
    /\ submissionMap[s] # NoJudge => Len(toJudge[submissionMap[s]]) < MaxPackets
    /\ Abort(s)
    /\ wanted' = IF submissionMap[s] = NoJudge /\ nodeMap[s] # NoNode
                 THEN wanted \ {s} ELSE wanted
    /\ UNCHANGED <<phase, row, judgeVars, requests>>

DisconnectRequest(n, force) ==
    /\ \A h \in Named(n) : Len(toJudge[h]) < MaxPackets
    /\ DisconnectJudges(n, force)
    /\ grading' = [h \in Handler |-> IF sock'[h] = "open" THEN grading[h] ELSE NoSub]
    /\ UNCHANGED <<phase, row, fromJudge, stage, historyVars>>

\* A submission, its problem or its author is deleted.
DeleteRow(s) ==
    /\ Vanishing
    /\ rows' = rows \ {s}
    /\ UNCHANGED <<listVars, handlerVars, phase, row, judgeVars, historyVars>>

-----------------------------------------------------------------------------
(* External: the judge at the other end and the network.  A judge reads    *)
(* its packets in order and grades one submission at a time.               *)

Send(h, packet) == fromJudge' = [fromJudge EXCEPT ![h] = Append(@, packet)]

Break(h) ==
    /\ sock' = [sock EXCEPT ![h] = "broken"]
    /\ toJudge' = [toJudge EXCEPT ![h] = <<>>]
    /\ grading' = [grading EXCEPT ![h] = NoSub]

Received(h, name) ==
    /\ toJudge[h] # <<>> /\ Head(toJudge[h]).name = name
    /\ toJudge' = [toJudge EXCEPT ![h] = Tail(@)]

JudgeStarts(h) ==
    /\ grading[h] = NoSub /\ Received(h, "submission-request")
    /\ grading' = [grading EXCEPT ![h] = Head(toJudge[h]).id]
    /\ stage' = [stage EXCEPT ![h] = 0]
    /\ Send(h, Reply("submission-acknowledged", Head(toJudge[h]).id, {}, 0))
    /\ UNCHANGED <<rows, listVars, working, problems, sock, phase, row, historyVars>>

JudgeProgresses(h) ==
    /\ grading[h] # NoSub /\ stage[h] < Len(Script)
    /\ stage' = [stage EXCEPT ![h] = @ + 1]
    /\ Send(h, Reply(Script[stage[h] + 1], grading[h], {}, stage[h] + 1))
    /\ UNCHANGED <<rows, listVars, handlerVars, phase, row, grading, historyVars>>

\* Only grading-end needs all of the progress before it.
JudgeFinishes(h) ==
    /\ grading[h] # NoSub
    /\ \E v \in Verdicts :
          /\ v = "grading-end" => stage[h] = Len(Script)
          /\ Send(h, Reply(v, grading[h], {}, 0))
    /\ grading' = [grading EXCEPT ![h] = NoSub]
    /\ UNCHANGED <<rows, listVars, handlerVars, phase, row, stage, historyVars>>

\* terminate-submission stops whatever is being graded, if anything is.
JudgeTerminates(h) ==
    /\ Received(h, "terminate-submission")
    /\ IF grading[h] = NoSub THEN UNCHANGED fromJudge
       ELSE Send(h, Reply("submission-terminated", grading[h], {}, 0))
    /\ grading' = [grading EXCEPT ![h] = NoSub]
    /\ UNCHANGED <<rows, listVars, working, problems, sock, phase, row, stage, historyVars>>

JudgeReloads(h, ps) ==
    /\ Reloads /\ phase[h] = "up" /\ sock[h] = "open" /\ ps # problems[h]
    /\ \A i \in DOMAIN fromJudge[h] : fromJudge[h][i].name # "supported-problems"
    /\ Send(h, Reply("supported-problems", NoSub, ps, 0))
    /\ UNCHANGED <<rows, listVars, handlerVars, phase, row, grading, stage, historyVars>>

\* The judge leaves when asked to, or the connection is lost.
JudgeLeaves(h) ==
    /\ toJudge[h] # <<>> /\ Head(toJudge[h]).name = "disconnect"
    /\ Break(h)
    /\ UNCHANGED <<rows, listVars, working, problems, phase, row, fromJudge, stage, historyVars>>

ConnectionBreaks(h) ==
    /\ sock[h] = "open" /\ phase[h] \notin {"new", "gone"}
    /\ Break(h)
    /\ UNCHANGED <<rows, listVars, working, problems, phase, row, fromJudge, stage, historyVars>>

-----------------------------------------------------------------------------
HandlerThread(h) ==
    \/ Register(h) \/ HandshakeFails(h) \/ Connected(h)
    \/ HandleAcknowledged(h) \/ HandleProgress(h) \/ HandleFinal(h)
    \/ HandleSupportedProblems(h) \/ HandleUpdateProblems(h)
    \/ EndOfStream(h) \/ Unregister(h) \/ Disconnected(h) \/ Requeue(h)

ExternalJudge(h) ==
    \/ JudgeStarts(h) \/ JudgeProgresses(h) \/ JudgeFinishes(h)
    \/ JudgeTerminates(h) \/ JudgeLeaves(h)

Next ==
    \/ \E h \in Handler : HandlerThread(h) \/ ExternalJudge(h) \/ ConnectionBreaks(h)
    \/ \E h \in Handler, ps \in ProblemLists : Handshake(h, ps) \/ JudgeReloads(h, ps)
    \/ \E r \in Requests : SubmissionRequest(r)
    \/ \E s \in Submission : TerminationRequest(s) \/ DeleteRow(s)
    \/ \E n \in Name, force \in Forces : DisconnectRequest(n, force)

Spec == Init /\ [][Next]_vars
-----------------------------------------------------------------------------
(* Safety.                                                                 *)

Waiting == {s \in Submission : nodeMap[s] # NoNode}

\* q is a queue of the submissions w: every marker once and in order, the last one at the
\* end, and every submission once.
IsQueueOf(q, w) ==
    /\ \A i, j \in DOMAIN q : q[i] = q[j] => i = j
    /\ \A i, j \in DOMAIN q : q[i] \in Priority /\ q[j] \in Priority /\ i < j => q[i] < q[j]
    /\ {q[i] : i \in DOMAIN q} = Priority \cup w
    /\ q[Len(q)] = Priorities - 1

\* The queue and node_map of judge_list.py always agree, whatever fails in between.
QueueConsistent == IsQueueOf(queue, Waiting)

\* submission_map and the judges' own notion of their work agree.
MapsAgree ==
    /\ \A s \in Submission : submissionMap[s] # NoJudge =>
          working[submissionMap[s]] = s /\ submissionMap[s] \in judges /\ s \notin Waiting
    /\ \A h \in judges : working[h] # NoSub => submissionMap[working[h]] = h

\* "Already judging, don't queue again": no two judges grade one submission at the same time.
OneJudge ==
    \A g, h \in Handler : g # h /\ grading[g] # NoSub => grading[g] # grading[h]

\* The bare terminate-submission packet never reaches a judge that grades another submission
\* than the one whose abortion was asked for.
AbortHitsTarget ==
    \A h \in Handler :
       toJudge[h] # <<>> /\ grading[h] # NoSub
       /\ Head(toJudge[h]).name = "terminate-submission" => Head(toJudge[h]).id = grading[h]

\* A submission the bridge accepted is waiting, at a judge, or about to be put back by the
\* handler that lost its judge, until its final packet is handled or it is aborted.
NoLostSubmission ==
    \A s \in wanted :
       \/ s \in Waiting
       \/ \E h \in Handler : working[h] = s /\ phase[h] # "gone"

\* No registered idle judge leaves work it could do in the queue, unless it is just about
\* to look (between reporting new problems and update_problems) or a deleted submission was
\* dispatched (_handle_free_judge stops after one).
WorkConserved ==
    rows = Submission =>
       \A h \in judges : working[h] = NoSub /\ phase[h] # "updating" => Eligible(h) = {}

\* A judge that is working will be heard of: its request, its grading or its final packet is
\* under way, or the connection is known to be lost.
WorkInFlight ==
    \A h \in judges : working[h] # NoSub /\ sock[h] = "open" =>
       \/ grading[h] = working[h]
       \/ \E i \in DOMAIN toJudge[h] : toJudge[h][i] = Packet("submission-request", working[h])
       \/ \E i \in DOMAIN fromJudge[h] :
             fromJudge[h][i].name \in FinalPackets /\ fromJudge[h][i].id = working[h]

\* A submission that is waiting and at a judge at once is there because its send failed: the
\* judge is out of the set, and its lost connection will be noticed.
ClashAfterFailedSend ==
    \A s \in Waiting : submissionMap[s] # NoJudge =>
       LET h == submissionMap[s]
       IN h \notin judges /\ working[h] = s /\ sock[h] # "open" /\ phase[h] # "gone"

\* "Disconnect all judges with the same name": two registered judges with one name are not
\* both left connected.
OneConnectionPerName ==
    \A g, h \in judges :
       g # h /\ NameOf[g] = NameOf[h] => ~(sock[g] = "open" /\ sock[h] = "open")

-----------------------------------------------------------------------------
(* Liveness.  Threads keep running, and a judge goes on reading and ends   *)
(* what it grades (it enforces the time limits).                           *)

Fairness == \A h \in Handler : WF_vars(HandlerThread(h)) /\ WF_vars(ExternalJudge(h))

LiveSpec == Spec /\ Fairness

Capable(s) == \E h \in judges : CanJudge(h, s, nodeMap[s])

\* Every submission the bridge accepted gets its final packet handled or is aborted, unless
\* it waits for a judge that could take it.
Settled ==
    \A s \in Submission :
       s \in wanted ~> (s \notin wanted \/ (s \in Waiting /\ ~Capable(s)))

\* A handler whose connection is lost does not keep its submission.
LostWorkReturns ==
    \A h \in Handler, s \in Submission :
       (submissionMap[s] = h /\ sock[h] # "open") ~> submissionMap[s] # h
=============================================================================
