------------------------- MODULE SubmissionLifecycle -------------------------
(***************************************************************************)
(* The rows of a submission in the database while site processes          *)
(* (judgeapi.py) and the handlers of the bridge (judge_handler.py) write   *)
(* them.  The bridge is JudgeBridge; each action of it is joined here with *)
(* the writes its handler makes.  A site process takes one step for each   *)
(* of its database statements and each exchange with the bridge.           *)
(***************************************************************************)
EXTENDS JudgeBridge

CONSTANTS
    Web,            \* site processes and task workers
    NoTodo,         \* the handler's thread has no verdict to write
    LostReplies,    \* the bridge's answer to a submission-request may be lost
    RejudgeQueued,  \* a submission may be rejudged while it is queued
    Restarts        \* whether the bridge may crash and be started again

\* A judge announces the grading before its test cases.
ASSUME LifecycleAssumption ==
    /\ NoTodo \notin [name : FinalPackets, id : Submission]
    /\ LostReplies \in BOOLEAN /\ RejudgeQueued \in BOOLEAN /\ Restarts \in BOOLEAN
    /\ \A i, j \in DOMAIN Script :
          Script[i] = "grading-begin" /\ Script[j] = "test-case-status" => i < j

VARIABLES
    status,     \* Submission.status
    cases,      \* the positions that have a SubmissionTestCase row
    counted,    \* the positions counted by the last verdict
    todo,       \* the final packet whose database writes the handler's thread still owes
    web,        \* what each site process is doing, and to which submission
    marked,     \* history: submissions some judge_submission has marked as queued
    disturbed   \* history: submissions whose state was written under the bridge's feet

dbVars == <<status, cases, counted>>
siteVars == <<web, marked, disturbed>>
lifeVars == <<vars, dbVars, todo, siteVars>>

Statuses == {"QU", "P", "G", "D", "IE", "CE", "AB"}
Positions == {i \in DOMAIN Script : Script[i] = "test-case-status"}
Idle == [step |-> "idle", sub |-> NoSub]

LifeTypeOK ==
    /\ TypeOK
    /\ status \in [Submission -> Statuses]
    /\ cases \in [Submission -> SUBSET Positions]
    /\ counted \in [Submission -> SUBSET Positions]
    /\ todo \in [Handler -> [name : FinalPackets, id : Submission] \cup {NoTodo}]
    /\ web \in [Web -> [step : {"idle", "marked", "cleared", "failed", "unlinked"},
                        sub : Submission \cup {NoSub}]]
    /\ marked \in SUBSET Submission /\ disturbed \in SUBSET Submission

LifeInit ==
    /\ Init
    /\ status = [s \in Submission |-> "QU"]
    /\ cases = [s \in Submission |-> {}]
    /\ counted = [s \in Submission |-> {}]
    /\ todo = [h \in Handler |-> NoTodo]
    /\ web = [w \in Web |-> Idle]
    /\ marked = {} /\ disturbed = {}

SetStatus(s, v) == status' = [status EXCEPT ![s] = v]

-----------------------------------------------------------------------------
(* judge_submission: mark, clear, request.                                 *)

GoIdle(w, step) == web[w].step = step /\ web' = [web EXCEPT ![w] = Idle]

\* Mutation: the update takes every submission.
WebMark_Unguarded(w, s) ==
    /\ web[w] = Idle
    /\ requests + Cardinality({v \in Web : web[v] # Idle}) < MaxRequests
    /\ SetStatus(s, "QU")
    /\ web' = [web EXCEPT ![w] = [step |-> "marked", sub |-> s]]
    /\ marked' = marked \cup {s}
    /\ UNCHANGED <<vars, cases, counted, todo, disturbed>>

\* The update excludes the submissions a judge is working on.
WebMark(w, s) ==
    /\ web[w] = Idle
    /\ requests + Cardinality({v \in Web : web[v] # Idle}) < MaxRequests
    /\ s \notin marked \/ RejudgeQueued \/ status[s] # "QU"
    /\ status[s] \notin {"P", "G"}
    /\ SetStatus(s, "QU")
    /\ web' = [web EXCEPT ![w] = [step |-> "marked", sub |-> s]]
    /\ marked' = marked \cup {s}
    /\ UNCHANGED <<vars, cases, counted, todo, disturbed>>

WebClear(w) ==
    /\ web[w].step = "marked"
    /\ cases' = [cases EXCEPT ![web[w].sub] = {}]
    /\ web' = [web EXCEPT ![w].step = "cleared"]
    /\ UNCHANGED <<vars, status, counted, todo, marked, disturbed>>

\* The request reaches the bridge; the answer comes back or is lost.
WebRequest(w) ==
    /\ web[w].step = "cleared"
    /\ \E r \in Requests : r.id = web[w].sub /\ SubmissionRequest(r)
    /\ \/ web' = [web EXCEPT ![w] = Idle] /\ UNCHANGED disturbed
       \/ /\ LostReplies
          /\ web' = [web EXCEPT ![w].step = "failed"]
          /\ disturbed' = disturbed \cup {web[w].sub}
    /\ UNCHANGED <<dbVars, todo, marked>>

\* Mutation: nothing is written when the bridge cannot be reached.
WebUnreachable_Silent(w) ==
    /\ GoIdle(w, "cleared")
    /\ UNCHANGED <<vars, dbVars, todo, marked, disturbed>>

\* The bridge cannot be reached.
WebUnreachable(w) ==
    /\ GoIdle(w, "cleared")
    /\ SetStatus(web[w].sub, "IE")
    /\ UNCHANGED <<vars, cases, counted, todo, marked, disturbed>>

WebFailed(w) ==
    /\ GoIdle(w, "failed")
    /\ SetStatus(web[w].sub, "IE")
    /\ UNCHANGED <<vars, cases, counted, todo, marked, disturbed>>

-----------------------------------------------------------------------------
(* abort_submission: terminate, then write AB if the bridge says that no   *)
(* judge had it.                                                           *)

WebAbort(w, s) ==
    /\ web[w] = Idle
    /\ TerminationRequest(s)
    /\ web' = IF submissionMap[s] # NoJudge THEN web
              ELSE [web EXCEPT ![w] = [step |-> "unlinked", sub |-> s]]
    /\ disturbed' = disturbed \cup {s}
    /\ UNCHANGED <<dbVars, todo, marked>>

WebAborted(w) ==
    /\ GoIdle(w, "unlinked")
    /\ SetStatus(web[w].sub, "AB")
    /\ UNCHANGED <<vars, cases, counted, todo, marked, disturbed>>

-----------------------------------------------------------------------------
(* The handlers of the bridge.                                             *)

\* on_submission_acknowledged: after a wrong acknowledgement the expected submission is IE,
\* and the one acknowledged is marked as processing all the same.
Acknowledged(h) ==
    /\ HandleAcknowledged(h)
    /\ status' = [s \in Submission |->
          CASE s = Head(fromJudge[h]).id -> "P"
            [] s = working[h] /\ s # Head(fromJudge[h]).id -> "IE"
            [] OTHER -> status[s]]
    /\ UNCHANGED <<cases, counted, todo>>

\* on_grading_begin
BeginGrading(id) == SetStatus(id, "G") /\ cases' = [cases EXCEPT ![id] = {}]

\* on_test_case
AddCase(id, n) == UNCHANGED status /\ cases' = [cases EXCEPT ![id] = @ \cup {n}]

Progress(h) ==
    /\ HandleProgress(h)
    /\ LET packet == Head(fromJudge[h])
       IN IF packet.name = "grading-begin"
          THEN BeginGrading(packet.id) ELSE AddCase(packet.id, packet.position)
    /\ UNCHANGED <<counted, todo>>

\* _free_self comes before any write; if it raises, no write follows.
Final(h) ==
    /\ HandleFinal(h)
    /\ LET packet == Head(fromJudge[h])
       IN todo' = IF submissionMap[packet.id] = NoJudge THEN todo
                  ELSE [todo EXCEPT ![h] = [name |-> packet.name, id |-> packet.id]]
    /\ UNCHANGED dbVars

\* Mutation: the result code is written where the status belongs.
VerdictStatus_Result(name) == IF name = "grading-end" THEN "AC" ELSE "IE"

VerdictStatus(name) ==
    CASE name = "grading-end" -> "D"
      [] name = "compile-error" -> "CE"
      [] name = "internal-error" -> "IE"
      [] name = "submission-terminated" -> "AB"

\* The rest of on_grading_end, on_compile_error, on_internal_error, on_submission_terminated.
Verdict(h) ==
    /\ todo[h] # NoTodo
    /\ SetStatus(todo[h].id, VerdictStatus(todo[h].name))
    /\ counted' = IF todo[h].name = "grading-end"
                  THEN [counted EXCEPT ![todo[h].id] = cases[todo[h].id]] ELSE counted
    /\ todo' = [todo EXCEPT ![h] = NoTodo]
    /\ UNCHANGED <<vars, cases>>

\* The steps of a handler's thread that write nothing to a submission.
Quiet(h) ==
    /\ \/ Register(h) \/ HandshakeFails(h) \/ Connected(h) \/ EndOfStream(h)
       \/ Unregister(h) \/ Disconnected(h) \/ Requeue(h)
    /\ UNCHANGED <<dbVars, todo>>

Thread(h) ==
    /\ todo[h] = NoTodo
    /\ Quiet(h) \/ Acknowledged(h) \/ Progress(h) \/ Final(h)
    /\ UNCHANGED siteVars

-----------------------------------------------------------------------------
(* judge_daemon after a crash: every connection and queue is gone, and     *)
(* what was in progress is an internal error.                              *)
AtSite(s) == \E w \in Web : web[w].sub = s

InProgress == {s \in Submission : status[s] \in {"QU", "P", "G"}}

Restart ==
    /\ Restarts
    /\ \E h \in Handler : phase[h] \notin {"new", "gone"}
    /\ queue' = Markers
    /\ nodeMap' = [s \in Submission |-> NoNode]
    /\ submissionMap' = [s \in Submission |-> NoJudge]
    /\ judges' = {}
    /\ phase' = [h \in Handler |-> IF phase[h] = "new" THEN "new" ELSE "gone"]
    /\ sock' = [h \in Handler |-> IF phase[h] = "new" THEN sock[h] ELSE "broken"]
    /\ working' = [h \in Handler |-> NoSub]
    /\ grading' = [h \in Handler |-> NoSub]
    /\ toJudge' = [h \in Handler |-> <<>>]
    /\ fromJudge' = [h \in Handler |-> <<>>]
    /\ todo' = [h \in Handler |-> NoTodo]
    /\ wanted' = {}
    /\ status' = [s \in Submission |-> IF s \in InProgress THEN "IE" ELSE status[s]]
    /\ disturbed' = disturbed \cup {s \in InProgress : AtSite(s)}
    /\ UNCHANGED <<problems, rows, row, stage, requests, cases, counted, web, marked>>

-----------------------------------------------------------------------------
Outside(h) ==
    /\ \/ ExternalJudge(h) \/ ConnectionBreaks(h)
       \/ \E ps \in ProblemLists : Handshake(h, ps)
    /\ UNCHANGED <<dbVars, todo, siteVars>>

LifeNext ==
    \/ \E w \in Web :
          \/ WebClear(w) \/ WebRequest(w) \/ WebUnreachable(w) \/ WebFailed(w) \/ WebAborted(w)
          \/ \E s \in Submission : WebMark(w, s) \/ WebAbort(w, s)
    \/ \E h \in Handler :
          \/ Thread(h)
          \/ Verdict(h) /\ UNCHANGED siteVars
          \/ Outside(h)
    \/ Restart

LifeSpec == LifeInit /\ [][LifeNext]_lifeVars

-----------------------------------------------------------------------------
\* Some thread of the bridge has the submission and will come back to it.
AtBridge(s) ==
    \/ s \in Waiting
    \/ \E h \in Handler : working[h] = s /\ phase[h] # "gone"
    \/ \E h \in Handler : todo[h] # NoTodo /\ todo[h].id = s

\* A submission shown as processing or grading is in the hands of the bridge, or was just
\* taken out of its queue and is about to be marked as aborted: otherwise nothing would ever
\* end it, since judge_submission refuses to touch it.
InProgressIsHandled ==
    \A s \in Submission : status[s] \in {"P", "G"} =>
       AtBridge(s) \/ \E w \in Web : web[w] = [step |-> "unlinked", sub |-> s]

\* A submission shown as queued is in the hands of the bridge or of a site process.
QueuedIsHandled ==
    \A s \in marked : status[s] = "QU" => AtBridge(s) \/ AtSite(s)

\* "That does not lead to data corruption": a verdict counts every test case of the
\* submission.  Submissions that were aborted, or whose request had no answer, are left out.
VerdictComplete ==
    \A s \in Submission \ disturbed : status[s] = "D" => counted[s] = Positions

\* "Not falsely shown as Aborted when it will still be judged."
AbortedIsNotJudged ==
    \A s \in Submission : status[s] = "AB" =>
       ~(s \in Waiting \/ \E h \in Handler : working[h] = s /\ phase[h] # "gone")
=============================================================================
