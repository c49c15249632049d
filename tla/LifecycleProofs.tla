--------------------------- MODULE LifecycleProofs ---------------------------
(***************************************************************************)
(* What TLAPS proves of SubmissionLifecycle: the types, whatever fails in  *)
(* the bridge; that a submission shown as queued or in progress is in some *)
(* hand; and that a verdict counts every test case of a submission nobody  *)
(* disturbed.                                                              *)
(***************************************************************************)
EXTENDS SubmissionLifecycle, NoFailureProofs

-----------------------------------------------------------------------------
(* The types.                                                              *)

FinalPacket == [name : FinalPackets, id : Submission]

RowsTypeOK ==
    /\ status \in [Submission -> Statuses]
    /\ cases \in [Submission -> SUBSET Positions]
    /\ counted \in [Submission -> SUBSET Positions]
    /\ todo \in [Handler -> FinalPacket \cup {NoTodo}]
    /\ web \in [Web -> [step : {"idle", "marked", "cleared", "failed", "unlinked"},
                        sub : Submission \cup {NoSub}]]
    /\ marked \in SUBSET Submission /\ disturbed \in SUBSET Submission

\* A site process that is at work is at work on a submission.
Busy(w) == web[w].step # "idle" <=> web[w].sub # NoSub

\* A test case a judge reports is one of Script.
CasesOfScript(from) ==
    \A i \in DOMAIN from : from[i].name = "test-case-status" => from[i].position \in Positions

\* The inductive invariant of the types.
LifeTypeInv ==
    /\ BridgeInv /\ RowsTypeOK
    /\ \A w \in Web : Busy(w)
    /\ \A h \in Handler : CasesOfScript(fromJudge[h])

LEMMA LifeTypeInvImplies == LifeTypeInv => LifeTypeOK
BY BridgeInvImplies DEF LifeTypeInv, RowsTypeOK, LifeTypeOK, FinalPacket

LEMMA TailOfScript ==
    ASSUME NEW from \in Seq(FromJudgePacket), from # <<>>, CasesOfScript(from)
    PROVE  /\ CasesOfScript(Tail(from))
           /\ Head(from).name = "test-case-status" => Head(from).position \in Positions
<1>1. /\ Len(from) \in Nat /\ Len(from) > 0 /\ DOMAIN from = 1 .. Len(from)
      /\ DOMAIN Tail(from) = 1 .. Len(from) - 1 /\ Head(from) = from[1]
      /\ \A i \in 1 .. Len(from) - 1 : Tail(from)[i] = from[i + 1]
    BY LenProperties, EmptySeq, HeadTailProperties
<1>2. \A i \in 1 .. Len(from) - 1 : i + 1 \in DOMAIN from
    BY <1>1
<1>3. CasesOfScript(Tail(from))
    BY <1>1, <1>2 DEF CasesOfScript
<1> QED  BY <1>1, <1>3 DEF CasesOfScript

LEMMA AppendOfScript ==
    ASSUME NEW from \in Seq(FromJudgePacket), NEW packet \in FromJudgePacket, CasesOfScript(from),
           packet.name = "test-case-status" => packet.position \in Positions
    PROVE  CasesOfScript(Append(from, packet))
<1>1. /\ Len(from) \in Nat /\ DOMAIN from = 1 .. Len(from)
      /\ DOMAIN Append(from, packet) = 1 .. Len(from) + 1
      /\ Append(from, packet)[Len(from) + 1] = packet
      /\ \A i \in 1 .. Len(from) : Append(from, packet)[i] = from[i]
    BY LenProperties, AppendProperties
<1> QED  BY <1>1 DEF CasesOfScript

\* Every step of the bridge here is one of JudgeBridge, but for the restart.
LEMMA LifeSteps ==
    ASSUME LifeNext
    PROVE  [Next]_vars \/ Restart
<1>1. ASSUME NEW w \in Web,
             \/ WebClear(w) \/ WebUnreachable(w) \/ WebFailed(w) \/ WebAborted(w)
             \/ \E s \in Submission : WebMark(w, s)
      PROVE  UNCHANGED vars
    BY <1>1 DEF WebClear, WebUnreachable, WebFailed, WebAborted, WebMark
<1>2. ASSUME NEW w \in Web, WebRequest(w) PROVE Next
    BY <1>2 DEF WebRequest, Next
<1>3. ASSUME NEW w \in Web, NEW s \in Submission, WebAbort(w, s) PROVE Next
    BY <1>3 DEF WebAbort, Next
<1>4. ASSUME NEW h \in Handler, Thread(h) PROVE Next
    <2>1. HandlerThread(h)
        BY <1>4 DEF Thread, Quiet, Acknowledged, Progress, Final, HandlerThread
    <2> QED  BY <2>1 DEF Next
<1>5. ASSUME NEW h \in Handler, Verdict(h) PROVE UNCHANGED vars
    BY <1>5 DEF Verdict
<1>6. ASSUME NEW h \in Handler, Outside(h) PROVE Next
    BY <1>6 DEF Outside, Next
<1> QED  BY <1>1, <1>2, <1>3, <1>4, <1>5, <1>6 DEF LifeNext

\* After the restart the queue holds the markers alone.
LEMMA RestartBridgeInv ==
    ASSUME BridgeInv, Restart
    PROVE  BridgeInv'
<1>1. /\ queue' = Markers
      /\ nodeMap' = [s \in Submission |-> NoNode]
      /\ submissionMap' = [s \in Submission |-> NoJudge]
      /\ judges' = {}
      /\ phase' = [h \in Handler |-> IF phase[h] = "new" THEN "new" ELSE "gone"]
      /\ sock' = [h \in Handler |-> IF phase[h] = "new" THEN sock[h] ELSE "broken"]
      /\ working' = [h \in Handler |-> NoSub]
      /\ grading' = [h \in Handler |-> NoSub]
      /\ toJudge' = [h \in Handler |-> <<>>]
      /\ fromJudge' = [h \in Handler |-> <<>>]
      /\ wanted' = {}
      /\ UNCHANGED <<problems, rows, row, stage, requests>>
    BY DEF Restart
<1>2. Waiting' = {}
    BY <1>1 DEF Waiting
<1>3. QueueConsistent'
    BY <1>1, <1>2, MarkersQueue DEF QueueConsistent
<1>4. ListTypeOK'
    BY <1>1, MarkersQueue DEF ListTypeOK, Map, Work
<1>5. BridgeTypeOK'
    BY <1>1 DEF BridgeInv, BridgeTypeOK, Phases
<1> QED  BY <1>3, <1>4, <1>5 DEF BridgeInv, ListInv

LEMMA LifeBridgeInv == BridgeInv /\ [LifeNext]_lifeVars => BridgeInv'
<1>1. UNCHANGED lifeVars => UNCHANGED vars
    BY DEF lifeVars
<1> QED  BY <1>1, LifeSteps, NextBridgeInv, RestartBridgeInv

\* What a site process writes.
LEMMA WebStepTypes ==
    ASSUME LifeTypeInv, NEW w \in Web,
           \/ WebClear(w) \/ WebRequest(w) \/ WebUnreachable(w) \/ WebFailed(w) \/ WebAborted(w)
           \/ \E s \in Submission : WebMark(w, s) \/ WebAbort(w, s)
    PROVE  RowsTypeOK' /\ \A v \in Web : Busy(v)'
<1> USE DEF LifeTypeInv, Statuses, Idle
<1>1. ASSUME NEW s \in Submission, WebMark(w, s) PROVE RowsTypeOK' /\ \A v \in Web : Busy(v)'
    <2>1. RowsTypeOK'
        BY <1>1 DEF WebMark, SetStatus, RowsTypeOK
    <2>2. \A v \in Web : Busy(v)'
        BY <1>1, ConstantsAssumption DEF WebMark, RowsTypeOK, Busy
    <2> QED  BY <2>1, <2>2
<1>2. CASE WebClear(w)
    <2>1. web[w].step = "marked" /\ web[w].sub \in Submission
        BY <1>2 DEF WebClear, RowsTypeOK, Busy
    <2>2. RowsTypeOK'
        BY <1>2, <2>1 DEF WebClear, RowsTypeOK
    <2>3. \A v \in Web : Busy(v)'
        BY <1>2, <2>1 DEF WebClear, RowsTypeOK, Busy
    <2> QED  BY <2>2, <2>3
<1>3. CASE WebRequest(w)
    <2>1. web[w].step = "cleared" /\ web[w].sub \in Submission
        BY <1>3 DEF WebRequest, RowsTypeOK, Busy
    <2>2. /\ \/ web' = [web EXCEPT ![w] = Idle] /\ UNCHANGED disturbed
             \/ /\ web' = [web EXCEPT ![w].step = "failed"]
                /\ disturbed' = disturbed \cup {web[w].sub}
          /\ UNCHANGED <<status, cases, counted, todo, marked>>
        BY <1>3 DEF WebRequest, dbVars
    <2>3. RowsTypeOK'
        BY <2>1, <2>2 DEF RowsTypeOK
    <2>4. \A v \in Web : Busy(v)'
        BY <2>1, <2>2 DEF RowsTypeOK, Busy
    <2> QED  BY <2>3, <2>4
<1>4. ASSUME NEW v, v \in Statuses, web[w].step # "idle", SetStatus(web[w].sub, v),
             web' = [web EXCEPT ![w] = Idle], UNCHANGED <<cases, counted, todo, marked, disturbed>>
      PROVE  RowsTypeOK' /\ \A u \in Web : Busy(u)'
    <2>1. web[w].sub \in Submission
        BY <1>4 DEF RowsTypeOK, Busy
    <2>2. RowsTypeOK'
        BY <1>4, <2>1 DEF SetStatus, RowsTypeOK
    <2>3. \A u \in Web : Busy(u)'
        BY <1>4 DEF RowsTypeOK, Busy
    <2> QED  BY <2>2, <2>3
<1>5. CASE WebUnreachable(w)
    BY <1>4, <1>5 DEF WebUnreachable, GoIdle
<1>6. CASE WebFailed(w)
    BY <1>4, <1>6 DEF WebFailed, GoIdle
<1>7. CASE WebAborted(w)
    BY <1>4, <1>7 DEF WebAborted, GoIdle
<1>8. ASSUME NEW s \in Submission, WebAbort(w, s) PROVE RowsTypeOK' /\ \A v \in Web : Busy(v)'
    <2>1. /\ web' = IF submissionMap[s] # NoJudge THEN web
                    ELSE [web EXCEPT ![w] = [step |-> "unlinked", sub |-> s]]
          /\ disturbed' = disturbed \cup {s}
          /\ UNCHANGED <<status, cases, counted, todo, marked>>
        BY <1>8 DEF WebAbort, dbVars
    <2>2. RowsTypeOK'
        BY <2>1 DEF RowsTypeOK
    <2>3. \A v \in Web : Busy(v)'
        BY <2>1, ConstantsAssumption DEF RowsTypeOK, Busy
    <2> QED  BY <2>2, <2>3
<1> QED  BY <1>1, <1>2, <1>3, <1>5, <1>6, <1>7, <1>8

\* What a handler's thread writes.
LEMMA ThreadStepTypes ==
    ASSUME LifeTypeInv, NEW h \in Handler, Thread(h) \/ (Verdict(h) /\ UNCHANGED siteVars)
    PROVE  RowsTypeOK'
<1> USE DEF LifeTypeInv
<1>1. /\ fromJudge[h] \in Seq(FromJudgePacket) /\ CasesOfScript(fromJudge[h])
      /\ fromJudge[h] # <<>> => Head(fromJudge[h]) \in FromJudgePacket
    <2>1. fromJudge[h] \in Seq(FromJudgePacket) /\ CasesOfScript(fromJudge[h])
        BY DEF BridgeInv, BridgeTypeOK
    <2> QED  BY <2>1, HeadTailProperties
<1>2. CASE Quiet(h) /\ UNCHANGED siteVars
    BY <1>2 DEF Quiet, dbVars, siteVars, RowsTypeOK
<1>3. CASE Acknowledged(h) /\ UNCHANGED siteVars
    <2>1. /\ status' = [s \in Submission |->
                CASE s = Head(fromJudge[h]).id -> "P"
                  [] s = working[h] /\ s # Head(fromJudge[h]).id -> "IE"
                  [] OTHER -> status[s]]
          /\ UNCHANGED <<cases, counted, todo, web, marked, disturbed>>
        BY <1>3 DEF Acknowledged, siteVars
    <2>2. status' \in [Submission -> Statuses]
        BY <2>1 DEF RowsTypeOK, Statuses
    <2> QED  BY <2>1, <2>2 DEF RowsTypeOK
<1>4. CASE Progress(h) /\ UNCHANGED siteVars
    <2> DEFINE packet == Head(fromJudge[h])
    <2>1. /\ IF packet.name = "grading-begin"
             THEN BeginGrading(packet.id) ELSE AddCase(packet.id, packet.position)
          /\ fromJudge[h] # <<>> /\ packet.name \in {"grading-begin", "test-case-status"}
          /\ UNCHANGED <<counted, todo, web, marked, disturbed>>
        BY <1>4 DEF Progress, HandleProgress, Incoming, siteVars
    <2>2. packet.name = "test-case-status" => packet.position \in Positions
        BY <1>1, <2>1, TailOfScript
    <2> HIDE DEF packet
    <2>3. CASE BeginGrading(packet.id)
        BY <2>1, <2>3 DEF BeginGrading, SetStatus, RowsTypeOK, Statuses
    <2>4. CASE AddCase(packet.id, packet.position) /\ packet.name = "test-case-status"
        BY <2>1, <2>2, <2>4 DEF AddCase, RowsTypeOK
    <2> QED  BY <2>1, <2>3, <2>4
<1>5. CASE Final(h) /\ UNCHANGED siteVars
    <2> DEFINE packet == Head(fromJudge[h])
    <2>1. /\ todo' = IF submissionMap[packet.id] = NoJudge THEN todo
                     ELSE [todo EXCEPT ![h] = [name |-> packet.name, id |-> packet.id]]
          /\ fromJudge[h] # <<>> /\ packet.name \in FinalPackets
          /\ UNCHANGED <<status, cases, counted, web, marked, disturbed>>
        BY <1>5 DEF Final, HandleFinal, Incoming, dbVars, siteVars
    <2>2. packet \in FromJudgePacket
        BY <1>1, <2>1
    <2>3. packet.id \in Submission
        BY <2>1, <2>2, NotFinal DEF FromJudgePacket
    <2> HIDE DEF packet
    <2>4. [name |-> packet.name, id |-> packet.id] \in FinalPacket
        BY <2>1, <2>3 DEF FinalPacket
    <2>5. todo' \in [Handler -> FinalPacket \cup {NoTodo}]
        BY <2>1, <2>4 DEF RowsTypeOK
    <2> QED  BY <2>1, <2>5 DEF RowsTypeOK
<1>6. CASE Verdict(h) /\ UNCHANGED siteVars
    <2>1. /\ todo[h] # NoTodo
          /\ status' = [status EXCEPT ![todo[h].id] = VerdictStatus(todo[h].name)]
          /\ counted' = IF todo[h].name = "grading-end"
                        THEN [counted EXCEPT ![todo[h].id] = cases[todo[h].id]] ELSE counted
          /\ todo' = [todo EXCEPT ![h] = NoTodo]
          /\ UNCHANGED cases
        BY <1>6 DEF Verdict, SetStatus
    <2>2. todo[h] \in FinalPacket
        BY <2>1 DEF RowsTypeOK
    <2>3. todo[h].id \in Submission /\ todo[h].name \in FinalPackets
        BY <2>2 DEF FinalPacket
    <2>4. VerdictStatus(todo[h].name) \in Statuses
        BY <2>3, BridgeAssumption DEF VerdictStatus, FinalPackets, Statuses
    <2>5. status' \in [Submission -> Statuses]
        BY <2>1, <2>4 DEF RowsTypeOK
    <2>6. counted' \in [Submission -> SUBSET Positions] /\ todo' \in [Handler -> FinalPacket \cup {NoTodo}]
        BY <2>1, <2>3 DEF RowsTypeOK
    <2> QED  BY <1>6, <2>1, <2>5, <2>6 DEF RowsTypeOK, siteVars
<1> QED  BY <1>2, <1>3, <1>4, <1>5, <1>6 DEF Thread

\* What a judge says, and what is read of it.
LEMMA ScriptKept ==
    ASSUME LifeTypeInv, LifeNext, NEW f \in Handler
    PROVE  CasesOfScript(fromJudge'[f])
<1>1. /\ fromJudge \in [Handler -> Seq(FromJudgePacket)] /\ fromJudge[f] \in Seq(FromJudgePacket)
      /\ CasesOfScript(fromJudge[f])
      /\ stage[f] \in Nat /\ grading[f] \in Submission \cup {NoSub}
      /\ toJudge[f] \in Seq(ToJudgePacket)
    BY DEF LifeTypeInv, BridgeInv, BridgeTypeOK, ListInv, ListTypeOK
<1>2. CasesOfScript(<<>>)
    BY DEF CasesOfScript
<1>3. ASSUME NEW h \in Handler, fromJudge[h] # <<>>, fromJudge' = [fromJudge EXCEPT ![h] = Tail(@)]
      PROVE  CasesOfScript(fromJudge'[f])
    BY <1>1, <1>3, TailOfScript
<1>4. ASSUME NEW h \in Handler, NEW packet \in FromJudgePacket, Send(h, packet),
             packet.name = "test-case-status" => packet.position \in Positions
      PROVE  CasesOfScript(fromJudge'[f])
    BY <1>1, <1>4, AppendOfScript DEF Send
<1>5. ASSUME NEW w \in Web,
             \/ WebClear(w) \/ WebRequest(w) \/ WebUnreachable(w) \/ WebFailed(w) \/ WebAborted(w)
             \/ \E s \in Submission : WebMark(w, s) \/ WebAbort(w, s)
      PROVE  CasesOfScript(fromJudge'[f])
    <2>1. UNCHANGED fromJudge
        BY <1>5 DEF WebClear, WebRequest, WebUnreachable, WebFailed, WebAborted, WebMark, WebAbort,
                    SubmissionRequest, TerminationRequest, vars, judgeVars
    <2> QED  BY <1>1, <2>1
<1>6. ASSUME NEW h \in Handler, Quiet(h) PROVE CasesOfScript(fromJudge'[f])
    <2>1. CASE EndOfStream(h)
        BY <1>1, <1>2, <2>1 DEF EndOfStream
    <2>2. CASE ~EndOfStream(h)
        <3>1. UNCHANGED fromJudge
            BY <1>6, <2>2 DEF Quiet, Register, HandshakeFails, Connected, Unregister, Disconnected,
                              Requeue, judgeVars
        <3> QED  BY <1>1, <3>1
    <2> QED  BY <2>1, <2>2
<1>7. ASSUME NEW h \in Handler, Acknowledged(h) \/ Progress(h) \/ Final(h)
      PROVE  CasesOfScript(fromJudge'[f])
    BY <1>3, <1>7 DEF Acknowledged, Progress, Final, HandleAcknowledged, HandleProgress, HandleFinal,
                      Incoming
<1>8. ASSUME NEW h \in Handler, ExternalJudge(h) PROVE CasesOfScript(fromJudge'[f])
    <2>0. /\ toJudge[h] \in Seq(ToJudgePacket) /\ stage[h] \in Nat
          /\ grading[h] \in Submission \cup {NoSub}
        BY DEF LifeTypeInv, BridgeInv, BridgeTypeOK, ListInv, ListTypeOK
    <2>1. CASE JudgeStarts(h)
        <3> DEFINE packet == Reply("submission-acknowledged", Head(toJudge[h]).id, {}, 0)
        <3>1. toJudge[h] # <<>> /\ Head(toJudge[h]).name = "submission-request"
            BY <2>1 DEF JudgeStarts, Received
        <3>2. Head(toJudge[h]) \in ToJudgePacket
            BY <2>0, <3>1, HeadTailProperties
        <3>3. Head(toJudge[h]).id \in Submission
            BY <3>1, <3>2 DEF ToJudgePacket, Packet
        <3>4. packet \in FromJudgePacket /\ packet.name = "submission-acknowledged"
            BY <3>3, ReplyType DEF Reply
        <3>5. Send(h, packet)
            BY <2>1 DEF JudgeStarts
        <3> HIDE DEF packet
        <3> QED  BY <1>4, <3>4, <3>5
    <2>2. CASE JudgeProgresses(h)
        <3> DEFINE n == stage[h] + 1
                   packet == Reply(Script[n], grading[h], {}, n)
        <3>1. grading[h] \in Submission /\ stage[h] < Len(Script) /\ Send(h, packet)
            BY <2>0, <2>2 DEF JudgeProgresses
        <3>2. n \in DOMAIN Script /\ n \in Nat /\ Script[n] \in {"grading-begin", "test-case-status"}
            <4>1. /\ Script \in Seq({"grading-begin", "test-case-status"}) /\ Len(Script) \in Nat
                  /\ DOMAIN Script = 1 .. Len(Script)
                BY BridgeAssumption, LenProperties
            <4>2. n \in 1 .. Len(Script)
                BY <2>0, <3>1, <4>1
            <4> QED  BY <4>1, <4>2, ElementOfSeq
        <3>3. packet \in FromJudgePacket /\ packet.name = Script[n] /\ packet.position = n
            BY <3>1, <3>2, ReplyType DEF Reply
        <3>4. packet.name = "test-case-status" => packet.position \in Positions
            BY <3>2, <3>3 DEF Positions
        <3> HIDE DEF packet, n
        <3> QED  BY <1>4, <3>1, <3>3, <3>4
    <2>3. CASE JudgeFinishes(h)
        <3>1. PICK v \in Verdicts : Send(h, Reply(v, grading[h], {}, 0))
            BY <2>3 DEF JudgeFinishes
        <3>2. grading[h] \in Submission
            BY <2>0, <2>3 DEF JudgeFinishes
        <3>3. /\ Reply(v, grading[h], {}, 0) \in FromJudgePacket
              /\ Reply(v, grading[h], {}, 0).name # "test-case-status"
            BY <3>2, ReplyType, BridgeAssumption DEF Reply
        <3> QED  BY <1>4, <3>1, <3>3
    <2>4. CASE JudgeTerminates(h)
        <3>1. CASE grading[h] = NoSub
            BY <1>1, <2>4, <3>1 DEF JudgeTerminates
        <3>2. CASE grading[h] # NoSub
            <4>1. Send(h, Reply("submission-terminated", grading[h], {}, 0))
                BY <2>4, <3>2 DEF JudgeTerminates
            <4>2. /\ Reply("submission-terminated", grading[h], {}, 0) \in FromJudgePacket
                  /\ Reply("submission-terminated", grading[h], {}, 0).name # "test-case-status"
                BY <2>0, <3>2, ReplyType DEF Reply
            <4> QED  BY <1>4, <4>1, <4>2
        <3> QED  BY <3>1, <3>2
    <2>5. CASE JudgeLeaves(h)
        BY <1>1, <2>5 DEF JudgeLeaves
    <2> QED  BY <1>8, <2>1, <2>2, <2>3, <2>4, <2>5 DEF ExternalJudge
<1>9. ASSUME NEW h \in Handler, Outside(h) PROVE CasesOfScript(fromJudge'[f])
    <2>1. CASE ExternalJudge(h)
        BY <1>8, <2>1
    <2>2. CASE ConnectionBreaks(h) \/ \E ps \in ProblemLists : Handshake(h, ps)
        BY <1>1, <2>2 DEF ConnectionBreaks, Handshake, judgeVars
    <2> QED  BY <1>9, <2>1, <2>2 DEF Outside
<1>10. CASE Restart
    BY <1>2, <1>10 DEF Restart
<1>11. ASSUME NEW h \in Handler, Thread(h) PROVE CasesOfScript(fromJudge'[f])
    BY <1>6, <1>7, <1>11 DEF Thread
<1>12. ASSUME NEW h \in Handler, Verdict(h) PROVE CasesOfScript(fromJudge'[f])
    BY <1>1, <1>12 DEF Verdict, vars, judgeVars
<1> QED  BY <1>5, <1>9, <1>10, <1>11, <1>12 DEF LifeNext

LEMMA NextLifeTypeInv == LifeTypeInv /\ [LifeNext]_lifeVars => LifeTypeInv'
<1> SUFFICES ASSUME LifeTypeInv, [LifeNext]_lifeVars PROVE LifeTypeInv'
    OBVIOUS
<1>1. BridgeInv'
    BY LifeBridgeInv DEF LifeTypeInv
<1>2. CASE UNCHANGED lifeVars
    BY <1>1, <1>2 DEF lifeVars, vars, judgeVars, dbVars, siteVars, LifeTypeInv, RowsTypeOK, Busy, CasesOfScript
<1>3. CASE LifeNext
    <2>1. \A h \in Handler : CasesOfScript(fromJudge'[h])
        BY <1>3, ScriptKept
    <2>2. RowsTypeOK' /\ \A w \in Web : Busy(w)'
        <3>1. ASSUME NEW w \in Web,
                     \/ WebClear(w) \/ WebRequest(w) \/ WebUnreachable(w) \/ WebFailed(w)
                     \/ WebAborted(w) \/ \E s \in Submission : WebMark(w, s) \/ WebAbort(w, s)
              PROVE  RowsTypeOK' /\ \A v \in Web : Busy(v)'
            BY <3>1, WebStepTypes
        <3>2. ASSUME NEW h \in Handler, Thread(h) \/ (Verdict(h) /\ UNCHANGED siteVars)
              PROVE  RowsTypeOK' /\ \A v \in Web : Busy(v)'
            <4>1. RowsTypeOK'
                BY <3>2, ThreadStepTypes
            <4>2. UNCHANGED web
                BY <3>2 DEF Thread, siteVars
            <4> QED  BY <4>1, <4>2 DEF LifeTypeInv, Busy
        <3>3. ASSUME NEW h \in Handler, Outside(h)
              PROVE  RowsTypeOK' /\ \A v \in Web : Busy(v)'
            BY <3>3 DEF Outside, dbVars, siteVars, LifeTypeInv, RowsTypeOK, Busy
        <3>4. CASE Restart
            <4>1. /\ todo' = [h \in Handler |-> NoTodo]
                  /\ status' = [s \in Submission |-> IF s \in InProgress THEN "IE" ELSE status[s]]
                  /\ disturbed' = disturbed \cup {s \in InProgress : AtSite(s)}
                  /\ UNCHANGED <<cases, counted, web, marked>>
                BY <3>4 DEF Restart
            <4>2. RowsTypeOK'
                BY <4>1 DEF LifeTypeInv, RowsTypeOK, Statuses, InProgress
            <4> QED  BY <4>1, <4>2 DEF LifeTypeInv, Busy
        <3> QED  BY <1>3, <3>1, <3>2, <3>3, <3>4 DEF LifeNext
    <2> QED  BY <1>1, <2>1, <2>2 DEF LifeTypeInv
<1> QED  BY <1>2, <1>3

LEMMA InitLifeTypeInv == LifeInit => LifeTypeInv
<1> SUFFICES ASSUME LifeInit PROVE LifeTypeInv
    OBVIOUS
<1>1. BridgeInv
    BY InitBridgeInv DEF LifeInit
<1>2. RowsTypeOK /\ \A w \in Web : Busy(w)
    BY DEF LifeInit, RowsTypeOK, Busy, Statuses, Idle
<1>3. \A h \in Handler : CasesOfScript(fromJudge[h])
    BY DEF LifeInit, Init, CasesOfScript
<1> QED  BY <1>1, <1>2, <1>3 DEF LifeTypeInv

\* The rows, and what site processes and handlers still have to write, keep their types,
\* whatever fails in the bridge and whenever it is restarted.
THEOREM LifeTypeCorrect == LifeSpec => []LifeTypeOK
BY InitLifeTypeInv, NextLifeTypeInv, LifeTypeInvImplies, PTL DEF LifeSpec

-----------------------------------------------------------------------------
(* The bridge as it is here: the restart forgets everything.               *)

LEMMA RestartClean == CleanInv /\ Restart => CleanInv'
<1> SUFFICES ASSUME CleanInv, Restart PROVE CleanInv'
    OBVIOUS
<1>1. /\ nodeMap' = [s \in Submission |-> NoNode]
      /\ submissionMap' = [s \in Submission |-> NoJudge]
      /\ judges' = {}
      /\ phase' = [h \in Handler |-> IF phase[h] = "new" THEN "new" ELSE "gone"]
      /\ sock' = [h \in Handler |-> IF phase[h] = "new" THEN sock[h] ELSE "broken"]
      /\ working' = [h \in Handler |-> NoSub]
      /\ grading' = [h \in Handler |-> NoSub]
      /\ toJudge' = [h \in Handler |-> <<>>]
      /\ fromJudge' = [h \in Handler |-> <<>>]
      /\ wanted' = {}
      /\ rows' = rows
    BY DEF Restart
<1>2. BridgeInv' /\ NoFailures /\ rows' = Submission
    BY <1>1, RestartBridgeInv DEF CleanInv
<1>3. MapsAgree' /\ IdleInv' /\ NoLostSubmission'
    BY <1>1 DEF MapsAgree, IdleInv, NoLostSubmission
<1>4. ASSUME NEW h \in Handler PROVE ThreadInv(h)' /\ TalkInv(h)'
    <2>1. ThreadInv(h)
        BY DEF CleanInv
    <2>2. ThreadInv(h)'
        BY <1>1, <2>1 DEF ThreadInv
    <2>3. Requested(<<>>) = {} /\ Ended(<<>>) = {} /\ DOMAIN <<>> = {}
        BY DEF Requested, Ended
    <2>4. TalkInv(h)'
        BY <1>1, <2>3 DEF TalkInv, Talk
    <2> QED  BY <2>2, <2>4
<1> QED  BY <1>2, <1>3, <1>4 DEF CleanInv, NoFailures

LEMMA LifeCleanInv == CleanInv /\ [LifeNext]_lifeVars => CleanInv'
<1>1. UNCHANGED lifeVars => UNCHANGED vars
    BY DEF lifeVars
<1> QED  BY <1>1, LifeSteps, NextCleanInv, RestartClean

-----------------------------------------------------------------------------
(* The hands of the bridge a submission may be in: the queue, or a handler *)
(* that still has something to do for it.                                  *)

AtJudge(s) == {h \in Handler : working[h] = s /\ phase[h] # "gone"}

Held(s) == s \in Waiting \/ AtJudge(s) # {}

AtMostOne(S) == \A x, y \in S : x = y

OneHold(s) == AtMostOne(AtJudge(s)) /\ (s \in Waiting => AtJudge(s) = {})

\* A step that passes s from one hand of the bridge to another, or leaves it alone.
Kept(s) == (Held(s)' <=> Held(s)) /\ (OneHold(s) => OneHold(s)')

\* _handle_free_judge: nothing is taken, or one submission out of the queue.
LEMMA LookOutcome ==
    ASSUME ListInv, NoFailures, rows = Submission, NEW h \in Handler, sock[h] # "shut",
           NEW sm, NEW js, NEW w \in Work, w[h] = NoSub, HandleFreeJudge(h, sm, js, w)
    PROVE  \/ Waiting' = Waiting /\ working' = w
           \/ \E t \in Waiting : Waiting' = Waiting \ {t} /\ working' = [w EXCEPT ![h] = t]
<1>1. CASE working' = w /\ UNCHANGED nodeMap
    BY <1>1 DEF Waiting
<1>2. ASSUME NEW i \in Eligible(h), NEW outcome \in Outcomes(h, queue[i]),
             Submit(h, queue[i], outcome, w), TakeOut(h, i, outcome, js)
      PROVE  \E t \in Waiting : Waiting' = Waiting \ {t} /\ working' = [w EXCEPT ![h] = t]
    <2>1. PICK t \in Submission : t = queue[i] /\ CanJudge(h, t, nodeMap[t])
        BY DEF Eligible
    <2>2. t \in Waiting
        BY <2>1, ConstantsAssumption DEF CanJudge, JudgeId, Waiting
    <2>3. outcome = "sent"
        BY <2>1, AlwaysSent
    <2>4. working' = [w EXCEPT ![h] = t]
        BY <1>2, <2>1, <2>3, SubmitGivesWork
    <2>5. nodeMap' = [nodeMap EXCEPT ![t] = NoNode]
        BY <1>2, <2>1, <2>3 DEF TakeOut
    <2>6. Waiting' = Waiting \ {t}
        BY <2>5 DEF Waiting, ListInv, ListTypeOK
    <2> QED  BY <2>2, <2>4, <2>6
<1> QED  BY <1>1, <1>2 DEF HandleFreeJudge

\* judge: s is known, joins the queue, or goes to an idle judge.
LEMMA JudgeOutcome ==
    ASSUME CleanInv, NEW s \in Submission, NEW id \in JudgeId, NEW p \in Priority, Judge(s, id, p)
    PROVE  \/ Known(s) /\ Waiting' = Waiting /\ working' = working
           \/ ~Known(s) /\ Waiting' = Waiting \cup {s} /\ working' = working
           \/ /\ ~Known(s) /\ Waiting' = Waiting
              /\ \E f \in judges : working[f] = NoSub /\ working' = [working EXCEPT ![f] = s]
<1>1. ListInv /\ NoFailures /\ rows = Submission /\ judges \subseteq Handler /\ working \in Work
    BY DEF CleanInv, BridgeInv, ListInv, ListTypeOK
<1>2. CASE Known(s) /\ UNCHANGED <<listVars, working, toJudge>>
    BY <1>2 DEF listVars, Waiting
<1>3. CASE /\ ~Known(s) /\ nodeMap' = [nodeMap EXCEPT ![s] = id]
           /\ UNCHANGED <<submissionMap, judges, working, toJudge>>
    <2>1. id # NoNode
        BY ConstantsAssumption
    <2>2. Waiting' = Waiting \cup {s}
        BY <1>1, <1>3, <2>1 DEF Waiting, ListInv, ListTypeOK
    <2> QED  BY <1>3, <2>2
<1>4. ASSUME ~Known(s), NEW h \in Candidates(s, id), NEW outcome \in Outcomes(h, s),
             Submit(h, s, outcome, working), UNCHANGED <<queue, nodeMap>>
      PROVE  /\ Waiting' = Waiting
             /\ \E f \in judges : working[f] = NoSub /\ working' = [working EXCEPT ![f] = s]
    <2>1. h \in judges /\ h \in Handler /\ working[h] = NoSub
        BY <1>1 DEF Candidates
    <2>2. sock[h] # "shut"
        BY <2>1 DEF CleanInv, ThreadInv
    <2>3. outcome = "sent"
        BY <1>1, <2>1, <2>2, AlwaysSent
    <2>4. working' = [working EXCEPT ![h] = s]
        BY <1>1, <1>4, <2>1, <2>3, SubmitGivesWork
    <2> QED  BY <1>4, <2>1, <2>4 DEF Waiting
<1> QED  BY <1>2, <1>3, <1>4 DEF Judge

\* What is known to the bridge is in its hands.
LEMMA KnownHeld ==
    ASSUME CleanInv, NEW s \in Submission, Known(s)
    PROVE  s \in Waiting \/ \E f \in judges : working[f] = s
BY DEF CleanInv, Known, Waiting, MapsAgree

\* Nothing moves, except that threads with no work come to their end.
LEMMA StillHands ==
    ASSUME UNCHANGED <<nodeMap, working>>, NEW s \in Submission,
           \A f \in Handler : working[f] = NoSub \/ (phase'[f] = "gone" <=> phase[f] = "gone")
    PROVE  /\ Waiting' = Waiting /\ AtJudge(s)' = AtJudge(s)
           /\ Kept(s)
<1>1. s # NoSub
    BY ConstantsAssumption
<1>2. Waiting' = Waiting /\ AtJudge(s)' = AtJudge(s)
    BY <1>1 DEF Waiting, AtJudge
<1> QED  BY <1>2 DEF Kept, Held, OneHold

\* The free judge h takes t out of the queue; so far its work is w.
LEMMA TakenHands ==
    ASSUME NEW h \in Handler, NEW w \in Work, w[h] = NoSub, phase'[h] # "gone",
           \A f \in Handler \ {h} : w[f] = working[f],
           \A f \in Handler : w[f] = NoSub \/ (phase'[f] = "gone" <=> phase[f] = "gone"),
           \/ Waiting' = Waiting /\ working' = w
           \/ \E t \in Waiting : Waiting' = Waiting \ {t} /\ working' = [w EXCEPT ![h] = t],
           NEW s \in Submission
    PROVE  /\ working[h] # s => Kept(s)
           /\ working[h] = s /\ OneHold(s) => OneHold(s)' /\ (phase[h] # "gone" => ~Held(s)')
<1> DEFINE rest == AtJudge(s) \ {h}
<1>1. s # NoSub /\ Waiting \subseteq Submission
    BY ConstantsAssumption DEF Waiting
<1>2. rest = {f \in Handler : w[f] = s /\ phase'[f] # "gone"}
    BY <1>1 DEF AtJudge
<1>3. CASE Waiting' = Waiting /\ working' = w
    <2>1. AtJudge(s)' = rest
        BY <1>2, <1>3 DEF AtJudge
    <2>2. working[h] # s => AtJudge(s)' = AtJudge(s)
        BY <2>1 DEF AtJudge
    <2>3. working[h] = s /\ phase[h] # "gone" => h \in AtJudge(s)
        BY DEF AtJudge
    <2> HIDE DEF rest
    <2>4. working[h] # s => Kept(s)
        BY <1>3, <2>2 DEF Kept, Held, OneHold
    <2>5. OneHold(s) => OneHold(s)'
        BY <1>3, <2>1 DEF OneHold, AtMostOne, rest
    <2>6. OneHold(s) /\ h \in AtJudge(s) => ~Held(s)'
        BY <1>3, <2>1 DEF OneHold, AtMostOne, Held, rest
    <2> QED  BY <2>3, <2>4, <2>5, <2>6
<1>4. ASSUME NEW t \in Waiting, Waiting' = Waiting \ {t}, working' = [w EXCEPT ![h] = t]
      PROVE  /\ working[h] # s => Kept(s)
             /\ working[h] = s /\ OneHold(s) => OneHold(s)' /\ (phase[h] # "gone" => ~Held(s)')
    <2>1. working'[h] = t /\ \A f \in Handler \ {h} : working'[f] = w[f]
        BY <1>4 DEF Work
    <2>2. CASE s = t
        <3>1. AtJudge(s)' = rest \cup {h}
            BY <1>2, <2>1, <2>2 DEF AtJudge
        <3>2. s \in Waiting /\ s \notin Waiting'
            BY <1>4, <2>2
        <3>3. working[h] = s /\ phase[h] # "gone" => h \in AtJudge(s)
            BY DEF AtJudge
        <3>4. OneHold(s) => AtJudge(s) = {}
            BY <3>2 DEF OneHold
        <3>5. OneHold(s) => AtJudge(s)' = {h}
            BY <3>1, <3>4
        <3>6. OneHold(s) => OneHold(s)'
            BY <3>2, <3>5 DEF OneHold, AtMostOne
        <3>7. Held(s) /\ Held(s)'
            BY <3>1, <3>2 DEF Held
        <3> QED  BY <3>3, <3>4, <3>6, <3>7 DEF Kept
    <2>3. CASE s # t
        <3>1. AtJudge(s)' = rest
            BY <1>2, <2>1, <2>3 DEF AtJudge
        <3>2. s \in Waiting' <=> s \in Waiting
            BY <1>4, <2>3
        <3>3. working[h] # s => AtJudge(s)' = AtJudge(s)
            BY <3>1 DEF AtJudge
        <3>4. working[h] = s /\ phase[h] # "gone" => h \in AtJudge(s)
            BY DEF AtJudge
        <3> HIDE DEF rest
        <3>5. working[h] # s => Kept(s)
            BY <3>2, <3>3 DEF Kept, Held, OneHold
        <3>6. OneHold(s) => OneHold(s)'
            BY <3>1, <3>2 DEF OneHold, AtMostOne, rest
        <3>7. OneHold(s) /\ h \in AtJudge(s) => ~Held(s)'
            BY <3>1, <3>2 DEF OneHold, AtMostOne, Held, rest
        <3> QED  BY <3>4, <3>5, <3>6, <3>7
    <2> QED  BY <2>2, <2>3
<1> QED  BY <1>3, <1>4

\* judge: s ends up in a hand, and in one only if the threads that gave it up were its only
\* hands; other submissions stay where they are.
LEMMA JudgeHands ==
    ASSUME CleanInv, NEW s \in Submission, NEW id \in JudgeId, NEW p \in Priority, Judge(s, id, p),
           \A f \in Handler : \/ phase'[f] = phase[f]
                              \/ phase[f] = "offline" /\ phase'[f] = "gone" /\ working[f] = s
    PROVE  /\ Held(s)'
           /\ s \notin Waiting /\ (\A f \in AtJudge(s) : phase'[f] = "gone") => OneHold(s)'
           /\ \A t \in Submission \ {s} : Kept(t)
<1>1. /\ working \in Work /\ judges \subseteq Handler /\ NoSub \notin Submission
      /\ \A f \in Handler : ThreadInv(f)
    BY ConstantsAssumption DEF CleanInv, BridgeInv, ListInv, ListTypeOK
<1>2. \A f \in judges : phase[f] # "gone" /\ phase'[f] = phase[f]
    BY <1>1 DEF ThreadInv
<1> DEFINE rest(t) == {f \in Handler : working[f] = t /\ phase'[f] # "gone"}
<1>3. /\ \A t \in Submission \ {s} : rest(t) = AtJudge(t)
      /\ (\A f \in AtJudge(s) : phase'[f] = "gone") => rest(s) = {}
    BY DEF AtJudge
<1>4. CASE Known(s) /\ Waiting' = Waiting /\ working' = working
    <2>1. \A t \in Submission : AtJudge(t)' = rest(t)
        BY <1>4 DEF AtJudge
    <2>2. s \in Waiting \/ rest(s) # {}
        <3>1. s \in Waiting \/ \E f \in judges : working[f] = s
            BY <1>4, KnownHeld
        <3> QED  BY <1>1, <1>2, <3>1
    <2> HIDE DEF rest
    <2>3. Held(s)' /\ \A t \in Submission \ {s} : Kept(t)
        BY <1>3, <1>4, <2>1, <2>2 DEF Held, Kept, OneHold
    <2>4. s \notin Waiting /\ (\A f \in AtJudge(s) : phase'[f] = "gone") => FALSE
        BY <1>3, <2>2
    <2> QED  BY <2>3, <2>4
<1>5. CASE Waiting' = Waiting \cup {s} /\ working' = working
    <2>1. \A t \in Submission : AtJudge(t)' = rest(t)
        BY <1>5 DEF AtJudge
    <2> HIDE DEF rest
    <2>2. Held(s)' /\ \A t \in Submission \ {s} : Kept(t)
        BY <1>3, <1>5, <2>1 DEF Held, Kept, OneHold
    <2>3. (\A f \in AtJudge(s) : phase'[f] = "gone") => OneHold(s)'
        BY <1>3, <2>1 DEF OneHold, AtMostOne
    <2> QED  BY <2>2, <2>3
<1>6. ASSUME Waiting' = Waiting, NEW f \in judges, working[f] = NoSub,
             working' = [working EXCEPT ![f] = s]
      PROVE  /\ Held(s)'
             /\ s \notin Waiting /\ (\A g \in AtJudge(s) : phase'[g] = "gone") => OneHold(s)'
             /\ \A t \in Submission \ {s} : Kept(t)
    <2>1. AtJudge(s)' = rest(s) \cup {f}
        BY <1>1, <1>2, <1>6 DEF AtJudge, Work
    <2>2. ASSUME NEW t \in Submission \ {s} PROVE AtJudge(t)' = rest(t)
        BY <1>1, <1>6 DEF AtJudge, Work
    <2> HIDE DEF rest
    <2>3. Held(s)' /\ \A t \in Submission \ {s} : Kept(t)
        BY <1>3, <1>6, <2>1, <2>2 DEF Held, Kept, OneHold
    <2>4. s \notin Waiting /\ (\A g \in AtJudge(s) : phase'[g] = "gone") => OneHold(s)'
        BY <1>3, <1>6, <2>1 DEF OneHold, AtMostOne
    <2> QED  BY <2>3, <2>4
<1> QED  BY <1>4, <1>5, <1>6, JudgeOutcome

\* abort(s): s may leave the queue.
LEMMA AbortHands ==
    ASSUME CleanInv, NEW s \in Submission, Abort(s), UNCHANGED phase
    PROVE  /\ \A t \in Submission \ {s} : Kept(t)
           /\ submissionMap[s] # NoJudge => Kept(s)
           /\ OneHold(s) => OneHold(s)'
           /\ Held(s)' => Held(s)
<1>1. working' = working /\ nodeMap \in [Submission -> JudgeId \cup {NoNode}]
    BY DEF Abort, CleanInv, BridgeInv, ListInv, ListTypeOK
<1>2. nodeMap' = nodeMap \/ (submissionMap[s] = NoJudge /\ nodeMap' = [nodeMap EXCEPT ![s] = NoNode])
    BY DEF Abort
<1>3. \A t \in Submission : AtJudge(t)' = AtJudge(t)
    BY <1>1 DEF AtJudge
<1>4. CASE nodeMap' = nodeMap
    <2>1. Waiting' = Waiting
        BY <1>4 DEF Waiting
    <2> QED  BY <1>3, <2>1 DEF Kept, Held, OneHold
<1>5. CASE submissionMap[s] = NoJudge /\ nodeMap' = [nodeMap EXCEPT ![s] = NoNode]
    <2>1. Waiting' = Waiting \ {s}
        BY <1>1, <1>5 DEF Waiting
    <2> QED  BY <1>3, <1>5, <2>1 DEF Kept, Held, OneHold
<1> QED  BY <1>2, <1>4, <1>5

\* A handler hears the last of its submission.
LEMMA FinalHands ==
    ASSUME CleanInv, NEW h \in Handler, HandleFinal(h), NEW s, s = Head(fromJudge[h]).id
    PROVE  /\ s = working[h] /\ s \in Submission /\ submissionMap[s] = h /\ h \in AtJudge(s)
           /\ \A t \in Submission \ {s} : Kept(t)
           /\ OneHold(s) => ~Held(s)'
           /\ \A f \in Handler \ {h} : working'[f] = working[f]
<1> DEFINE sm == [submissionMap EXCEPT ![s] = NoJudge]
           w == [working EXCEPT ![h] = NoSub]
<1>1. /\ BridgeInv /\ MapsAgree /\ ThreadInv(h) /\ TalkInv(h) /\ NoFailures /\ rows = Submission
      /\ ListInv /\ working \in Work /\ judges \in SUBSET Handler
      /\ fromJudge[h] \in Seq(FromJudgePacket)
    BY DEF CleanInv, BridgeInv, BridgeTypeOK, ListInv, ListTypeOK
<1>2. /\ phase[h] = "up" /\ fromJudge[h] # <<>> /\ Head(fromJudge[h]).name \in FinalPackets
      /\ OnJudgeFree(h, s) /\ UNCHANGED phase
    BY DEF HandleFinal, Incoming
<1>3. s = working[h] /\ working[h] # NoSub
    <2>1. Talk(toJudge[h], fromJudge[h], working[h], grading[h], sock[h])
        BY <1>1 DEF TalkInv
    <2> QED  BY <1>1, <1>2, <2>1, EndTalk
<1>4. h \in judges /\ working[h] \in Submission /\ sock[h] # "shut"
    BY <1>1, <1>2, <1>3 DEF ThreadInv, Work
<1>5. submissionMap[s] = h /\ h # NoJudge
    BY <1>1, <1>3, <1>4, ConstantsAssumption DEF MapsAgree
<1>6. HandleFreeJudge(h, sm, judges, w)
    BY <1>2, <1>5 DEF OnJudgeFree
<1>7. w \in Work /\ w[h] = NoSub /\ \A f \in Handler \ {h} : w[f] = working[f]
    BY <1>1 DEF Work
<1> HIDE DEF sm, w
<1>8. \/ Waiting' = Waiting /\ working' = w
      \/ \E t \in Waiting : Waiting' = Waiting \ {t} /\ working' = [w EXCEPT ![h] = t]
    BY <1>1, <1>4, <1>6, <1>7, LookOutcome
<1>9. ASSUME NEW t \in Submission
      PROVE  /\ working[h] # t => Kept(t)
             /\ working[h] = t /\ OneHold(t) => ~Held(t)'
    BY <1>2, <1>7, <1>8, TakenHands
<1>10. h \in AtJudge(s)
    BY <1>2, <1>3 DEF AtJudge
<1>11. \A f \in Handler \ {h} : working'[f] = working[f]
    BY <1>7, <1>8 DEF Work
<1> QED  BY <1>2, <1>3, <1>4, <1>5, <1>9, <1>10, <1>11

\* The other steps of a handler's thread pass submissions on, or leave them alone.
LEMMA QuietHands ==
    ASSUME CleanInv, NEW h \in Handler, Quiet(h), NEW s \in Submission
    PROVE  Kept(s)
<1>1. /\ ListInv /\ NoFailures /\ rows = Submission /\ working \in Work
      /\ phase \in [Handler -> Phases] /\ ThreadInv(h) /\ NoSub \notin Submission
    BY ConstantsAssumption DEF CleanInv, BridgeInv, BridgeTypeOK, ListInv, ListTypeOK
<1>2. CASE Register(h)
    <2>1. /\ phase[h] = "named" /\ phase' = [phase EXCEPT ![h] = "registered"]
          /\ HandleFreeJudge(h, submissionMap, judges \cup {h}, working)
        BY <1>2 DEF Register, GoTo, RegisterJudge
    <2>2. working[h] = NoSub /\ sock[h] # "shut"
        BY <1>1, <2>1 DEF ThreadInv
    <2> DEFINE sm == submissionMap
               js == judges \cup {h}
    <2>3. HandleFreeJudge(h, sm, js, working)
        BY <2>1
    <2> HIDE DEF sm, js
    <2>4. \/ Waiting' = Waiting /\ working' = working
          \/ \E t \in Waiting : Waiting' = Waiting \ {t} /\ working' = [working EXCEPT ![h] = t]
        BY <1>1, <2>2, <2>3, LookOutcome
    <2>5. phase'[h] # "gone" /\ \A f \in Handler : phase'[f] = "gone" <=> phase[f] = "gone"
        BY <1>1, <2>1
    <2>6. working[h] # s
        BY <1>1, <2>2
    <2> QED  BY <1>1, <2>2, <2>4, <2>5, <2>6, TakenHands
<1>3. ASSUME HandshakeFails(h) \/ Connected(h) \/ EndOfStream(h) \/ Unregister(h) \/ Disconnected(h)
      PROVE  Kept(s)
    <2>1. UNCHANGED <<nodeMap, working>>
        BY <1>3 DEF HandshakeFails, Connected, EndOfStream, Unregister, Disconnected, RemoveJudge,
                    listVars, handlerVars
    <2>2. phase[h] # "gone" /\ \A f \in Handler \ {h} : phase'[f] = phase[f]
        BY <1>1, <1>3 DEF HandshakeFails, Connected, EndOfStream, Unregister, Disconnected, GoTo
    <2>3. phase'[h] = "gone" => working[h] = NoSub
        BY <1>1, <1>3 DEF HandshakeFails, Connected, EndOfStream, Unregister, Disconnected, GoTo,
                          NoFailures, ThreadInv
    <2> QED  BY <2>1, <2>2, <2>3, StillHands
<1>4. CASE Requeue(h)
    <2>1. phase[h] = "offline" /\ phase' = [phase EXCEPT ![h] = "gone"]
        BY <1>4 DEF Requeue, GoTo
    <2>2. phase'[h] = "gone" /\ \A f \in Handler \ {h} : phase'[f] = phase[f]
        BY <1>1, <2>1
    <2>3. CASE working[h] = NoSub
        <3>1. UNCHANGED <<nodeMap, working>>
            BY <1>4, <2>3 DEF Requeue, listVars, handlerVars
        <3> QED  BY <2>2, <2>3, <3>1, StillHands
    <2>4. ASSUME NEW t \in Submission, working[h] = t PROVE Kept(s)
        <3>1. AnyJudge \in JudgeId /\ 0 \in Priority /\ t # NoSub
            BY <1>1, ConstantsAssumption DEF JudgeId, Priority
        <3>2. Judge(t, AnyJudge, 0)
            BY <1>4, <2>4, <3>1 DEF Requeue
        <3>3. \A f \in Handler : \/ phase'[f] = phase[f]
                                 \/ phase[f] = "offline" /\ phase'[f] = "gone" /\ working[f] = t
            BY <2>1, <2>2, <2>4
        <3>4. /\ Held(t)'
              /\ t \notin Waiting /\ (\A f \in AtJudge(t) : phase'[f] = "gone") => OneHold(t)'
              /\ \A u \in Submission \ {t} : Kept(u)
            BY <3>1, <3>2, <3>3, JudgeHands
        <3>5. h \in AtJudge(t) /\ Held(t)
            BY <2>1, <2>4 DEF AtJudge, Held
        <3>6. OneHold(t) => t \notin Waiting /\ \A f \in AtJudge(t) : phase'[f] = "gone"
            BY <2>2, <3>5 DEF OneHold, AtMostOne
        <3> QED  BY <3>4, <3>5, <3>6 DEF Kept
    <2>5. working[h] = NoSub \/ working[h] \in Submission
        BY <1>1 DEF Work
    <2> QED  BY <2>3, <2>4, <2>5
<1> QED  BY <1>2, <1>3, <1>4 DEF Quiet

\* What happens outside, and progress, moves nothing.
LEMMA OutsideHands ==
    ASSUME CleanInv, NEW h \in Handler, Outside(h) \/ Acknowledged(h) \/ Progress(h),
           NEW s \in Submission
    PROVE  AtJudge(s)' = AtJudge(s) /\ Kept(s)
<1>1. UNCHANGED <<nodeMap, working>>
    BY DEF Outside, ExternalJudge, JudgeStarts, JudgeProgresses, JudgeFinishes, JudgeTerminates,
           JudgeLeaves, ConnectionBreaks, Handshake, Acknowledged, Progress, HandleAcknowledged,
           HandleProgress, listVars, handlerVars
<1>2. \A f \in Handler : phase'[f] = "gone" <=> phase[f] = "gone"
    <2>1. phase \in [Handler -> Phases]
        BY DEF CleanInv, BridgeInv, BridgeTypeOK
    <2> QED
        BY <2>1 DEF Outside, ExternalJudge, JudgeStarts, JudgeProgresses, JudgeFinishes,
           JudgeTerminates, JudgeLeaves, ConnectionBreaks, Handshake, GoTo, Acknowledged, Progress,
           HandleAcknowledged, HandleProgress
<1> QED  BY <1>1, <1>2, StillHands

-----------------------------------------------------------------------------
(* What is queued or in progress is in some hand.                          *)

OwedBy(s) == {h \in Handler : todo[h] # NoTodo /\ todo[h].id = s}

Sites(s) == {w \in Web : web[w].sub = s}

UnlinkedBy(s) == {w \in Web : web[w] = [step |-> "unlinked", sub |-> s]}

Handled(s) ==
    /\ status[s] \in {"P", "G"} => Held(s) \/ OwedBy(s) # {} \/ UnlinkedBy(s) # {}
    /\ s \in marked /\ status[s] = "QU" => Held(s) \/ OwedBy(s) # {} \/ Sites(s) # {}

HandledInv == LifeTypeInv /\ CleanInv /\ \A s \in Submission : Handled(s)

LEMMA HandledMeans ==
    ASSUME LifeTypeInv
    PROVE  (\A s \in Submission : Handled(s)) <=> InProgressIsHandled /\ QueuedIsHandled
<1>1. \A s \in Submission : AtBridge(s) <=> Held(s) \/ OwedBy(s) # {}
    BY DEF AtBridge, Held, AtJudge, OwedBy
<1>2. \A s \in Submission : AtSite(s) <=> Sites(s) # {}
    BY DEF AtSite, Sites
<1>3. \A s \in Submission :
         UnlinkedBy(s) # {} <=> \E w \in Web : web[w] = [step |-> "unlinked", sub |-> s]
    BY DEF UnlinkedBy
<1>4. marked \subseteq Submission
    BY DEF LifeTypeInv, RowsTypeOK
<1> QED  BY <1>1, <1>2, <1>3, <1>4 DEF Handled, InProgressIsHandled, QueuedIsHandled

\* The hands outside the bridge's list do not let go of s.
StillOwed(s) == OwedBy(s) # {} => OwedBy(s)' # {}

StillAtSite(s) == Sites(s) \subseteq Sites(s)' /\ UnlinkedBy(s) \subseteq UnlinkedBy(s)'

LEMMA StaysHandled ==
    ASSUME NEW s, Handled(s), Held(s) => Held(s)', StillOwed(s), StillAtSite(s),
           status'[s] = status[s], s \in marked' => s \in marked
    PROVE  Handled(s)'
BY DEF Handled, StillOwed, StillAtSite

\* What s is in the hands of the bridge for does not matter.
LEMMA InHandHandled ==
    ASSUME NEW s, Held(s)' \/ OwedBy(s)' # {}
    PROVE  Handled(s)'
BY DEF Handled

LEMMA EndedHandled ==
    ASSUME NEW s, status'[s] \in {"D", "IE", "CE", "AB"}
    PROVE  Handled(s)'
BY DEF Handled

\* A step of a site process leaves the others at their work.
LEMMA OtherSites ==
    ASSUME LifeTypeInv, NEW w \in Web, NEW r, web' = [web EXCEPT ![w] = r], NEW t \in Submission
    PROVE  /\ web[w].sub # t => StillAtSite(t)
           /\ r.sub = t /\ web[w].step # "unlinked" => StillAtSite(t)
           /\ r.sub = t => Sites(t)' # {}
           /\ r = [step |-> "unlinked", sub |-> t] => UnlinkedBy(t)' # {}
<1>1. web'[w] = r /\ \A v \in Web \ {w} : web'[v] = web[v]
    BY DEF LifeTypeInv, RowsTypeOK
<1>2. web[w].sub # t => StillAtSite(t)
    BY <1>1 DEF StillAtSite, Sites, UnlinkedBy
<1>3. r.sub = t /\ web[w].step # "unlinked" => StillAtSite(t)
    BY <1>1 DEF StillAtSite, Sites, UnlinkedBy
<1>4. r.sub = t => Sites(t)' # {}
    BY <1>1 DEF Sites
<1>5. r = [step |-> "unlinked", sub |-> t] => UnlinkedBy(t)' # {}
    BY <1>1 DEF UnlinkedBy
<1> QED  BY <1>2, <1>3, <1>4, <1>5

LEMMA SameHands ==
    ASSUME UNCHANGED vars, NEW t
    PROVE  Held(t) => Held(t)'
BY DEF vars, listVars, handlerVars, Held, Waiting, AtJudge

LEMMA WebHandled ==
    ASSUME HandledInv, NEW w \in Web,
           \/ WebClear(w) \/ WebRequest(w) \/ WebUnreachable(w) \/ WebFailed(w) \/ WebAborted(w)
           \/ \E s \in Submission : WebMark(w, s) \/ WebAbort(w, s),
           NEW t \in Submission
    PROVE  Handled(t)'
<1> USE DEF HandledInv
<1>1. /\ status \in [Submission -> Statuses] /\ Handled(t) /\ NoSub \notin Submission
      /\ web[w].step # "idle" => web[w].sub \in Submission
    BY ConstantsAssumption DEF LifeTypeInv, RowsTypeOK, Busy
<1>2. ASSUME UNCHANGED todo PROVE StillOwed(t)
    BY <1>2 DEF StillOwed, OwedBy
<1>3. ASSUME NEW s \in Submission, WebMark(w, s) PROVE Handled(t)'
    <2>1. /\ web[w] = Idle /\ web' = [web EXCEPT ![w] = [step |-> "marked", sub |-> s]]
          /\ status' = [status EXCEPT ![s] = "QU"] /\ marked' = marked \cup {s}
          /\ UNCHANGED vars /\ UNCHANGED todo
        BY <1>3 DEF WebMark, SetStatus
    <2> DEFINE r == [step |-> "marked", sub |-> s]
    <2>2. StillAtSite(t) /\ (s = t => Sites(t)' # {})
        <3>1. web[w].sub # t /\ r.sub = s /\ web' = [web EXCEPT ![w] = r]
            BY <1>1, <2>1 DEF Idle
        <3> HIDE DEF r
        <3> QED  BY <3>1, OtherSites
    <2>3. CASE s = t
        BY <1>1, <2>1, <2>2, <2>3 DEF Handled
    <2>4. CASE s # t
        BY <1>1, <1>2, <2>1, <2>2, <2>4, StaysHandled, SameHands
    <2> QED  BY <2>3, <2>4
<1>4. CASE WebClear(w)
    <2>1. /\ web[w].step = "marked" /\ web' = [web EXCEPT ![w].step = "cleared"]
          /\ UNCHANGED <<vars, status, todo, marked>>
        BY <1>4 DEF WebClear
    <2>2. web' = [web EXCEPT ![w] = [web[w] EXCEPT !.step = "cleared"]]
        BY <2>1
    <2>3. [web[w] EXCEPT !.step = "cleared"].sub = web[w].sub
        BY DEF LifeTypeInv, RowsTypeOK
    <2>4. StillAtSite(t)
        BY <2>1, <2>2, <2>3, OtherSites
    <2> QED  BY <1>1, <1>2, <2>1, <2>4, StaysHandled, SameHands
<1>5. CASE WebRequest(w)
    <2>1. PICK s \in Submission : s = web[w].sub
        BY <1>1, <1>5 DEF WebRequest
    <2>2. PICK r \in Requests : r.id = s /\ SubmissionRequest(r)
        BY <1>5, <2>1 DEF WebRequest
    <2>3. Judge(s, r.judge, r.priority) /\ r.judge \in JudgeId /\ r.priority \in Priority /\ phase' = phase
        BY <2>2, BridgeAssumption DEF SubmissionRequest
    <2>4. Held(s)' /\ \A u \in Submission \ {s} : Kept(u)
        BY <2>1, <2>3, JudgeHands
    <2>5. UNCHANGED <<status, todo, marked>>
        BY <1>5 DEF WebRequest, dbVars
    <2>6. CASE s = t
        BY <2>4, <2>6, InHandHandled
    <2>7. CASE s # t
        <3>1. \E q : web' = [web EXCEPT ![w] = q]
            BY <1>5 DEF WebRequest
        <3>2. StillAtSite(t)
            BY <2>1, <2>7, <3>1, OtherSites
        <3>3. Held(t) => Held(t)'
            BY <2>4, <2>7 DEF Kept
        <3> QED  BY <1>1, <1>2, <2>5, <3>2, <3>3, StaysHandled
    <2> QED  BY <2>6, <2>7
<1>6. ASSUME NEW v \in {"IE", "AB"}, SetStatus(web[w].sub, v), web[w].step # "idle",
             web' = [web EXCEPT ![w] = Idle], UNCHANGED vars, UNCHANGED todo, UNCHANGED marked
      PROVE  Handled(t)'
    <2>1. CASE web[w].sub = t
        BY <1>1, <1>6, <2>1, EndedHandled DEF SetStatus
    <2>2. CASE web[w].sub # t
        <3>1. status'[t] = status[t]
            BY <1>1, <1>6, <2>2 DEF SetStatus
        <3>2. StillAtSite(t)
            BY <1>6, <2>2, OtherSites
        <3> QED  BY <1>1, <1>2, <1>6, <3>1, <3>2, StaysHandled, SameHands
    <2> QED  BY <2>1, <2>2
<1>7. CASE WebUnreachable(w) \/ WebFailed(w)
    BY <1>6, <1>7 DEF WebUnreachable, WebFailed, GoIdle
<1>8. CASE WebAborted(w)
    BY <1>6, <1>8 DEF WebAborted, GoIdle
<1>9. ASSUME NEW s \in Submission, WebAbort(w, s) PROVE Handled(t)'
    <2>1. /\ web[w] = Idle /\ Abort(s) /\ UNCHANGED <<phase, status, todo, marked>>
          /\ web' = IF submissionMap[s] # NoJudge THEN web
                    ELSE [web EXCEPT ![w] = [step |-> "unlinked", sub |-> s]]
        BY <1>9 DEF WebAbort, TerminationRequest, dbVars
    <2>2. /\ \A u \in Submission \ {s} : Kept(u)
          /\ submissionMap[s] # NoJudge => Kept(s)
        BY <2>1, AbortHands
    <2> DEFINE r == [step |-> "unlinked", sub |-> s]
    <2>3. StillAtSite(t) /\ (s = t /\ web' # web => Sites(t)' # {} /\ UnlinkedBy(t)' # {})
        <3>1. CASE web' = web
            BY <3>1 DEF StillAtSite, Sites, UnlinkedBy
        <3>2. CASE web' = [web EXCEPT ![w] = r]
            <4>1. web[w].sub # t /\ r.sub = s /\ (s = t => r = [step |-> "unlinked", sub |-> t])
                BY <1>1, <2>1 DEF Idle
            <4> HIDE DEF r
            <4> QED  BY <3>2, <4>1, OtherSites
        <3> QED  BY <2>1, <3>1, <3>2
    <2>4. CASE s # t \/ submissionMap[s] # NoJudge
        <3>1. Held(t) => Held(t)'
            BY <2>2, <2>4 DEF Kept
        <3> QED  BY <1>1, <1>2, <2>1, <2>3, <3>1, StaysHandled
    <2>5. CASE s = t /\ submissionMap[s] = NoJudge
        <3>1. web'[w] = [step |-> "unlinked", sub |-> s]
            BY <2>1, <2>5 DEF LifeTypeInv, RowsTypeOK
        <3>2. web' # web
            BY <2>1, <3>1 DEF Idle
        <3> QED  BY <2>3, <2>5, <3>2 DEF Handled
    <2> QED  BY <2>4, <2>5
<1> QED  BY <1>3, <1>4, <1>5, <1>7, <1>8, <1>9

LEMMA HandlerHandled ==
    ASSUME HandledInv, NEW h \in Handler,
           Thread(h) \/ (Verdict(h) /\ UNCHANGED siteVars) \/ Outside(h), NEW t \in Submission
    PROVE  Handled(t)'
<1> USE DEF HandledInv
<1>1. /\ status \in [Submission -> Statuses] /\ Handled(t)
      /\ todo \in [Handler -> FinalPacket \cup {NoTodo}]
    BY DEF LifeTypeInv, RowsTypeOK
<1>2. UNCHANGED marked /\ StillAtSite(t)
    <2>1. UNCHANGED <<web, marked>>
        BY DEF Thread, Outside, siteVars
    <2> QED  BY <2>1 DEF StillAtSite, Sites, UnlinkedBy
<1>3. ASSUME UNCHANGED todo PROVE StillOwed(t)
    BY <1>3 DEF StillOwed, OwedBy
<1>4. CASE Quiet(h)
    <2>1. Kept(t) /\ UNCHANGED <<status, todo>>
        BY <1>4, QuietHands DEF Quiet, dbVars
    <2>2. Held(t) => Held(t)'
        BY <2>1 DEF Kept
    <2> QED  BY <1>1, <1>2, <1>3, <2>1, <2>2, StaysHandled
<1>5. CASE Outside(h)
    <2>1. Kept(t) /\ UNCHANGED <<status, todo>>
        BY <1>5, OutsideHands DEF Outside, dbVars
    <2>2. Held(t) => Held(t)'
        BY <2>1 DEF Kept
    <2> QED  BY <1>1, <1>2, <1>3, <2>1, <2>2, StaysHandled
<1>6. CASE Acknowledged(h) \/ Progress(h)
    <2>1. /\ phase[h] = "up" /\ fromJudge[h] # <<>> /\ UNCHANGED todo
          /\ Head(fromJudge[h]).name \in {"submission-acknowledged", "grading-begin", "test-case-status"}
        BY <1>6 DEF Acknowledged, Progress, HandleAcknowledged, HandleProgress, Incoming
    <2>2. Head(fromJudge[h]).id = working[h]
        BY <2>1, NotFinal, Heard
    <2>3. Kept(t)
        BY <1>6, OutsideHands
    <2>4. Held(t) => Held(t)'
        BY <2>3 DEF Kept
    <2>5. CASE working[h] = t
        <3>1. h \in AtJudge(t)
            BY <2>1, <2>5 DEF AtJudge
        <3> QED  BY <2>4, <3>1, InHandHandled DEF Held
    <2>6. CASE working[h] # t
        <3>1. status'[t] = status[t]
            BY <1>1, <1>6, <2>2, <2>6 DEF Acknowledged, Progress, BeginGrading, AddCase, SetStatus
        <3> QED  BY <1>1, <1>2, <1>3, <2>1, <2>4, <3>1, StaysHandled
    <2> QED  BY <2>5, <2>6
<1>7. CASE todo[h] = NoTodo /\ Final(h)
    <2> DEFINE s == Head(fromJudge[h]).id
    <2>1. HandleFinal(h) /\ UNCHANGED status
        BY <1>7 DEF Final, dbVars
    <2>2. /\ s = working[h] /\ s \in Submission /\ submissionMap[s] = h
          /\ \A u \in Submission \ {s} : Kept(u)
        BY <2>1, FinalHands
    <2>3. todo' = [todo EXCEPT ![h] = [name |-> Head(fromJudge[h]).name, id |-> s]]
        BY <1>7, <2>2, ConstantsAssumption DEF Final
    <2>4. [name |-> Head(fromJudge[h]).name, id |-> s] # NoTodo
        <3>1. Head(fromJudge[h]).name \in FinalPackets
            BY <1>7 DEF Final, HandleFinal, Incoming
        <3> QED  BY <2>2, <3>1, LifecycleAssumption
    <2>5. todo'[h].id = s /\ todo'[h] # NoTodo /\ \A f \in Handler \ {h} : todo'[f] = todo[f]
        BY <1>1, <2>3, <2>4
    <2> HIDE DEF s
    <2>6. CASE s = t
        <3>1. h \in OwedBy(t)'
            BY <2>5, <2>6 DEF OwedBy
        <3> QED  BY <3>1, InHandHandled
    <2>7. CASE s # t
        <3>1. StillOwed(t)
            BY <1>7, <2>5 DEF StillOwed, OwedBy
        <3>2. Held(t) => Held(t)'
            BY <2>2, <2>7 DEF Kept
        <3> QED  BY <1>1, <1>2, <2>1, <3>1, <3>2, StaysHandled
    <2> QED  BY <2>6, <2>7
<1>8. CASE Verdict(h)
    <2>1. /\ todo[h] # NoTodo /\ UNCHANGED vars
          /\ status' = [status EXCEPT ![todo[h].id] = VerdictStatus(todo[h].name)]
          /\ todo' = [todo EXCEPT ![h] = NoTodo]
        BY <1>8 DEF Verdict, SetStatus
    <2>2. todo[h].id \in Submission /\ todo[h].name \in FinalPackets
        BY <1>1, <2>1 DEF FinalPacket
    <2>3. CASE todo[h].id = t
        <3>1. VerdictStatus(todo[h].name) \in {"D", "IE", "CE", "AB"}
            BY <2>2, BridgeAssumption DEF VerdictStatus, FinalPackets
        <3> QED  BY <1>1, <2>1, <2>3, <3>1, EndedHandled
    <2>4. CASE todo[h].id # t
        <3>1. StillOwed(t)
            BY <1>1, <2>1, <2>4 DEF StillOwed, OwedBy
        <3>2. status'[t] = status[t]
            BY <1>1, <2>1, <2>4
        <3> QED  BY <1>1, <1>2, <2>1, <3>1, <3>2, StaysHandled, SameHands
    <2> QED  BY <2>3, <2>4
<1> QED  BY <1>4, <1>5, <1>6, <1>7, <1>8 DEF Thread

LEMMA NextHandledInv == HandledInv /\ [LifeNext]_lifeVars => HandledInv'
<1> SUFFICES ASSUME HandledInv, [LifeNext]_lifeVars PROVE HandledInv'
    OBVIOUS
<1>1. LifeTypeInv' /\ CleanInv'
    BY NextLifeTypeInv, LifeCleanInv DEF HandledInv
<1>2. ASSUME NEW t \in Submission PROVE Handled(t)'
    <2>1. ASSUME NEW w \in Web,
                 \/ WebClear(w) \/ WebRequest(w) \/ WebUnreachable(w) \/ WebFailed(w) \/ WebAborted(w)
                 \/ \E s \in Submission : WebMark(w, s) \/ WebAbort(w, s)
          PROVE  Handled(t)'
        BY <2>1, WebHandled
    <2>2. ASSUME NEW h \in Handler, Thread(h) \/ (Verdict(h) /\ UNCHANGED siteVars) \/ Outside(h)
          PROVE  Handled(t)'
        BY <2>2, HandlerHandled
    <2>3. CASE Restart
        <3>1. status' = [s \in Submission |-> IF s \in InProgress THEN "IE" ELSE status[s]]
            BY <2>3 DEF Restart
        <3>2. status'[t] \notin {"QU", "P", "G"}
            BY <3>1 DEF InProgress
        <3> QED  BY <3>2 DEF Handled
    <2>4. CASE UNCHANGED lifeVars
        <3>1. Handled(t) /\ UNCHANGED <<vars, status, todo, web, marked>>
            BY <2>4 DEF HandledInv, lifeVars, dbVars, siteVars
        <3>2. StillOwed(t) /\ StillAtSite(t)
            BY <3>1 DEF StillOwed, OwedBy, StillAtSite, Sites, UnlinkedBy
        <3> QED  BY <3>1, <3>2, StaysHandled, SameHands
    <2> QED  BY <2>1, <2>2, <2>3, <2>4 DEF LifeNext
<1> QED  BY <1>1, <1>2 DEF HandledInv

LEMMA InitHandledInv == NoFailures /\ LifeInit => HandledInv
<1> SUFFICES ASSUME NoFailures, LifeInit PROVE HandledInv
    OBVIOUS
<1>1. LifeTypeInv /\ CleanInv
    BY InitLifeTypeInv, InitCleanInv DEF LifeInit
<1>2. \A s \in Submission : Handled(s)
    BY DEF LifeInit, Handled
<1> QED  BY <1>1, <1>2 DEF HandledInv

LEMMA AlwaysHandled == NoFailures /\ LifeSpec => []HandledInv
BY InitHandledInv, NextHandledInv, PTL DEF LifeSpec

\* As long as no call of the bridge fails, connections that break and restarts of the bridge
\* included: what is shown as processing or grading (judge_handler.py) is in the hands of the
\* bridge, so that it will end.
THEOREM InProgressAlwaysHandled == NoFailures /\ LifeSpec => []InProgressIsHandled
<1>1. HandledInv => InProgressIsHandled
    BY HandledMeans DEF HandledInv
<1> QED  BY <1>1, AlwaysHandled, PTL

\* And what judge_submission (judgeapi.py) marked as queued, and is still shown as queued, is
\* with the bridge or with a site process.
THEOREM QueuedAlwaysHandled == NoFailures /\ LifeSpec => []QueuedIsHandled
<1>1. HandledInv => QueuedIsHandled
    BY HandledMeans DEF HandledInv
<1> QED  BY <1>1, AlwaysHandled, PTL

-----------------------------------------------------------------------------
(* A submission nobody disturbs is in one hand at a time.                  *)

OneHand(s) ==
    /\ OneHold(s) /\ AtMostOne(Sites(s)) /\ AtMostOne(OwedBy(s))
    /\ Sites(s) # {} => ~Held(s) /\ OwedBy(s) = {} /\ status[s] = "QU"
    /\ OwedBy(s) # {} => ~Held(s)
    /\ Sites(s) # {} \/ Held(s) \/ OwedBy(s) # {} => s \in marked /\ status[s] \in {"QU", "P", "G"}

\* A site process that has no answer, or has taken the submission out of the queue, has
\* disturbed it.
Excused(w) == web[w].step \in {"failed", "unlinked"} => web[w].sub \in disturbed

HandInv ==
    /\ LifeTypeInv /\ CleanInv
    /\ \A w \in Web : Excused(w)
    /\ \A s \in Submission : s \in disturbed \/ OneHand(s)

LEMMA HandKept ==
    ASSUME NEW s, OneHand(s), Held(s)' => Held(s), OneHold(s) => OneHold(s)',
           Sites(s)' \subseteq Sites(s), OwedBy(s)' \subseteq OwedBy(s), s \in marked => s \in marked',
           status'[s] = status[s] \/ (Sites(s) = {} /\ status'[s] \in {"P", "G"})
    PROVE  OneHand(s)'
BY DEF OneHand, AtMostOne

LEMMA InNoHand ==
    ASSUME NEW s, Sites(s)' = {}, ~Held(s)', OwedBy(s)' = {}
    PROVE  OneHand(s)'
BY DEF OneHand, OneHold, AtMostOne, Held

LEMMA SameHold ==
    ASSUME UNCHANGED vars, NEW t
    PROVE  (Held(t)' <=> Held(t)) /\ (OneHold(t) => OneHold(t)')
BY DEF vars, listVars, handlerVars, Held, Waiting, AtJudge, OneHold

LEMMA WebOneHand ==
    ASSUME HandInv, ~RejudgeQueued, NEW w \in Web,
           \/ WebClear(w) \/ WebRequest(w) \/ WebUnreachable(w) \/ WebFailed(w) \/ WebAborted(w)
           \/ \E s \in Submission : WebMark(w, s) \/ WebAbort(w, s),
           NEW t \in Submission
    PROVE  t \in disturbed' \/ OneHand(t)'
<1> USE DEF HandInv
<1>1. /\ status \in [Submission -> Statuses] /\ NoSub \notin Submission
      /\ web[w].step # "idle" => web[w].sub \in Submission
      /\ Excused(w) /\ (t \in disturbed \/ OneHand(t))
    BY ConstantsAssumption DEF LifeTypeInv, RowsTypeOK, Busy
<1>2. disturbed \subseteq disturbed' /\ OwedBy(t)' = OwedBy(t)
    <2>1. UNCHANGED todo
        BY DEF WebClear, WebRequest, WebUnreachable, WebFailed, WebAborted, WebMark, WebAbort
    <2>2. disturbed \subseteq disturbed'
        BY DEF WebClear, WebRequest, WebUnreachable, WebFailed, WebAborted, WebMark, WebAbort
    <2> QED  BY <2>1, <2>2 DEF OwedBy
<1>3. ASSUME NEW r, web' = [web EXCEPT ![w] = r]
      PROVE  /\ r.sub # t => Sites(t)' = Sites(t) \ {w}
             /\ r.sub = t => Sites(t)' = Sites(t) \cup {w}
    <2>1. web'[w] = r /\ \A v \in Web \ {w} : web'[v] = web[v]
        BY <1>3 DEF LifeTypeInv, RowsTypeOK
    <2> QED  BY <2>1 DEF Sites
<1>3a. ASSUME web' = [web EXCEPT ![w] = Idle] PROVE Sites(t)' = Sites(t) \ {w}
    <2>1. Idle.sub # t
        BY <1>1 DEF Idle
    <2> QED  BY <1>3, <1>3a, <2>1
<1>4. CASE t \in disturbed
    BY <1>2, <1>4
<1>5. ASSUME OneHand(t), NEW s \in Submission, WebMark(w, s) PROVE OneHand(t)'
    <2> DEFINE r == [step |-> "marked", sub |-> s]
    <2>1. /\ web' = [web EXCEPT ![w] = r]
          /\ status' = [status EXCEPT ![s] = "QU"] /\ marked' = marked \cup {s}
          /\ s \notin marked \/ status[s] # "QU"
          /\ status[s] \notin {"P", "G"}
          /\ UNCHANGED vars
        BY <1>5 DEF WebMark, SetStatus
    <2>2. r.sub = s /\ web[w].sub = NoSub
        BY <1>5 DEF WebMark, Idle
    <2> HIDE DEF r
    <2>3. CASE s = t
        <3>1. Sites(t) = {} /\ ~Held(t) /\ OwedBy(t) = {}
            BY <1>5, <2>1, <2>3 DEF OneHand
        <3>2. Sites(t)' = {w}
            BY <1>3, <2>1, <2>2, <2>3, <3>1
        <3>3. OneHold(t)' /\ ~Held(t)' /\ OwedBy(t)' = {}
            BY <1>2, <1>5, <2>1, <3>1, SameHold DEF OneHand
        <3>4. status'[t] = "QU" /\ t \in marked'
            BY <1>1, <2>1, <2>3
        <3> QED  BY <3>2, <3>3, <3>4 DEF OneHand, AtMostOne
    <2>4. CASE s # t
        <3>1. Sites(t)' \subseteq Sites(t) /\ status'[t] = status[t] /\ marked \subseteq marked'
            BY <1>1, <1>3, <2>1, <2>2, <2>4
        <3> QED  BY <1>2, <1>5, <2>1, <3>1, HandKept, SameHold
    <2> QED  BY <2>3, <2>4
<1>6. ASSUME OneHand(t), WebClear(w) PROVE OneHand(t)'
    <2> DEFINE r == [web[w] EXCEPT !.step = "cleared"]
    <2>1. web' = [web EXCEPT ![w] = r] /\ UNCHANGED <<vars, status, marked>>
        BY <1>6 DEF WebClear
    <2>2. r.sub = web[w].sub
        BY DEF LifeTypeInv, RowsTypeOK
    <2> HIDE DEF r
    <2>3. Sites(t)' \subseteq Sites(t)
        BY <1>3, <2>1, <2>2 DEF Sites
    <2> QED  BY <1>2, <1>6, <2>1, <2>3, HandKept, SameHold
<1>7. ASSUME OneHand(t), WebRequest(w) PROVE t \in disturbed' \/ OneHand(t)'
    <2>1. PICK s \in Submission : s = web[w].sub
        BY <1>1, <1>7 DEF WebRequest
    <2>2. PICK r \in Requests : r.id = s /\ SubmissionRequest(r)
        BY <1>7, <2>1 DEF WebRequest
    <2>3. Judge(s, r.judge, r.priority) /\ r.judge \in JudgeId /\ r.priority \in Priority /\ phase' = phase
        BY <2>2, BridgeAssumption DEF SubmissionRequest
    <2>4. /\ s \notin Waiting /\ AtJudge(s) = {} => OneHold(s)'
          /\ \A u \in Submission \ {s} : Kept(u)
        BY <2>1, <2>3, JudgeHands
    <2>5. UNCHANGED <<status, marked>>
        BY <1>7 DEF WebRequest, dbVars
    <2>6. CASE web' = [web EXCEPT ![w] = Idle]
        <3>1. Sites(t)' = Sites(t) \ {w}
            BY <1>3a, <2>6
        <3>2. CASE s = t
            <4>1. w \in Sites(t)
                BY <2>1, <3>2 DEF Sites
            <4>2. Sites(t) = {w} /\ ~Held(t) /\ OwedBy(t) = {} /\ status[t] = "QU" /\ t \in marked
                BY <1>7, <4>1 DEF OneHand, AtMostOne
            <4>3. Sites(t)' = {} /\ OwedBy(t)' = {} /\ status'[t] = "QU" /\ t \in marked'
                BY <1>2, <2>5, <3>1, <4>2
            <4>4. OneHold(t)'
                BY <2>4, <3>2, <4>2 DEF Held
            <4> QED  BY <4>3, <4>4 DEF OneHand, AtMostOne
        <3>3. CASE s # t
            <4>1. Kept(t)
                BY <2>4, <3>3
            <4> QED  BY <1>2, <1>7, <2>5, <3>1, <4>1, HandKept DEF Kept
        <3> QED  BY <3>2, <3>3
    <2> DEFINE q == [web[w] EXCEPT !.step = "failed"]
    <2>7. CASE web' = [web EXCEPT ![w] = q] /\ disturbed' = disturbed \cup {s}
        <3>1. q.sub = s
            BY <2>1 DEF LifeTypeInv, RowsTypeOK
        <3> HIDE DEF q
        <3>2. CASE s # t
            <4>1. Sites(t)' \subseteq Sites(t)
                BY <1>3, <2>7, <3>1, <3>2
            <4>2. Kept(t)
                BY <2>4, <3>2
            <4> QED  BY <1>2, <1>7, <2>5, <4>1, <4>2, HandKept DEF Kept
        <3> QED  BY <2>7, <3>2
    <2> QED  BY <1>7, <2>1, <2>6, <2>7 DEF WebRequest
<1>8. ASSUME OneHand(t), NEW v, SetStatus(web[w].sub, v),
             web[w].step # "idle", web' = [web EXCEPT ![w] = Idle], UNCHANGED vars, UNCHANGED marked
      PROVE  OneHand(t)'
    <2>1. Sites(t)' = Sites(t) \ {w}
        BY <1>3a, <1>8
    <2>2. CASE web[w].sub = t
        <3>1. w \in Sites(t)
            BY <2>2 DEF Sites
        <3>2. Sites(t) = {w} /\ ~Held(t) /\ OwedBy(t) = {}
            BY <1>8, <3>1 DEF OneHand, AtMostOne
        <3> QED  BY <1>2, <1>8, <2>1, <3>2, InNoHand, SameHold
    <2>3. CASE web[w].sub # t
        <3>1. status'[t] = status[t]
            BY <1>1, <1>8, <2>3 DEF SetStatus
        <3> QED  BY <1>2, <1>8, <2>1, <3>1, HandKept, SameHold
    <2> QED  BY <2>2, <2>3
<1>9. ASSUME OneHand(t), WebUnreachable(w) \/ WebFailed(w) \/ WebAborted(w) PROVE OneHand(t)'
    BY <1>1, <1>8, <1>9 DEF WebUnreachable, WebFailed, WebAborted, GoIdle
<1>10. ASSUME OneHand(t), NEW s \in Submission, WebAbort(w, s) PROVE t \in disturbed' \/ OneHand(t)'
    <2> DEFINE r == [step |-> "unlinked", sub |-> s]
    <2>1. /\ Abort(s) /\ UNCHANGED <<phase, status, marked>> /\ s \in disturbed'
          /\ web' = web \/ web' = [web EXCEPT ![w] = r]
        BY <1>10 DEF WebAbort, TerminationRequest, dbVars
    <2>2. \A u \in Submission \ {s} : Kept(u)
        BY <2>1, AbortHands
    <2>3. r.sub = s
        OBVIOUS
    <2> HIDE DEF r
    <2>4. CASE s # t
        <3>1. CASE web' = web
            BY <3>1, <1>2, <1>10, <2>1, <2>2, <2>4, HandKept DEF Kept, Sites
        <3>2. CASE web' = [web EXCEPT ![w] = r]
            <4>1. Sites(t)' \subseteq Sites(t)
                BY <1>3, <2>3, <2>4, <3>2
            <4> QED  BY <4>1, <1>2, <1>10, <2>1, <2>2, <2>4, HandKept DEF Kept
        <3> QED  BY <2>1, <3>1, <3>2
    <2> QED  BY <2>1, <2>4
<1> QED  BY <1>1, <1>4, <1>5, <1>6, <1>7, <1>9, <1>10

LEMMA HandlerOneHand ==
    ASSUME HandInv, NEW h \in Handler,
           Thread(h) \/ (Verdict(h) /\ UNCHANGED siteVars) \/ Outside(h),
           NEW t \in Submission, OneHand(t)
    PROVE  OneHand(t)'
<1> USE DEF HandInv
<1>1. /\ status \in [Submission -> Statuses]
      /\ todo \in [Handler -> FinalPacket \cup {NoTodo}]
    BY DEF LifeTypeInv, RowsTypeOK
<1>2. UNCHANGED marked /\ Sites(t)' = Sites(t)
    <2>1. UNCHANGED <<web, marked>>
        BY DEF Thread, Outside, siteVars
    <2> QED  BY <2>1 DEF Sites
<1>3. ASSUME UNCHANGED todo PROVE OwedBy(t)' = OwedBy(t)
    BY <1>3 DEF OwedBy
<1>4. CASE Quiet(h) \/ Outside(h)
    <2>1. UNCHANGED <<status, todo>>
        BY <1>4 DEF Quiet, Outside, dbVars
    <2>2. Kept(t)
        BY <1>4, QuietHands, OutsideHands
    <2> QED  BY <1>2, <1>3, <2>1, <2>2, HandKept DEF Kept
<1>5. CASE Acknowledged(h) \/ Progress(h)
    <2>1. /\ phase[h] = "up" /\ fromJudge[h] # <<>> /\ UNCHANGED todo
          /\ Head(fromJudge[h]).name \in {"submission-acknowledged", "grading-begin", "test-case-status"}
        BY <1>5 DEF Acknowledged, Progress, HandleAcknowledged, HandleProgress, Incoming
    <2>2. Head(fromJudge[h]).id = working[h]
        BY <2>1, NotFinal, Heard
    <2>3. Kept(t)
        BY <1>5, OutsideHands
    <2>4. CASE working[h] = t
        <3>1. h \in AtJudge(t)
            BY <2>1, <2>4 DEF AtJudge
        <3>2. Sites(t) = {}
            BY <3>1 DEF OneHand, Held
        <3>3. status'[t] = status[t] \/ status'[t] \in {"P", "G"}
            BY <1>1, <1>5, <2>2, <2>4
               DEF Acknowledged, Progress, BeginGrading, AddCase, SetStatus
        <3> QED  BY <1>2, <1>3, <2>1, <2>3, <3>2, <3>3, HandKept DEF Kept
    <2>5. CASE working[h] # t
        <3>1. status'[t] = status[t]
            BY <1>1, <1>5, <2>2, <2>5 DEF Acknowledged, Progress, BeginGrading, AddCase, SetStatus
        <3> QED  BY <1>2, <1>3, <2>1, <2>3, <3>1, HandKept DEF Kept
    <2> QED  BY <2>4, <2>5
<1>6. CASE todo[h] = NoTodo /\ Final(h)
    <2>0. PICK s : s = Head(fromJudge[h]).id
        OBVIOUS
    <2>1. HandleFinal(h) /\ UNCHANGED status
        BY <1>6 DEF Final, dbVars
    <2>2. /\ s \in Submission /\ submissionMap[s] = h /\ h \in AtJudge(s)
          /\ \A u \in Submission \ {s} : Kept(u)
          /\ OneHold(s) => ~Held(s)'
        BY <2>0, <2>1, FinalHands
    <2>3. todo' = [todo EXCEPT ![h] = [name |-> Head(fromJudge[h]).name, id |-> s]]
        BY <1>6, <2>0, <2>2, ConstantsAssumption DEF Final
    <2>4. todo'[h].id = s /\ \A f \in Handler \ {h} : todo'[f] = todo[f]
        BY <1>1, <2>3
    <2>5. CASE s = t
        <3>1. Sites(t) = {} /\ OwedBy(t) = {} /\ t \in marked /\ status[t] \in {"QU", "P", "G"}
            BY <2>2, <2>5 DEF OneHand, Held
        <3>2. OwedBy(t)' \subseteq {h}
            BY <2>4, <3>1 DEF OwedBy
        <3>3. ~Held(t)'
            BY <2>2, <2>5 DEF OneHand
        <3>4. OneHold(t)'
            BY <3>3 DEF OneHold, Held, AtMostOne
        <3> QED  BY <1>2, <2>1, <3>1, <3>2, <3>3, <3>4 DEF OneHand, AtMostOne
    <2>6. CASE s # t
        <3>1. OwedBy(t)' \subseteq OwedBy(t)
            BY <2>4, <2>6 DEF OwedBy
        <3>2. Kept(t)
            BY <2>2, <2>6
        <3> QED  BY <1>2, <2>1, <3>1, <3>2, HandKept DEF Kept
    <2> QED  BY <2>5, <2>6
<1>7. CASE Verdict(h)
    <2>1. /\ todo[h] # NoTodo /\ UNCHANGED vars
          /\ status' = [status EXCEPT ![todo[h].id] = VerdictStatus(todo[h].name)]
          /\ todo' = [todo EXCEPT ![h] = NoTodo]
        BY <1>7 DEF Verdict, SetStatus
    <2>2. OwedBy(t)' = OwedBy(t) \ {h}
        BY <1>1, <2>1 DEF OwedBy
    <2>3. CASE todo[h].id = t
        <3>1. h \in OwedBy(t)
            BY <2>1, <2>3 DEF OwedBy
        <3>2. Sites(t) = {} /\ ~Held(t) /\ OwedBy(t) = {h}
            BY <3>1 DEF OneHand, AtMostOne
        <3> QED  BY <1>2, <2>1, <2>2, <3>2, InNoHand, SameHold
    <2>4. CASE todo[h].id # t
        <3>1. status'[t] = status[t]
            BY <1>1, <2>1, <2>4
        <3> QED  BY <1>2, <2>1, <2>2, <3>1, HandKept, SameHold
    <2> QED  BY <2>3, <2>4
<1> QED  BY <1>4, <1>5, <1>6, <1>7 DEF Thread

LEMMA RestartOneHand ==
    ASSUME HandInv, Restart, NEW t \in Submission
    PROVE  t \in disturbed' \/ OneHand(t)'
<1>1. /\ nodeMap' = [s \in Submission |-> NoNode]
      /\ working' = [h \in Handler |-> NoSub]
      /\ todo' = [h \in Handler |-> NoTodo]
      /\ disturbed' = disturbed \cup {s \in InProgress : AtSite(s)}
      /\ web' = web
    BY DEF Restart
<1>2. t \in disturbed \/ OneHand(t)
    BY DEF HandInv
<1>3. ~Held(t)' /\ OwedBy(t)' = {} /\ Sites(t)' = Sites(t)
    BY <1>1, ConstantsAssumption DEF Held, Waiting, AtJudge, OwedBy, Sites
<1>4. OneHand(t) /\ Sites(t) # {} => t \in disturbed'
    BY <1>1 DEF OneHand, InProgress, AtSite, Sites
<1> QED  BY <1>1, <1>2, <1>3, <1>4, InNoHand

LEMMA StaysExcused ==
    ASSUME HandInv, LifeNext, NEW v \in Web
    PROVE  Excused(v)'
<1> USE DEF HandInv
<1>1. Excused(v) /\ web \in [Web -> [step : {"idle", "marked", "cleared", "failed", "unlinked"},
                                     sub : Submission \cup {NoSub}]]
    BY DEF LifeTypeInv, RowsTypeOK
<1>2. ASSUME NEW w \in Web, NEW r, web' = [web EXCEPT ![w] = r], disturbed \subseteq disturbed',
             r.step \in {"failed", "unlinked"} => r.sub \in disturbed'
      PROVE  Excused(v)'
    BY <1>1, <1>2 DEF Excused
<1>3. ASSUME NEW w \in Web, web' = [web EXCEPT ![w] = Idle], UNCHANGED disturbed PROVE Excused(v)'
    <2>1. Idle.step = "idle"
        BY DEF Idle
    <2> QED  BY <1>2, <1>3, <2>1
<1>4. ASSUME web' = web, disturbed \subseteq disturbed' PROVE Excused(v)'
    BY <1>1, <1>4 DEF Excused
<1>5. ASSUME NEW w \in Web, NEW s \in Submission, WebMark(w, s) PROVE Excused(v)'
    <2> DEFINE r == [step |-> "marked", sub |-> s]
    <2>1. r.step = "marked" /\ web' = [web EXCEPT ![w] = r] /\ UNCHANGED disturbed
        BY <1>5 DEF WebMark
    <2> HIDE DEF r
    <2> QED  BY <1>2, <2>1
<1>6. ASSUME NEW w \in Web, WebClear(w) PROVE Excused(v)'
    <2> DEFINE r == [web[w] EXCEPT !.step = "cleared"]
    <2>1. web' = [web EXCEPT ![w] = r] /\ UNCHANGED disturbed
        BY <1>6 DEF WebClear
    <2>2. r.step = "cleared"
        BY <1>1
    <2> HIDE DEF r
    <2> QED  BY <1>2, <2>1, <2>2
<1>7. ASSUME NEW w \in Web, WebRequest(w) PROVE Excused(v)'
    <2> DEFINE r == [web[w] EXCEPT !.step = "failed"]
    <2>1. \/ web' = [web EXCEPT ![w] = Idle] /\ UNCHANGED disturbed
          \/ web' = [web EXCEPT ![w] = r] /\ disturbed' = disturbed \cup {web[w].sub}
        BY <1>7 DEF WebRequest
    <2>2. r.step = "failed" /\ r.sub = web[w].sub
        BY <1>1
    <2> HIDE DEF r
    <2> QED  BY <1>2, <1>3, <2>1, <2>2
<1>8. ASSUME NEW w \in Web, WebUnreachable(w) \/ WebFailed(w) \/ WebAborted(w) PROVE Excused(v)'
    BY <1>3, <1>8 DEF WebUnreachable, WebFailed, WebAborted, GoIdle
<1>9. ASSUME NEW w \in Web, NEW s \in Submission, WebAbort(w, s) PROVE Excused(v)'
    <2> DEFINE r == [step |-> "unlinked", sub |-> s]
    <2>1. (web' = web \/ web' = [web EXCEPT ![w] = r]) /\ disturbed' = disturbed \cup {s}
        BY <1>9 DEF WebAbort
    <2>2. r.sub = s
        OBVIOUS
    <2> HIDE DEF r
    <2> QED  BY <1>2, <1>4, <2>1, <2>2
<1>10. ASSUME NEW h \in Handler, Thread(h) \/ (Verdict(h) /\ UNCHANGED siteVars) \/ Outside(h)
       PROVE  Excused(v)'
    BY <1>4, <1>10 DEF Thread, Outside, siteVars
<1>11. CASE Restart
    BY <1>4, <1>11 DEF Restart
<1> QED  BY <1>5, <1>6, <1>7, <1>8, <1>9, <1>10, <1>11 DEF LifeNext

LEMMA NextHandInv == ~RejudgeQueued /\ HandInv /\ [LifeNext]_lifeVars => HandInv'
<1> SUFFICES ASSUME ~RejudgeQueued, HandInv, [LifeNext]_lifeVars PROVE HandInv'
    OBVIOUS
<1>1. LifeTypeInv' /\ CleanInv'
    BY NextLifeTypeInv, LifeCleanInv DEF HandInv
<1>2. CASE LifeNext
    <2>1. \A v \in Web : Excused(v)'
        BY <1>2, StaysExcused
    <2>2. ASSUME NEW t \in Submission PROVE t \in disturbed' \/ OneHand(t)'
        <3>1. ASSUME NEW w \in Web,
                     \/ WebClear(w) \/ WebRequest(w) \/ WebUnreachable(w) \/ WebFailed(w) \/ WebAborted(w)
                     \/ \E s \in Submission : WebMark(w, s) \/ WebAbort(w, s)
              PROVE  t \in disturbed' \/ OneHand(t)'
            BY <3>1, WebOneHand
        <3>2. ASSUME NEW h \in Handler, Thread(h) \/ (Verdict(h) /\ UNCHANGED siteVars) \/ Outside(h)
              PROVE  t \in disturbed' \/ OneHand(t)'
            <4>1. disturbed' = disturbed
                BY <3>2 DEF Thread, Outside, siteVars
            <4> QED  BY <3>2, <4>1, HandlerOneHand DEF HandInv
        <3>3. CASE Restart
            BY <3>3, RestartOneHand
        <3> QED  BY <1>2, <3>1, <3>2, <3>3 DEF LifeNext
    <2> QED  BY <1>1, <2>1, <2>2 DEF HandInv
<1>3. CASE UNCHANGED lifeVars
    <2>1. UNCHANGED <<vars, status, todo, web, marked, disturbed>>
        BY <1>3 DEF lifeVars, dbVars, siteVars
    <2>2. \A v \in Web : Excused(v)'
        BY <2>1 DEF HandInv, Excused
    <2>3. \A s : Sites(s)' = Sites(s) /\ OwedBy(s)' = OwedBy(s)
        BY <2>1 DEF Sites, OwedBy
    <2>4. \A s \in Submission : s \in disturbed' \/ OneHand(s)'
        BY <2>1, <2>3, HandKept, SameHold DEF HandInv
    <2> QED  BY <1>1, <2>2, <2>4 DEF HandInv
<1> QED  BY <1>2, <1>3

-----------------------------------------------------------------------------
(* No test case is lost between the judge and the rows.                    *)

\* The packet of test case p is still to be read, after the i-th.
CaseAfter(from, i, p) ==
    \E j \in DOMAIN from : i < j /\ from[j].name = "test-case-status" /\ from[j].position = p

\* Of the k packets of Script the judge has sent, "from" are unread and those read left the
\* rows cs.  A grading-begin that is still to be read clears the rows, and every test case
\* comes after it.
Covered(from, k, cs) ==
    /\ \A p \in Positions : p <= k => p \in cs \/ CaseAfter(from, 0, p)
    /\ \A i \in DOMAIN from :
          from[i].name = "grading-begin" => \A p \in Positions : p <= k => CaseAfter(from, i, p)
    /\ \A i \in DOMAIN from : from[i].name = "grading-end" => k = Len(Script)

Started(h) == grading[h] # NoSub \/ fromJudge[h] # <<>>

HeardInv(h) ==
    /\ fromJudge[h] # <<>> => phase[h] \in {"registered", "up"}
    /\ Started(h) => working[h] \in disturbed \/ Covered(fromJudge[h], stage[h], cases[working[h]])

\* A grading-end whose verdict is still to be written has all its test cases.
TodoInv(h) ==
    todo[h] # NoTodo /\ todo[h].name = "grading-end" =>
       todo[h].id \in disturbed \/ Positions \subseteq cases[todo[h].id]

VerdictInv ==
    /\ ~RejudgeQueued /\ HandInv /\ VerdictComplete
    /\ \A h \in Handler : HeardInv(h) /\ TodoInv(h)

LEMMA PositionsOfScript ==
    /\ Len(Script) \in Nat /\ Positions \subseteq 1 .. Len(Script)
    /\ \A i \in 1 .. Len(Script) : Script[i] \in {"grading-begin", "test-case-status"}
<1>1. Script \in Seq({"grading-begin", "test-case-status"})
    BY BridgeAssumption
<1> QED  BY <1>1, LenProperties, ElementOfSeq DEF Positions

\* The handler reads the head.
LEMMA ReadCovered ==
    ASSUME NEW from \in Seq(FromJudgePacket), from # <<>>, NEW k \in Nat, NEW cs, NEW rest,
           Covered(from, k, cs), Head(from).name = "grading-begin" \/ cs \subseteq rest,
           Head(from).name = "test-case-status" => Head(from).position \in rest
    PROVE  Covered(Tail(from), k, rest)
<1>1. /\ Len(from) \in Nat /\ Len(from) > 0 /\ DOMAIN from = 1 .. Len(from)
      /\ DOMAIN Tail(from) = 1 .. Len(from) - 1 /\ Head(from) = from[1]
      /\ \A i \in 1 .. Len(from) - 1 : Tail(from)[i] = from[i + 1]
    BY LenProperties, EmptySeq, HeadTailProperties
<1>2. ASSUME NEW i \in Nat, NEW p, CaseAfter(from, i + 1, p) PROVE CaseAfter(Tail(from), i, p)
    <2>1. PICK j \in 1 .. Len(from) :
             i + 1 < j /\ from[j].name = "test-case-status" /\ from[j].position = p
        BY <1>1, <1>2 DEF CaseAfter
    <2>2. j - 1 \in 1 .. Len(from) - 1 /\ i < j - 1 /\ (j - 1) + 1 = j
        BY <1>1, <2>1
    <2>3. Tail(from)[j - 1] = from[j]
        BY <1>1, <2>2
    <2> QED  BY <1>1, <2>1, <2>2, <2>3 DEF CaseAfter
<1>3. ASSUME NEW p \in Positions, p <= k PROVE p \in rest \/ CaseAfter(Tail(from), 0, p)
    <2>1. CASE Head(from).name = "grading-begin"
        <3>1. CaseAfter(from, 1, p)
            BY <1>1, <1>3, <2>1 DEF Covered
        <3> QED  BY <1>2, <3>1
    <2>2. CASE p \in cs /\ cs \subseteq rest
        BY <2>2
    <2>3. CASE CaseAfter(from, 0, p)
        <3>1. PICK j \in 1 .. Len(from) : from[j].name = "test-case-status" /\ from[j].position = p
            BY <1>1, <2>3 DEF CaseAfter
        <3>2. CASE j = 1
            BY <1>1, <3>1, <3>2
        <3>3. CASE j # 1
            <4>1. 1 < j
                BY <1>1, <3>3
            <4>2. CaseAfter(from, 0 + 1, p)
                BY <1>1, <3>1, <4>1 DEF CaseAfter
            <4> QED  BY <1>2, <4>2
        <3> QED  BY <3>2, <3>3
    <2> QED  BY <1>3, <2>1, <2>2, <2>3 DEF Covered
<1>4. ASSUME NEW i \in 1 .. Len(from) - 1
      PROVE  /\ Tail(from)[i].name = "grading-begin" =>
                   \A p \in Positions : p <= k => CaseAfter(Tail(from), i, p)
             /\ Tail(from)[i].name = "grading-end" => k = Len(Script)
    <2>1. i + 1 \in DOMAIN from /\ Tail(from)[i] = from[i + 1] /\ i \in Nat
        BY <1>1
    <2> QED  BY <1>2, <2>1 DEF Covered
<1> QED  BY <1>1, <1>3, <1>4 DEF Covered

\* The judge sends a packet, and then has sent n of Script.
LEMMA SentCovered ==
    ASSUME NEW from \in Seq(FromJudgePacket), NEW packet \in FromJudgePacket, NEW k \in Nat,
           NEW n \in Nat, NEW cs, Covered(from, k, cs), n = k \/ k < Len(Script),
           \A p \in Positions : p <= n => p <= k \/ (packet.name = "test-case-status" /\ packet.position = p),
           packet.name = "grading-begin" => \A p \in Positions : ~(p <= n),
           packet.name = "grading-end" => n = Len(Script)
    PROVE  Covered(Append(from, packet), n, cs)
<1> DEFINE to == Append(from, packet)
<1>1. /\ Len(from) \in Nat /\ DOMAIN from = 1 .. Len(from) /\ DOMAIN to = 1 .. Len(from) + 1
      /\ to[Len(from) + 1] = packet /\ \A i \in 1 .. Len(from) : to[i] = from[i]
    BY LenProperties, AppendProperties
<1> HIDE DEF to
<1>2. ASSUME NEW i, NEW p, CaseAfter(from, i, p) PROVE CaseAfter(to, i, p)
    <2>1. PICK j \in 1 .. Len(from) :
             i < j /\ from[j].name = "test-case-status" /\ from[j].position = p
        BY <1>1, <1>2 DEF CaseAfter
    <2>2. j \in DOMAIN to /\ to[j] = from[j]
        BY <1>1, <2>1
    <2> QED  BY <2>1, <2>2 DEF CaseAfter
<1>3. ASSUME NEW i \in 0 .. Len(from), packet.name = "test-case-status"
      PROVE  CaseAfter(to, i, packet.position)
    <2>1. Len(from) + 1 \in DOMAIN to /\ i < Len(from) + 1
        BY <1>1
    <2> QED  BY <1>1, <1>3, <2>1 DEF CaseAfter
<1>4. ASSUME NEW p \in Positions, p <= n PROVE p \in cs \/ CaseAfter(to, 0, p)
    <2>1. 0 \in 0 .. Len(from)
        BY <1>1
    <2>2. CASE p <= k
        BY <1>2, <2>2 DEF Covered
    <2> QED  BY <1>3, <1>4, <2>1, <2>2
<1>5. ASSUME NEW i \in 1 .. Len(from)
      PROVE  /\ to[i].name = "grading-begin" => \A p \in Positions : p <= n => CaseAfter(to, i, p)
             /\ to[i].name = "grading-end" => n = Len(Script)
    <2>1. to[i] = from[i] /\ i \in DOMAIN from /\ i \in 0 .. Len(from)
        BY <1>1
    <2>2. ASSUME NEW p \in Positions, p <= n, to[i].name = "grading-begin" PROVE CaseAfter(to, i, p)
        <3>1. CASE p <= k
            BY <1>2, <2>1, <2>2, <3>1 DEF Covered
        <3> QED  BY <1>3, <2>1, <2>2, <3>1
    <2>3. to[i].name = "grading-end" => n = Len(Script)
        BY <2>1, PositionsOfScript DEF Covered
    <2> QED  BY <2>2, <2>3
<1>6. /\ to[Len(from) + 1].name = "grading-begin" =>
            \A p \in Positions : p <= n => CaseAfter(to, Len(from) + 1, p)
      /\ to[Len(from) + 1].name = "grading-end" => n = Len(Script)
    BY <1>1
<1>7. DOMAIN to = (1 .. Len(from)) \cup {Len(from) + 1}
    BY <1>1
<1> QED  BY <1>4, <1>5, <1>6, <1>7 DEF Covered, to

\* A grading that has begun with the acknowledgement.
LEMMA BegunCovered ==
    ASSUME NEW packet \in FromJudgePacket, packet.name = "submission-acknowledged", NEW cs
    PROVE  Covered(<<packet>>, 0, cs)
<1>1. DOMAIN <<packet>> = {1} /\ <<packet>>[1] = packet
    OBVIOUS
<1>2. \A p \in Positions : ~(p <= 0)
    BY PositionsOfScript
<1> QED  BY <1>1, <1>2 DEF Covered

\* The grading-end is the last thing to be read.
LEMMA EndCovered ==
    ASSUME NEW from, NEW k, NEW cs, Covered(from, k, cs), DOMAIN from = {1},
           from[1].name = "grading-end"
    PROVE  Positions \subseteq cs
<1>1. k = Len(Script) /\ \A p \in Positions : p <= Len(Script)
    BY PositionsOfScript DEF Covered
<1> QED  BY <1>1 DEF Covered, CaseAfter

\* A judge that has started on its submission has a thread that hears it.
LEMMA StartedAtJudge ==
    ASSUME CleanInv, NEW h \in Handler, HeardInv(h)
    PROVE  /\ working[h] = NoSub => ~Started(h)
           /\ Started(h) => /\ working[h] \in Submission /\ h \in AtJudge(working[h])
                            /\ phase[h] \in {"registered", "up"}
<1>1. /\ toJudge[h] \in Seq(ToJudgePacket) /\ fromJudge[h] \in Seq(FromJudgePacket)
      /\ working[h] \in Submission \cup {NoSub} /\ ThreadInv(h)
      /\ Talk(toJudge[h], fromJudge[h], working[h], grading[h], sock[h])
    BY DEF CleanInv, BridgeInv, ListInv, ListTypeOK, BridgeTypeOK, TalkInv, Work
<1>2. working[h] = NoSub => ~Started(h)
    BY <1>1, IdleTalk DEF Started
<1>3. grading[h] # NoSub => sock[h] = "open"
    BY <1>1 DEF Talk
<1>4. Started(h) => phase[h] \in {"registered", "up"}
    BY <1>1, <1>2, <1>3 DEF ThreadInv, HeardInv, Started
<1>5. Started(h) => working[h] \in Submission
    BY <1>1, <1>2
<1> QED  BY <1>2, <1>4, <1>5 DEF AtJudge

\* A step that is none of the business of f.
LEMMA SameHeard ==
    ASSUME VerdictInv, NEW f \in Handler,
           fromJudge'[f] = fromJudge[f], stage'[f] = stage[f], grading'[f] \in {grading[f], NoSub},
           fromJudge[f] # <<>> => phase'[f] \in {"registered", "up"},
           working'[f] = working[f] \/ working[f] = NoSub, disturbed \subseteq disturbed',
           Started(f) => working[f] \in disturbed' \/ cases'[working[f]] = cases[working[f]]
    PROVE  HeardInv(f)'
<1>1. HeardInv(f) /\ CleanInv
    BY DEF VerdictInv, HandInv
<1>2. Started(f)' => Started(f)
    BY DEF Started
<1>3. Started(f) => working[f] # NoSub
    BY <1>1, StartedAtJudge
<1> QED  BY <1>1, <1>2, <1>3 DEF HeardInv

LEMMA SameTodo ==
    ASSUME VerdictInv, NEW f \in Handler, todo'[f] \in {todo[f], NoTodo}, disturbed \subseteq disturbed',
           todo[f] # NoTodo =>
              todo[f].id \in disturbed' \/ cases[todo[f].id] \subseteq cases'[todo[f].id]
    PROVE  TodoInv(f)'
<1>1. TodoInv(f)
    BY DEF VerdictInv
<1>2. CASE todo'[f] = NoTodo
    BY <1>2 DEF TodoInv
<1>3. CASE todo'[f] = todo[f] /\ todo[f] # NoTodo
    BY <1>1, <1>3 DEF TodoInv
<1> QED  BY <1>2, <1>3

LEMMA SameVerdicts ==
    ASSUME VerdictInv, UNCHANGED counted, disturbed \subseteq disturbed',
           \A s \in Submission : status'[s] = "D" => status[s] = "D"
    PROVE  VerdictComplete'
BY DEF VerdictInv, VerdictComplete

\* judge() gives work to the idle only.
LEMMA JudgeWork ==
    ASSUME CleanInv, NEW s \in Submission, NEW id \in JudgeId, NEW p \in Priority, Judge(s, id, p),
           NEW f \in Handler
    PROVE  working'[f] = working[f] \/ working[f] = NoSub
<1>1. working \in Work /\ judges \subseteq Handler
    BY DEF CleanInv, BridgeInv, ListInv, ListTypeOK
<1> QED  BY <1>1, JudgeOutcome DEF Work

\* So do the quiet steps of a handler's thread.
LEMMA QuietWork ==
    ASSUME CleanInv, NEW h \in Handler, Quiet(h), NEW f \in Handler
    PROVE  working'[f] = working[f] \/ working[f] = NoSub
<1>1. /\ ListInv /\ NoFailures /\ rows = Submission /\ working \in Work /\ ThreadInv(h)
    BY DEF CleanInv, BridgeInv, ListInv, ListTypeOK
<1>2. CASE Register(h)
    <2> DEFINE sm == submissionMap
               js == judges \cup {h}
    <2>1. phase[h] = "named" /\ HandleFreeJudge(h, sm, js, working)
        BY <1>2 DEF Register, GoTo, RegisterJudge
    <2>2. working[h] = NoSub /\ sock[h] # "shut"
        BY <1>1, <2>1 DEF ThreadInv
    <2> HIDE DEF sm, js
    <2>3. working' = working \/ \E t \in Waiting : working' = [working EXCEPT ![h] = t]
        BY <1>1, <2>1, <2>2, LookOutcome
    <2> QED  BY <1>1, <2>2, <2>3 DEF Work
<1>3. CASE HandshakeFails(h) \/ Connected(h) \/ EndOfStream(h) \/ Unregister(h) \/ Disconnected(h)
    BY <1>3 DEF HandshakeFails, Connected, EndOfStream, Unregister, Disconnected, RemoveJudge,
                handlerVars
<1>4. CASE Requeue(h)
    <2>1. CASE working[h] = NoSub
        BY <1>4, <2>1 DEF Requeue, handlerVars
    <2>2. CASE working[h] # NoSub
        <3>1. /\ working[h] \in Submission /\ AnyJudge \in JudgeId /\ 0 \in Priority
            BY <1>1, <2>2, ConstantsAssumption DEF Work, JudgeId, Priority
        <3>2. Judge(working[h], AnyJudge, 0)
            BY <1>4, <2>2 DEF Requeue
        <3> QED  BY <3>1, <3>2, JudgeWork
    <2> QED  BY <2>1, <2>2
<1> QED  BY <1>2, <1>3, <1>4 DEF Quiet

LEMMA WebVerdict ==
    ASSUME VerdictInv, NEW w \in Web,
           \/ WebClear(w) \/ WebRequest(w) \/ WebUnreachable(w) \/ WebFailed(w) \/ WebAborted(w)
           \/ \E s \in Submission : WebMark(w, s) \/ WebAbort(w, s)
    PROVE  VerdictComplete' /\ \A f \in Handler : HeardInv(f)' /\ TodoInv(f)'
<1>1. /\ status \in [Submission -> Statuses] /\ cases \in [Submission -> SUBSET Positions]
      /\ web[w].step # "idle" => web[w].sub \in Submission
      /\ todo \in [Handler -> FinalPacket \cup {NoTodo}]
    BY DEF VerdictInv, HandInv, LifeTypeInv, RowsTypeOK, Busy
<1>2. UNCHANGED <<todo, counted>> /\ disturbed \subseteq disturbed'
    BY DEF WebClear, WebRequest, WebUnreachable, WebFailed, WebAborted, WebMark, WebAbort, dbVars
<1>3. UNCHANGED <<fromJudge, grading, stage, phase>>
    BY DEF WebClear, WebRequest, WebUnreachable, WebFailed, WebAborted, WebMark, WebAbort,
           SubmissionRequest, TerminationRequest, judgeVars, vars
<1>4. ASSUME NEW f \in Handler PROVE working'[f] = working[f] \/ working[f] = NoSub
    <2>1. CASE WebRequest(w)
        <3>1. PICK s \in Submission : s = web[w].sub
            BY <1>1, <2>1 DEF WebRequest
        <3>2. PICK r \in Requests : r.id = s /\ Judge(s, r.judge, r.priority)
            BY <2>1, <3>1 DEF WebRequest, SubmissionRequest
        <3>3. r.judge \in JudgeId /\ r.priority \in Priority
            BY BridgeAssumption
        <3> QED  BY <3>2, <3>3, JudgeWork DEF VerdictInv, HandInv
    <2>2. CASE ~WebRequest(w)
        <3>1. working' = working
            BY <2>2 DEF WebClear, WebUnreachable, WebFailed, WebAborted, WebMark, WebAbort,
                        TerminationRequest, Abort, vars, handlerVars
        <3> QED  BY <3>1
    <2> QED  BY <2>1, <2>2
<1>5. ASSUME NEW s \in Submission, AtJudge(s) # {} \/ OwedBy(s) # {}
      PROVE  s \in disturbed \/ cases'[s] = cases[s]
    <2>1. CASE WebClear(w)
        <3>1. cases' = [cases EXCEPT ![web[w].sub] = {}]
            BY <2>1 DEF WebClear
        <3>2. CASE s # web[w].sub
            BY <1>1, <3>1, <3>2
        <3>3. CASE s = web[w].sub
            <4>1. w \in Sites(s)
                BY <3>3 DEF Sites
            <4>2. ~OneHand(s)
                BY <1>5, <4>1 DEF OneHand, Held
            <4> QED  BY <4>2 DEF VerdictInv, HandInv
        <3> QED  BY <3>2, <3>3
    <2>2. CASE ~WebClear(w)
        <3>1. cases' = cases
            BY <2>2 DEF WebRequest, WebUnreachable, WebFailed, WebAborted, WebMark, WebAbort, dbVars
        <3> QED  BY <3>1
    <2> QED  BY <2>1, <2>2
<1>6. ASSUME NEW f \in Handler PROVE HeardInv(f)'
    <2>1. HeardInv(f) /\ CleanInv
        BY DEF VerdictInv, HandInv
    <2>2. Started(f) => working[f] \in Submission /\ AtJudge(working[f]) # {}
        BY <2>1, StartedAtJudge
    <2>3. Started(f) => working[f] \in disturbed' \/ cases'[working[f]] = cases[working[f]]
        BY <1>2, <1>5, <2>2
    <2>4. fromJudge[f] # <<>> => phase'[f] \in {"registered", "up"}
        BY <1>3, <2>1 DEF HeardInv
    <2> QED  BY <1>2, <1>3, <1>4, <2>3, <2>4, SameHeard
<1>7. ASSUME NEW f \in Handler PROVE TodoInv(f)'
    <2>1. todo[f] # NoTodo => todo[f].id \in Submission /\ OwedBy(todo[f].id) # {}
        BY <1>1 DEF FinalPacket, OwedBy
    <2>2. todo[f] # NoTodo => todo[f].id \in disturbed' \/ cases[todo[f].id] \subseteq cases'[todo[f].id]
        BY <1>2, <1>5, <2>1
    <2> QED  BY <1>2, <2>2, SameTodo
<1>8. \A s \in Submission : status'[s] = "D" => status[s] = "D"
    <2>1. ASSUME NEW v \in {"QU", "IE", "AB"}, NEW s, SetStatus(s, v)
          PROVE  \A u \in Submission : status'[u] = "D" => status[u] = "D"
        BY <1>1, <2>1 DEF SetStatus
    <2>2. CASE status' = status
        BY <2>2
    <2> QED  BY <2>1, <2>2 DEF WebClear, WebRequest, WebUnreachable, WebFailed, WebAborted, WebMark,
                WebAbort, dbVars
<1> QED  BY <1>2, <1>6, <1>7, <1>8, SameVerdicts

\* The judge at the other end.
LEMMA OutsideHeard ==
    ASSUME VerdictInv, NEW h \in Handler, Outside(h), NEW f \in Handler
    PROVE  HeardInv(f)'
<1>1. /\ fromJudge \in [Handler -> Seq(FromJudgePacket)] /\ fromJudge[h] \in Seq(FromJudgePacket)
      /\ toJudge[h] \in Seq(ToJudgePacket) /\ stage \in [Handler -> Nat] /\ stage[h] \in Nat
      /\ grading \in [Handler -> Submission \cup {NoSub}] /\ phase \in [Handler -> Phases]
      /\ Talk(toJudge[h], fromJudge[h], working[h], grading[h], sock[h]) /\ ThreadInv(h)
      /\ CleanInv /\ HeardInv(f) /\ HeardInv(h)
    BY DEF VerdictInv, HandInv, CleanInv, BridgeInv, ListInv, ListTypeOK, BridgeTypeOK, TalkInv
<1>2. UNCHANGED <<working, cases, disturbed>>
    BY DEF Outside, ExternalJudge, JudgeStarts, JudgeProgresses, JudgeFinishes, JudgeTerminates,
           JudgeLeaves, ConnectionBreaks, Handshake, handlerVars, dbVars, siteVars
<1>3. /\ working[h] = NoSub => ~Started(h)
      /\ Started(h) => phase[h] \in {"registered", "up"}
    BY <1>1, StartedAtJudge
<1>4. phase'[f] = phase[f] \/ (f = h /\ phase[h] = "new" /\ fromJudge[h] = <<>>)
    <2>1. CASE \E ps \in ProblemLists : Handshake(h, ps)
        BY <1>1, <1>3, <2>1 DEF Handshake, GoTo, Started
    <2>2. CASE ExternalJudge(h) \/ ConnectionBreaks(h)
        BY <2>2 DEF ExternalJudge, JudgeStarts, JudgeProgresses, JudgeFinishes, JudgeTerminates,
                    JudgeLeaves, ConnectionBreaks
    <2> QED  BY <2>1, <2>2 DEF Outside
<1>5. fromJudge[f] # <<>> => phase'[f] \in {"registered", "up"}
    BY <1>1, <1>4 DEF HeardInv
<1>6. ASSUME f # h \/ (fromJudge' = fromJudge /\ stage' = stage /\ grading'[h] \in {grading[h], NoSub})
      PROVE  HeardInv(f)'
    <2>1. fromJudge'[f] = fromJudge[f] /\ stage'[f] = stage[f] /\ grading'[f] \in {grading[f], NoSub}
        <3>1. CASE f = h
            BY <1>6, <3>1
        <3>2. CASE f # h
            BY <1>1, <3>2 DEF Outside, ExternalJudge, JudgeStarts, JudgeProgresses, JudgeFinishes,
               JudgeTerminates, JudgeLeaves, ConnectionBreaks, Handshake, Send, Break, judgeVars
        <3> QED  BY <3>1, <3>2
    <2> QED  BY <1>2, <1>5, <2>1, SameHeard
<1>7. ASSUME f = h, NEW packet \in FromJudgePacket, Send(h, packet), grading[h] # NoSub, phase' = phase,
             stage'[h] \in Nat, stage'[h] = stage[h] \/ stage[h] < Len(Script),
             \A p \in Positions : p <= stage'[h] =>
                p <= stage[h] \/ (packet.name = "test-case-status" /\ packet.position = p),
             packet.name = "grading-begin" => \A p \in Positions : ~(p <= stage'[h]),
             packet.name = "grading-end" => stage'[h] = Len(Script)
      PROVE  HeardInv(f)'
    <2>1. Started(h)
        BY <1>7 DEF Started
    <2>2. phase'[h] \in {"registered", "up"}
        BY <1>3, <1>7, <2>1
    <2>3. fromJudge'[h] = Append(fromJudge[h], packet)
        BY <1>1, <1>7 DEF Send
    <2>4. working[h] \in disturbed \/ Covered(fromJudge'[h], stage'[h], cases[working[h]])
        BY <1>1, <1>7, <2>1, <2>3, SentCovered DEF HeardInv
    <2> QED  BY <1>2, <1>7, <2>2, <2>4 DEF HeardInv
<1>8. CASE JudgeStarts(h) /\ f = h
    <2> DEFINE packet == Reply("submission-acknowledged", Head(toJudge[h]).id, {}, 0)
    <2>1. /\ toJudge[h] # <<>> /\ Head(toJudge[h]).name = "submission-request"
          /\ fromJudge'[h] = Append(fromJudge[h], packet) /\ stage'[h] = 0 /\ phase' = phase
        BY <1>1, <1>8 DEF JudgeStarts, Received, Send
    <2>2. 1 \in Requested(toJudge[h]) /\ Head(toJudge[h]) = toJudge[h][1]
        BY <1>1, <2>1, LenProperties, EmptySeq, HeadTailProperties DEF Requested
    <2>3. fromJudge[h] = <<>> /\ working[h] # NoSub /\ grading[h] = NoSub /\ toJudge[h][1].id = working[h]
        BY <1>1, <2>2 DEF Talk
    <2>4. sock[h] = "open" /\ phase[h] \in {"registered", "up"}
        BY <1>1, <2>1, <2>3 DEF Talk, ThreadInv
    <2>5. packet \in FromJudgePacket /\ packet.name = "submission-acknowledged"
        <3>1. Head(toJudge[h]).id \in Submission
            BY <1>1, <2>2, <2>3 DEF VerdictInv, HandInv, CleanInv, BridgeInv, ListInv, ListTypeOK, Work
        <3> QED  BY <3>1 DEF Reply, FromJudgePacket
    <2> HIDE DEF packet
    <2>6. fromJudge'[h] = <<packet>>
        BY <2>1, <2>3
    <2>7. Covered(fromJudge'[h], stage'[h], cases[working[h]])
        BY <2>1, <2>5, <2>6, BegunCovered
    <2> QED  BY <1>2, <1>8, <2>1, <2>4, <2>7 DEF HeardInv
<1>9. CASE JudgeProgresses(h) /\ f = h
    <2> DEFINE packet == Reply(Script[stage[h] + 1], grading[h], {}, stage[h] + 1)
               n == stage[h] + 1
    <2>1. /\ grading[h] # NoSub /\ stage[h] < Len(Script) /\ stage'[h] = n
          /\ Send(h, packet) /\ phase' = phase
        BY <1>1, <1>9 DEF JudgeProgresses
    <2>2. /\ n \in 1 .. Len(Script) /\ n \in Nat /\ n = stage[h] + 1 /\ n \in DOMAIN Script
          /\ Script[n] \in {"grading-begin", "test-case-status"}
        <3>1. n \in 1 .. Len(Script) /\ n \in Nat /\ n = stage[h] + 1
            BY <1>1, <2>1, PositionsOfScript
        <3>2. DOMAIN Script = 1 .. Len(Script)
            BY BridgeAssumption, LenProperties
        <3> QED  BY <3>1, <3>2, PositionsOfScript
    <2>3. packet \in FromJudgePacket /\ packet.name = Script[n] /\ packet.position = n
        BY <1>1, <2>1, <2>2 DEF Reply, FromJudgePacket
    <2> HIDE DEF packet, n
    <2>4. ASSUME NEW p \in Positions, p <= n
          PROVE  p <= stage[h] \/ (packet.name = "test-case-status" /\ packet.position = p)
        <3>1. p \in 1 .. Len(Script) /\ Script[p] = "test-case-status"
            BY PositionsOfScript DEF Positions
        <3>2. p <= stage[h] \/ p = n
            BY <1>1, <2>2, <2>4, <3>1
        <3> QED  BY <2>3, <3>1, <3>2
    <2>5. ASSUME NEW p \in Positions, packet.name = "grading-begin" PROVE ~(p <= n)
        <3>1. p \in DOMAIN Script /\ Script[p] = "test-case-status" /\ p \in Nat
            BY PositionsOfScript DEF Positions
        <3>2. n < p
            BY <2>2, <2>3, <2>5, <3>1, LifecycleAssumption
        <3> QED  BY <2>2, <3>1, <3>2
    <2>6. packet.name # "grading-end"
        BY <2>2, <2>3
    <2> QED  BY <1>7, <1>9, <2>1, <2>2, <2>3, <2>4, <2>5, <2>6
<1>10. ASSUME f = h, NEW v \in FinalPackets, grading[h] # NoSub, phase' = phase, stage' = stage,
              v = "grading-end" => stage[h] = Len(Script), Send(h, Reply(v, grading[h], {}, 0))
       PROVE  HeardInv(f)'
    <2> DEFINE packet == Reply(v, grading[h], {}, 0)
    <2>1. /\ packet \in FromJudgePacket /\ packet.name = v /\ Send(h, packet)
          /\ v \notin {"grading-begin", "test-case-status"}
        BY <1>1, <1>10, NotFinal DEF Reply, FromJudgePacket, FinalPackets
    <2> HIDE DEF packet
    <2> QED  BY <1>1, <1>7, <1>10, <2>1
<1>11. CASE JudgeFinishes(h) /\ f = h
    <2>1. PICK v \in Verdicts : /\ v = "grading-end" => stage[h] = Len(Script)
                                /\ Send(h, Reply(v, grading[h], {}, 0))
        BY <1>11 DEF JudgeFinishes
    <2>2. v \in FinalPackets
        BY DEF FinalPackets
    <2> QED  BY <1>10, <1>11, <2>1, <2>2 DEF JudgeFinishes
<1>12. CASE JudgeTerminates(h) /\ f = h
    <2>1. CASE grading[h] = NoSub
        <3>1. fromJudge' = fromJudge /\ stage' = stage /\ grading'[h] \in {grading[h], NoSub}
            BY <1>1, <1>12, <2>1 DEF JudgeTerminates
        <3> QED  BY <1>6, <3>1
    <2>2. CASE grading[h] # NoSub
        <3>1. "submission-terminated" \in FinalPackets
            BY DEF FinalPackets
        <3> QED  BY <1>10, <1>12, <2>2, <3>1 DEF JudgeTerminates
    <2> QED  BY <2>1, <2>2
<1>13. CASE JudgeLeaves(h) \/ ConnectionBreaks(h) \/ \E ps \in ProblemLists : Handshake(h, ps)
    <2>1. fromJudge' = fromJudge /\ stage' = stage /\ grading'[h] \in {grading[h], NoSub}
        BY <1>1, <1>13 DEF JudgeLeaves, ConnectionBreaks, Handshake, Break, judgeVars
    <2> QED  BY <1>6, <2>1
<1>14. f # h => HeardInv(f)'
    BY <1>6
<1> QED  BY <1>8, <1>9, <1>11, <1>12, <1>13, <1>14 DEF Outside, ExternalJudge

\* The thread of a handler reads, and passes submissions on.
LEMMA ThreadHeard ==
    ASSUME VerdictInv, NEW h \in Handler, Thread(h)
    PROVE  VerdictComplete' /\ \A f \in Handler : HeardInv(f)' /\ TodoInv(f)'
<1>1. /\ fromJudge \in [Handler -> Seq(FromJudgePacket)] /\ fromJudge[h] \in Seq(FromJudgePacket)
      /\ phase \in [Handler -> Phases] /\ stage[h] \in Nat
      /\ Talk(toJudge[h], fromJudge[h], working[h], grading[h], sock[h]) /\ ThreadInv(h)
      /\ CleanInv /\ \A f \in Handler : HeardInv(f)
      /\ status \in [Submission -> Statuses] /\ cases \in [Submission -> SUBSET Positions]
      /\ todo \in [Handler -> FinalPacket \cup {NoTodo}]
    BY DEF VerdictInv, HandInv, CleanInv, BridgeInv, ListInv, ListTypeOK, BridgeTypeOK, TalkInv,
           LifeTypeInv, RowsTypeOK
<1>2. UNCHANGED <<disturbed, counted>>
    BY DEF Thread, Quiet, Acknowledged, Progress, Final, siteVars, dbVars
<1>3. \A f \in Handler : (fromJudge[f] # <<>> => phase[f] \in {"registered", "up"})
    BY <1>1 DEF HeardInv
<1>4. CASE Quiet(h)
    <2>1. UNCHANGED <<status, cases, todo, stage, grading>>
        BY <1>4 DEF Quiet, Register, HandshakeFails, Connected, EndOfStream, Unregister,
                    Disconnected, Requeue, judgeVars, dbVars
    <2>2. ASSUME NEW f \in Handler PROVE HeardInv(f)'
        <3>1. CASE fromJudge'[f] = fromJudge[f]
            <4>1. \A g \in Handler \ {h} : phase'[g] = phase[g]
                BY <1>1, <1>4 DEF Quiet, Register, HandshakeFails, Connected, EndOfStream,
                                  Unregister, Disconnected, Requeue, GoTo
            <4>2. phase'[h] \in {"registered", "up"} \/ phase[h] \notin {"registered", "up"} \/ EndOfStream(h)
                BY <1>1, <1>4 DEF Quiet, Register, HandshakeFails, Connected, Unregister,
                                  Disconnected, Requeue, GoTo
            <4>3. EndOfStream(h) => fromJudge'[h] = <<>>
                BY <1>1 DEF EndOfStream
            <4>4. fromJudge[f] # <<>> => phase'[f] \in {"registered", "up"}
                BY <1>3, <3>1, <4>1, <4>2, <4>3
            <4> QED  BY <1>1, <1>2, <1>4, <2>1, <3>1, <4>4, QuietWork, SameHeard
        <3>2. CASE fromJudge'[f] # fromJudge[f]
            <4>1. EndOfStream(h) /\ f = h
                BY <1>1, <1>4, <3>2 DEF Quiet, Register, HandshakeFails, Connected, EndOfStream,
                                        Unregister, Disconnected, Requeue, judgeVars
            <4>2. fromJudge'[f] = <<>> /\ sock[h] # "open"
                BY <1>1, <4>1 DEF EndOfStream
            <4>3. grading'[f] = NoSub
                BY <1>1, <2>1, <4>1, <4>2 DEF Talk
            <4> QED  BY <4>2, <4>3 DEF HeardInv, Started
        <3> QED  BY <3>1, <3>2
    <2>3. \A f \in Handler : TodoInv(f)'
        BY <1>2, <2>1, SameTodo
    <2> QED  BY <1>2, <2>1, <2>2, <2>3, SameVerdicts
<1>5. CASE Acknowledged(h)
    <2>1. /\ phase[h] = "up" /\ fromJudge[h] # <<>> /\ UNCHANGED <<cases, todo, working, stage, phase>>
          /\ Head(fromJudge[h]).name = "submission-acknowledged"
          /\ fromJudge' = [fromJudge EXCEPT ![h] = Tail(@)]
        BY <1>5 DEF Acknowledged, HandleAcknowledged, Incoming
    <2>2. Head(fromJudge[h]).id = working[h]
        BY <1>1, <2>1, NotFinal, Heard
    <2>3. UNCHANGED grading
        BY <1>5, <2>2 DEF Acknowledged, HandleAcknowledged
    <2>4. \A s \in Submission : status'[s] = "D" => status[s] = "D"
        BY <1>5, <2>2 DEF Acknowledged
    <2>5. \A f \in Handler \ {h} : HeardInv(f)'
        BY <1>1, <1>2, <1>3, <2>1, <2>3, SameHeard
    <2>6. HeardInv(h)'
        <3>1. working[h] \in disturbed \/ Covered(fromJudge[h], stage[h], cases[working[h]])
            BY <1>1, <2>1 DEF HeardInv, Started
        <3>2. working[h] \in disturbed \/ Covered(Tail(fromJudge[h]), stage[h], cases[working[h]])
            BY <1>1, <2>1, <3>1, ReadCovered
        <3>3. fromJudge'[h] = Tail(fromJudge[h])
            BY <1>1, <2>1
        <3> QED  BY <1>2, <2>1, <2>3, <3>2, <3>3 DEF HeardInv
    <2>7. \A f \in Handler : TodoInv(f)'
        BY <1>2, <2>1, SameTodo
    <2> QED  BY <1>2, <2>4, <2>5, <2>6, <2>7, SameVerdicts
<1>6. CASE Progress(h)
    <2>1. PICK packet : packet = Head(fromJudge[h])
        OBVIOUS
    <2>2. /\ phase[h] = "up" /\ fromJudge[h] # <<>> /\ UNCHANGED <<todo, working, stage, phase, grading>>
          /\ packet.name \in {"grading-begin", "test-case-status"}
          /\ fromJudge' = [fromJudge EXCEPT ![h] = Tail(@)]
          /\ IF packet.name = "grading-begin"
             THEN BeginGrading(packet.id) ELSE AddCase(packet.id, packet.position)
        BY <1>6, <2>1 DEF Progress, HandleProgress, Incoming, handlerVars
    <2>3. Head(fromJudge[h]).name \notin FinalPackets
        BY <2>1, <2>2, NotFinal
    <2>4. packet.id = working[h]
        BY <1>1, <2>1, <2>2, <2>3, Heard
    <2>5. working[h] \in Submission /\ h \in AtJudge(working[h])
        BY <1>1, <2>2, StartedAtJudge DEF Started
    <2>6. /\ \A s \in Submission \ {working[h]} : cases'[s] = cases[s]
          /\ packet.name # "grading-begin" => cases'[working[h]] = cases[working[h]] \cup {packet.position}
        BY <1>1, <2>2, <2>4, <2>5 DEF BeginGrading, AddCase
    <2>7. working[h] \in disturbed \/ OneHand(working[h])
        BY <2>5 DEF VerdictInv, HandInv
    <2>8. \A s \in Submission : status'[s] = "D" => status[s] = "D"
        BY <1>1, <2>2 DEF BeginGrading, AddCase, SetStatus
    <2>9. ASSUME NEW f \in Handler \ {h} PROVE HeardInv(f)'
        <3>1. Started(f) => working[f] \in Submission /\ f \in AtJudge(working[f])
            BY <1>1, StartedAtJudge
        <3>2. Started(f) /\ working[f] = working[h] => working[h] \in disturbed
            BY <2>5, <2>7, <3>1 DEF OneHand, OneHold, AtMostOne
        <3>3. Started(f) => working[f] \in disturbed' \/ cases'[working[f]] = cases[working[f]]
            BY <1>2, <2>6, <3>1, <3>2
        <3> QED  BY <1>1, <1>2, <1>3, <2>2, <3>3, SameHeard
    <2>10. HeardInv(h)'
        <3>1. working[h] \in disturbed \/ Covered(fromJudge[h], stage[h], cases[working[h]])
            BY <1>1, <2>2 DEF HeardInv, Started
        <3>2. /\ packet.name = "grading-begin" \/ cases[working[h]] \subseteq cases'[working[h]]
              /\ packet.name = "test-case-status" => packet.position \in cases'[working[h]]
            BY <2>2, <2>6
        <3>3. working[h] \in disturbed \/ Covered(Tail(fromJudge[h]), stage[h], cases'[working[h]])
            BY <1>1, <2>1, <2>2, <3>1, <3>2, ReadCovered
        <3>4. fromJudge'[h] = Tail(fromJudge[h])
            BY <1>1, <2>2
        <3> QED  BY <1>2, <2>2, <3>3, <3>4 DEF HeardInv
    <2>11. ASSUME NEW f \in Handler PROVE TodoInv(f)'
        <3>1. todo[f] # NoTodo => todo[f].id \in Submission /\ OwedBy(todo[f].id) # {}
            BY <1>1 DEF FinalPacket, OwedBy
        <3>2. todo[f] # NoTodo /\ todo[f].id = working[h] => working[h] \in disturbed
            BY <2>5, <2>7, <3>1 DEF OneHand, Held
        <3>3. todo[f] # NoTodo => todo[f].id \in disturbed' \/ cases[todo[f].id] \subseteq cases'[todo[f].id]
            BY <1>2, <2>6, <3>1, <3>2
        <3> QED  BY <1>2, <2>2, <3>3, SameTodo
    <2> QED  BY <1>2, <2>8, <2>9, <2>10, <2>11, SameVerdicts
<1>7. CASE todo[h] = NoTodo /\ Final(h)
    <2>1. PICK packet : packet = Head(fromJudge[h])
        OBVIOUS
    <2>2. /\ HandleFinal(h) /\ UNCHANGED <<status, cases, phase, stage, grading>>
          /\ fromJudge[h] # <<>> /\ packet.name \in FinalPackets
          /\ fromJudge' = [fromJudge EXCEPT ![h] = Tail(@)]
        BY <1>7, <2>1 DEF Final, HandleFinal, Incoming, dbVars
    <2>3. /\ packet.id = working[h] /\ working[h] \in Submission /\ submissionMap[packet.id] = h
          /\ \A f \in Handler \ {h} : working'[f] = working[f]
        BY <1>1, <2>1, <2>2, FinalHands
    <2>4. Tail(fromJudge[h]) = <<>>
        BY <1>1, <2>1, <2>2, EndTalk
    <2>5. /\ DOMAIN fromJudge[h] = {1} /\ fromJudge[h][1] = packet /\ grading[h] = NoSub
        <3>1. /\ Len(fromJudge[h]) \in Nat /\ Len(fromJudge[h]) > 0
              /\ Len(Tail(fromJudge[h])) = Len(fromJudge[h]) - 1 /\ packet = fromJudge[h][1]
              /\ DOMAIN fromJudge[h] = 1 .. Len(fromJudge[h])
            BY <1>1, <2>1, <2>2, LenProperties, EmptySeq, HeadTailProperties
        <3>2. Len(fromJudge[h]) = 1
            <4>1. Tail(fromJudge[h]) \in Seq(FromJudgePacket)
                BY <1>1, <2>2, HeadTailProperties
            <4>2. Len(Tail(fromJudge[h])) = 0
                BY <2>4, <4>1, EmptySeq
            <4> QED  BY <3>1, <4>2
        <3>3. 1 \in Ended(fromJudge[h])
            BY <2>2, <3>1, <3>2 DEF Ended
        <3> QED  BY <1>1, <3>1, <3>2, <3>3 DEF Talk
    <2>6. ASSUME NEW f \in Handler \ {h} PROVE HeardInv(f)'
        <3>1. fromJudge[f] # <<>> => phase'[f] \in {"registered", "up"}
            BY <1>3, <2>2
        <3> QED  BY <1>1, <1>2, <2>2, <2>3, <3>1, SameHeard
    <2>7. HeardInv(h)'
        BY <1>1, <2>2, <2>4, <2>5 DEF HeardInv, Started
    <2>8. todo' = [todo EXCEPT ![h] = [name |-> packet.name, id |-> packet.id]]
        BY <1>7, <2>1, <2>3, ConstantsAssumption DEF Final
    <2>9. ASSUME NEW f \in Handler \ {h} PROVE TodoInv(f)'
        <3>1. todo'[f] = todo[f]
            BY <1>1, <2>8
        <3> QED  BY <1>2, <2>2, <3>1, SameTodo
    <2>10. TodoInv(h)'
        <3>1. todo'[h] = [name |-> packet.name, id |-> packet.id]
            BY <1>1, <2>8
        <3>2. packet.name = "grading-end" =>
                 working[h] \in disturbed \/ Positions \subseteq cases[working[h]]
            <4>1. working[h] \in disturbed \/ Covered(fromJudge[h], stage[h], cases[working[h]])
                BY <1>1, <2>2 DEF HeardInv, Started
            <4> QED  BY <2>5, <4>1, EndCovered
        <3> QED  BY <1>2, <2>2, <2>3, <3>1, <3>2 DEF TodoInv
    <2>11. VerdictComplete'
        BY <1>2, <2>2, SameVerdicts
    <2> QED  BY <2>6, <2>7, <2>9, <2>10, <2>11
<1> QED  BY <1>4, <1>5, <1>6, <1>7 DEF Thread

\* The verdict is written.
LEMMA VerdictWritten ==
    ASSUME VerdictInv, NEW h \in Handler, Verdict(h), UNCHANGED siteVars
    PROVE  VerdictComplete' /\ \A f \in Handler : HeardInv(f)' /\ TodoInv(f)'
<1>1. /\ status \in [Submission -> Statuses] /\ cases \in [Submission -> SUBSET Positions]
      /\ counted \in [Submission -> SUBSET Positions]
      /\ todo \in [Handler -> FinalPacket \cup {NoTodo}] /\ TodoInv(h) /\ VerdictComplete
    BY DEF VerdictInv, HandInv, LifeTypeInv, RowsTypeOK
<1>2. PICK id : id = todo[h].id
    OBVIOUS
<1>3. /\ todo[h] # NoTodo /\ UNCHANGED <<vars, cases, disturbed>>
      /\ status' = [status EXCEPT ![id] = VerdictStatus(todo[h].name)]
      /\ counted' = IF todo[h].name = "grading-end"
                    THEN [counted EXCEPT ![id] = cases[id]] ELSE counted
      /\ todo' = [todo EXCEPT ![h] = NoTodo]
    BY <1>2 DEF Verdict, SetStatus, siteVars
<1>4. id \in Submission /\ todo[h].name \in FinalPackets
    BY <1>1, <1>2, <1>3 DEF FinalPacket
<1>5. VerdictStatus(todo[h].name) = "D" => todo[h].name = "grading-end"
    BY <1>4, BridgeAssumption DEF VerdictStatus, FinalPackets
<1>6. ASSUME NEW s \in Submission, s \notin disturbed', status'[s] = "D" PROVE counted'[s] = Positions
    <2>1. CASE s = id
        <3>1. todo[h].name = "grading-end"
            BY <1>1, <1>3, <1>5, <1>6, <2>1
        <3>2. Positions \subseteq cases[id]
            BY <1>1, <1>2, <1>3, <1>6, <2>1, <3>1 DEF TodoInv
        <3> QED  BY <1>1, <1>3, <1>4, <2>1, <3>1, <3>2
    <2>2. CASE s # id
        BY <1>1, <1>3, <1>6, <2>2 DEF VerdictComplete
    <2> QED  BY <2>1, <2>2
<1>7. VerdictComplete'
    BY <1>6 DEF VerdictComplete
<1>8. \A f \in Handler : HeardInv(f)'
    BY <1>3 DEF VerdictInv, HeardInv, Started, vars, judgeVars, handlerVars
<1>9. ASSUME NEW f \in Handler PROVE TodoInv(f)'
    <2>1. todo'[f] \in {todo[f], NoTodo}
        BY <1>1, <1>3
    <2> QED  BY <1>3, <2>1, SameTodo
<1> QED  BY <1>7, <1>8, <1>9

LEMMA NextVerdictInv == VerdictInv /\ [LifeNext]_lifeVars => VerdictInv'
<1> SUFFICES ASSUME VerdictInv, [LifeNext]_lifeVars PROVE VerdictInv'
    OBVIOUS
<1>1. HandInv'
    BY NextHandInv DEF VerdictInv
<1> DEFINE Goal == VerdictComplete' /\ \A f \in Handler : HeardInv(f)' /\ TodoInv(f)'
<1>2. ASSUME NEW w \in Web,
             \/ WebClear(w) \/ WebRequest(w) \/ WebUnreachable(w) \/ WebFailed(w) \/ WebAborted(w)
             \/ \E s \in Submission : WebMark(w, s) \/ WebAbort(w, s)
      PROVE  Goal
    BY <1>2, WebVerdict
<1>3. ASSUME NEW h \in Handler, Thread(h) PROVE Goal
    BY <1>3, ThreadHeard
<1>4. ASSUME NEW h \in Handler, Verdict(h) /\ UNCHANGED siteVars PROVE Goal
    BY <1>4, VerdictWritten
<1>5. ASSUME NEW h \in Handler, Outside(h) PROVE Goal
    <2>1. UNCHANGED <<status, cases, counted, todo, disturbed>>
        BY <1>5 DEF Outside, dbVars, siteVars
    <2> QED  BY <1>5, <2>1, OutsideHeard, SameTodo, SameVerdicts
<1>6. ASSUME Restart PROVE Goal
    <2>1. /\ status' = [s \in Submission |-> IF s \in InProgress THEN "IE" ELSE status[s]]
          /\ fromJudge' = [f \in Handler |-> <<>>] /\ grading' = [f \in Handler |-> NoSub]
          /\ todo' = [f \in Handler |-> NoTodo]
          /\ disturbed \subseteq disturbed' /\ UNCHANGED counted
        BY <1>6 DEF Restart
    <2>2. \A f \in Handler : HeardInv(f)' /\ TodoInv(f)'
        BY <2>1 DEF HeardInv, Started, TodoInv
    <2>3. VerdictComplete'
        BY <2>1, SameVerdicts
    <2> QED  BY <2>2, <2>3
<1>7. ASSUME UNCHANGED lifeVars PROVE Goal
    BY <1>7 DEF VerdictInv, lifeVars, vars, dbVars, siteVars, handlerVars, judgeVars, VerdictComplete,
                HeardInv, Started, TodoInv
<1>8. Goal
    BY <1>2, <1>3, <1>4, <1>5, <1>6, <1>7 DEF LifeNext
<1> QED  BY <1>1, <1>8 DEF VerdictInv

LEMMA InitVerdictInv == NoFailures /\ ~RejudgeQueued /\ LifeInit => VerdictInv
<1> SUFFICES ASSUME NoFailures, ~RejudgeQueued, LifeInit PROVE VerdictInv
    OBVIOUS
<1>1. LifeTypeInv /\ CleanInv
    BY InitLifeTypeInv, InitCleanInv DEF LifeInit
<1>2. \A w \in Web : Excused(w)
    BY DEF LifeInit, Excused, Idle
<1>3. ASSUME NEW s \in Submission PROVE OneHand(s)
    <2>1. /\ Waiting = {} /\ AtJudge(s) = {} /\ Sites(s) = {} /\ OwedBy(s) = {}
        BY ConstantsAssumption DEF LifeInit, Init, ListInit, Idle, Waiting, AtJudge, Sites, OwedBy
    <2> QED  BY <2>1 DEF OneHand, OneHold, AtMostOne, Held
<1>4. VerdictComplete /\ \A h \in Handler : HeardInv(h) /\ TodoInv(h)
    BY DEF LifeInit, Init, VerdictComplete, HeardInv, Started, TodoInv
<1> QED  BY <1>1, <1>2, <1>3, <1>4 DEF VerdictInv, HandInv

\* "That does not lead to data corruption" (judgeapi.py): as long as no call of the bridge
\* fails and nothing that is queued is rejudged, the verdict of a submission nobody aborted
\* counts every test case the judge sent, whatever connections break and however often the
\* bridge is started again.
THEOREM VerdictsComplete == NoFailures /\ ~RejudgeQueued /\ LifeSpec => []VerdictComplete
<1>1. VerdictInv => VerdictComplete
    BY DEF VerdictInv
<1> QED  BY <1>1, InitVerdictInv, NextVerdictInv, PTL DEF LifeSpec
=============================================================================
