-------------------------- MODULE SendFailureProofs --------------------------
(***************************************************************************)
(* What TLAPS proves of JudgeBridge when sends may raise and judges may be *)
(* cut off by force, but the database answers, no row vanishes and judges  *)
(* report their problems once: a failed send loses no submission, and      *)
(* what it leaves behind, and that aborts still reach their judge.         *)
(***************************************************************************)
EXTENDS NoFailureProofs

SendsMayFail == ~DbErrors /\ ~Vanishing /\ ~Reloads

-----------------------------------------------------------------------------
(* What may be on its way between a handler and its judge: less than Talk, *)
(* because a judge whose submission was taken off submission_map by        *)
(* another one stays at work with nothing to come.                         *)

\* A termination meant for another submission than w is read before the judge starts on w.
Aimed(to, w, g) ==
    \A i \in DOMAIN to : to[i].name = "terminate-submission" /\ to[i].id # w =>
        g = NoSub /\ \A j \in Requested(to) : i < j

Speech(to, from, w, g) ==
    /\ \A i \in Requested(to) :
          /\ to[i].id = w /\ w # NoSub /\ g = NoSub /\ from = <<>>
          /\ Requested(to) = {i}
    /\ \A i \in DOMAIN from :
          from[i].id = w /\ w # NoSub /\ from[i].name # "supported-problems"
    /\ \A i \in Ended(from) : i = Len(from) /\ g = NoSub
    /\ g # NoSub => g = w
    /\ Aimed(to, w, g)

LEMMA NoneSpeaks == Requested(<<>>) = {} /\ Ended(<<>>) = {} /\ DOMAIN <<>> = {}
BY DEF Requested, Ended

\* An idle judge has nothing to say and no request to read.
LEMMA IdleSpeech ==
    ASSUME NEW to, NEW from \in Seq(FromJudgePacket), NEW g, Speech(to, from, NoSub, g)
    PROVE  from = <<>> /\ g = NoSub /\ Requested(to) = {}
<1>1. DOMAIN from = {}
    BY DEF Speech
<1>2. from = <<>>
    BY <1>1, LenProperties, EmptySeq
<1> QED  BY <1>2 DEF Speech

\* submit() to an idle judge: the request is under way, or it is lost.
LEMMA DispatchSpeech ==
    ASSUME NEW to \in Seq(ToJudgePacket), NEW from \in Seq(FromJudgePacket), NEW g,
           NEW s \in Submission, Speech(to, from, NoSub, g)
    PROVE  /\ Speech(Append(to, Packet("submission-request", s)), from, s, g)
           /\ Speech(to, from, s, g)
<1>1. from = <<>> /\ g = NoSub /\ Requested(to) = {}
    BY IdleSpeech
<1>2. s # NoSub
    BY ConstantsAssumption
<1>3. Speech(to, from, s, g)
    BY <1>1, <1>2, NoneSpeaks DEF Speech, Aimed
<1> DEFINE packet == Packet("submission-request", s)
           r == Append(to, packet)
           n == Len(to)
<1>4. packet \in ToJudgePacket /\ packet.name = "submission-request" /\ packet.id = s
    BY DEF Packet, ToJudgePacket
<1> HIDE DEF packet
<1>5. /\ n \in Nat /\ DOMAIN to = 1 .. n /\ DOMAIN r = 1 .. n + 1
      /\ r[n + 1] = packet /\ \A i \in 1 .. n : r[i] = to[i]
    BY <1>4, Appended
<1> HIDE DEF r, n
<1>6. Requested(r) = {n + 1} /\ r[n + 1].id = s
    BY <1>1, <1>4, <1>5 DEF Requested
<1>7. Aimed(r, s, g)
    BY <1>1, <1>4, <1>5, <1>6 DEF Aimed
<1>8. Speech(r, from, s, g)
    BY <1>1, <1>2, <1>6, <1>7, NoneSpeaks DEF Speech
<1> QED  BY <1>3, <1>8 DEF r, packet

\* The handler reads a packet that is not a final one.
LEMMA ReadSpeech ==
    ASSUME NEW to, NEW from \in Seq(FromJudgePacket), NEW w, NEW g,
           Speech(to, from, w, g), from # <<>>, Head(from).name \notin FinalPackets
    PROVE  /\ Speech(to, Tail(from), w, g)
           /\ Head(from).id = w /\ Head(from).name # "supported-problems"
<1> DEFINE r == Tail(from)
           n == Len(from)
<1>1. /\ n \in Nat /\ n > 0 /\ DOMAIN from = 1 .. n /\ DOMAIN r = 1 .. n - 1 /\ Len(r) = n - 1
      /\ Head(from) = from[1]
      /\ \A i \in 1 .. n - 1 : r[i] = from[i + 1]
    BY LenProperties, EmptySeq, HeadTailProperties
<1> HIDE DEF r, n
<1>2. Requested(to) = {}
    BY DEF Speech
<1>3. \A i \in DOMAIN r : r[i].id = w /\ w # NoSub /\ r[i].name # "supported-problems"
    BY <1>1 DEF Speech
<1>4. \A i \in Ended(r) : i = Len(r) /\ g = NoSub
    <2> SUFFICES ASSUME NEW i \in Ended(r) PROVE i = Len(r) /\ g = NoSub
        OBVIOUS
    <2>1. i + 1 \in Ended(from)
        BY <1>1 DEF Ended
    <2>2. i + 1 = n /\ g = NoSub
        BY <2>1 DEF Speech, n
    <2> QED  BY <1>1, <2>2 DEF Ended
<1>5. Speech(to, r, w, g)
    BY <1>2, <1>3, <1>4 DEF Speech
<1>6. Head(from).id = w /\ Head(from).name # "supported-problems"
    BY <1>1 DEF Speech
<1> QED  BY <1>5, <1>6 DEF r

\* The handler reads a final packet: it was the last of its submission.
LEMMA EndSpeech ==
    ASSUME NEW to, NEW from \in Seq(FromJudgePacket), NEW w, NEW g,
           Speech(to, from, w, g), from # <<>>, Head(from).name \in FinalPackets
    PROVE  /\ Tail(from) = <<>> /\ Head(from).id = w /\ w # NoSub
           /\ Speech(to, <<>>, NoSub, g) /\ Speech(to, <<>>, w, g)
<1>1. /\ Len(from) \in Nat /\ Len(from) > 0 /\ DOMAIN from = 1 .. Len(from)
      /\ Head(from) = from[1] /\ Tail(from) \in Seq(FromJudgePacket)
      /\ Len(Tail(from)) = Len(from) - 1
    BY LenProperties, EmptySeq, HeadTailProperties
<1>2. 1 \in Ended(from)
    BY <1>1 DEF Ended
<1>3. Len(from) = 1 /\ g = NoSub
    BY <1>2 DEF Speech
<1>4. Tail(from) = <<>>
    <2>1. Len(Tail(from)) = 0
        BY <1>1, <1>3
    <2> QED  BY <1>1, <2>1, EmptySeq
<1>5. Head(from).id = w /\ w # NoSub
    BY <1>1 DEF Speech
<1>6. Requested(to) = {}
    BY DEF Speech
<1>7. Aimed(to, NoSub, g) /\ Aimed(to, w, g)
    BY <1>3, <1>6 DEF Aimed
<1>8. Speech(to, <<>>, NoSub, g) /\ Speech(to, <<>>, w, g)
    BY <1>3, <1>6, <1>7, NoneSpeaks DEF Speech
<1> QED  BY <1>4, <1>5, <1>8

\* The judge sends something about what it grades: more to come, or the final packet.
LEMMA SaySpeech ==
    ASSUME NEW to, NEW from \in Seq(FromJudgePacket), NEW w, NEW g,
           NEW packet \in FromJudgePacket, Speech(to, from, w, g), g # NoSub,
           packet.id = g, packet.name # "supported-problems"
    PROVE  /\ packet.name \notin FinalPackets => Speech(to, Append(from, packet), w, g)
           /\ packet.name \in FinalPackets => Speech(to, Append(from, packet), w, NoSub)
<1> DEFINE r == Append(from, packet)
           n == Len(from)
<1>1. /\ n \in Nat /\ DOMAIN from = 1 .. n /\ DOMAIN r = 1 .. n + 1 /\ Len(r) = n + 1
      /\ r[n + 1] = packet /\ \A i \in 1 .. n : r[i] = from[i]
    BY Appended
<1> HIDE DEF r, n
<1>2. Requested(to) = {} /\ Ended(from) = {} /\ g = w
    BY DEF Speech
<1>3. \A i \in Ended(r) : i = n + 1 /\ packet.name \in FinalPackets
    BY <1>1, <1>2 DEF Ended
<1>4. \A i \in DOMAIN r : r[i].id = w /\ w # NoSub /\ r[i].name # "supported-problems"
    BY <1>1, <1>2 DEF Speech
<1>5. packet.name \notin FinalPackets => Speech(to, r, w, g)
    BY <1>2, <1>3, <1>4 DEF Speech
<1>6. Aimed(to, w, NoSub)
    BY <1>2 DEF Aimed
<1>7. packet.name \in FinalPackets => Speech(to, r, w, NoSub)
    BY <1>1, <1>2, <1>3, <1>4, <1>6 DEF Speech
<1> QED  BY <1>5, <1>7 DEF r

\* The judge reads a packet that is not a request.
LEMMA OtherSpeech ==
    ASSUME NEW to \in Seq(ToJudgePacket), NEW from, NEW w, NEW g,
           Speech(to, from, w, g), to # <<>>, Head(to).name # "submission-request"
    PROVE  Speech(Tail(to), from, w, g)
<1> DEFINE r == Tail(to)
           n == Len(to)
<1>1. /\ n \in Nat /\ n > 0 /\ DOMAIN to = 1 .. n /\ DOMAIN r = 1 .. n - 1
      /\ Head(to) = to[1] /\ \A i \in 1 .. n - 1 : r[i] = to[i + 1]
    BY LenProperties, EmptySeq, HeadTailProperties
<1> HIDE DEF r, n
<1>2. \A i \in Requested(r) : i + 1 \in Requested(to) /\ r[i] = to[i + 1] /\ i \in Nat
    BY <1>1 DEF Requested
<1>3. ASSUME NEW i \in Requested(r)
      PROVE  /\ r[i].id = w /\ w # NoSub /\ g = NoSub /\ from = <<>>
             /\ Requested(r) = {i}
    <2>1. /\ r[i].id = w /\ w # NoSub /\ g = NoSub /\ from = <<>>
          /\ Requested(to) = {i + 1}
        BY <1>2 DEF Speech
    <2>2. \A j \in Requested(r) : j = i
        BY <1>2, <2>1
    <2> QED  BY <2>1, <2>2
<1>4. Aimed(r, w, g)
    <2> SUFFICES ASSUME NEW i \in DOMAIN r, r[i].name = "terminate-submission", r[i].id # w
                 PROVE  g = NoSub /\ \A j \in Requested(r) : i < j
        BY DEF Aimed
    <2>1. i \in Nat /\ i + 1 \in DOMAIN to /\ r[i] = to[i + 1]
        BY <1>1
    <2>2. g = NoSub /\ \A j \in Requested(to) : i + 1 < j
        BY <2>1 DEF Speech, Aimed
    <2> QED  BY <1>2, <2>1, <2>2
<1>5. Speech(r, from, w, g)
    BY <1>3, <1>4 DEF Speech
<1> QED  BY <1>5 DEF r

\* The judge reads its request and starts.
LEMMA StartSpeech ==
    ASSUME NEW to \in Seq(ToJudgePacket), NEW from \in Seq(FromJudgePacket), NEW w, NEW g,
           NEW packet \in FromJudgePacket,
           Speech(to, from, w, g), to # <<>>, Head(to).name = "submission-request",
           packet.name = "submission-acknowledged", packet.id = Head(to).id
    PROVE  Head(to).id = w /\ Speech(Tail(to), Append(from, packet), w, w)
<1> DEFINE r == Tail(to)
           n == Len(to)
           q == Append(from, packet)
<1>1. /\ n \in Nat /\ n > 0 /\ DOMAIN to = 1 .. n /\ DOMAIN r = 1 .. n - 1
      /\ Head(to) = to[1] /\ \A i \in 1 .. n - 1 : r[i] = to[i + 1]
    BY LenProperties, EmptySeq, HeadTailProperties
<1>2. 1 \in Requested(to)
    BY <1>1 DEF Requested
<1>3. to[1].id = w /\ w # NoSub /\ from = <<>> /\ Requested(to) = {1}
    BY <1>2 DEF Speech
<1>4. DOMAIN q = {1} /\ q[1] = packet
    <2>1. DOMAIN q = 1 .. 1 /\ q[1] = packet
        BY <1>3, Appended, EmptySeq
    <2> QED  BY <2>1
<1> HIDE DEF r, n, q
<1>5. Requested(r) = {}
    <2> SUFFICES ASSUME NEW i \in Requested(r) PROVE FALSE
        OBVIOUS
    <2>1. i \in Nat /\ i > 0 /\ i + 1 \in Requested(to)
        BY <1>1 DEF Requested
    <2> QED  BY <1>3, <2>1
<1>6. Ended(q) = {}
    <2>1. "submission-acknowledged" \notin FinalPackets
        BY BridgeAssumption DEF FinalPackets
    <2> QED  BY <1>4, <2>1 DEF Ended
<1>7. Aimed(r, w, w)
    <2> SUFFICES ASSUME NEW i \in DOMAIN r, r[i].name = "terminate-submission", r[i].id # w
                 PROVE  FALSE
        BY DEF Aimed
    <2>1. i \in Nat /\ i > 0 /\ i + 1 \in DOMAIN to /\ r[i] = to[i + 1]
        BY <1>1
    <2>2. i + 1 < 1
        BY <1>2, <2>1 DEF Speech, Aimed
    <2> QED  BY <2>1, <2>2
<1>8. Speech(r, q, w, w)
    BY <1>1, <1>3, <1>4, <1>5, <1>6, <1>7 DEF Speech
<1> QED  BY <1>1, <1>3, <1>8 DEF r, q

\* A packet that is not a request is sent to the judge.
LEMMA AskSpeech ==
    ASSUME NEW to \in Seq(ToJudgePacket), NEW from, NEW w, NEW g,
           NEW packet \in ToJudgePacket, Speech(to, from, w, g),
           packet.name # "submission-request",
           packet.name = "terminate-submission" => packet.id = w
    PROVE  Speech(Append(to, packet), from, w, g)
<1> DEFINE r == Append(to, packet)
           n == Len(to)
<1>1. /\ n \in Nat /\ DOMAIN to = 1 .. n /\ DOMAIN r = 1 .. n + 1
      /\ r[n + 1] = packet /\ \A i \in 1 .. n : r[i] = to[i]
    BY Appended
<1> HIDE DEF r, n
<1>2. Requested(r) = Requested(to) /\ \A i \in Requested(r) : r[i] = to[i]
    BY <1>1 DEF Requested
<1>3. Aimed(r, w, g)
    <2> SUFFICES ASSUME NEW i \in DOMAIN r, r[i].name = "terminate-submission", r[i].id # w
                 PROVE  g = NoSub /\ \A j \in Requested(r) : i < j
        BY DEF Aimed
    <2>1. i \in DOMAIN to /\ r[i] = to[i]
        BY <1>1
    <2> QED  BY <1>2, <2>1 DEF Speech, Aimed
<1>4. Speech(r, from, w, g)
    BY <1>2, <1>3 DEF Speech
<1> QED  BY <1>4 DEF r

\* The connection is cut, and the handler's thread meets its end.
LEMMA CutSpeech ==
    ASSUME NEW to, NEW from, NEW w, NEW g, Speech(to, from, w, g)
    PROVE  /\ Speech(<<>>, from, w, NoSub) /\ Speech(to, from, w, NoSub)
           /\ Speech(to, <<>>, w, g)
<1>1. Speech(<<>>, from, w, NoSub) /\ Speech(to, from, w, NoSub)
    BY NoneSpeaks DEF Speech, Aimed
<1>2. Speech(to, <<>>, w, g)
    BY NoneSpeaks DEF Speech
<1> QED  BY <1>1, <1>2

-----------------------------------------------------------------------------
(* The inductive invariant.                                                *)

SpeechInv(h) == Speech(toJudge[h], fromJudge[h], working[h], grading[h])

\* The phases in which a thread has been given to the list and has not taken its judge back.
AtWork == {"registered", "up", "dropped"}

\* Who is in submission_map works on the submission, and has not been removed.  When the
\* submission waits as well, its send failed: the judge is out of the set and its connection
\* is lost.  This speaks of the maps as a method of JudgeList finds them.
Linked(sm, js, w, ph) ==
    \A s \in Submission : sm[s] # NoJudge =>
       /\ w[sm[s]] = s /\ ph[sm[s]] \in AtWork
       /\ s \in Waiting => sm[s] \notin js /\ sock[sm[s]] # "open"

LinkInv ==
    \A s \in Submission : submissionMap[s] # NoJudge =>
       /\ working[submissionMap[s]] = s /\ phase[submissionMap[s]] \in AtWork
       /\ s \in Waiting =>
             submissionMap[s] \notin judges /\ sock[submissionMap[s]] # "open"

\* The phases of a thread, the set of judges and the row of the judge go together.  A judge
\* whose send failed leaves the set before its thread does.
CourseInv(h) ==
    /\ phase[h] # "updating"
    /\ phase[h] \in {"new", "named"} => working[h] = NoSub
    /\ h \in judges => phase[h] \in AtWork
    /\ phase[h] = "up" \/ (phase[h] = "dropped" /\ h \in judges) => row[h]
    /\ phase[h] \in {"dropped", "removed"} => row[h] \/ working[h] = NoSub

SendInv ==
    /\ SendsMayFail /\ BridgeInv /\ rows = Submission
    /\ NoLostSubmission /\ LinkInv
    /\ \A h \in Handler : CourseInv(h) /\ SpeechInv(h)

LEMMA SendInvImplies ==
    ASSUME SendInv
    PROVE  NoLostSubmission /\ ClashAfterFailedSend /\ AbortHitsTarget
<1>1. ASSUME NEW s \in Waiting, submissionMap[s] # NoJudge
      PROVE  /\ submissionMap[s] \notin judges /\ working[submissionMap[s]] = s
             /\ sock[submissionMap[s]] # "open" /\ phase[submissionMap[s]] # "gone"
    BY <1>1 DEF SendInv, LinkInv, AtWork, Waiting
<1>2. AbortHitsTarget
    <2> SUFFICES ASSUME NEW h \in Handler, toJudge[h] # <<>>, grading[h] # NoSub,
                        Head(toJudge[h]).name = "terminate-submission"
                 PROVE  Head(toJudge[h]).id = grading[h]
        BY DEF AbortHitsTarget
    <2>1. toJudge[h] \in Seq(ToJudgePacket) /\ SpeechInv(h)
        BY DEF SendInv, BridgeInv, ListInv, ListTypeOK
    <2>2. 1 \in DOMAIN toJudge[h] /\ Head(toJudge[h]) = toJudge[h][1]
        BY <2>1, LenProperties, EmptySeq, HeadTailProperties
    <2> QED  BY <2>1, <2>2 DEF SpeechInv, Speech, Aimed
<1> QED  BY <1>1, <1>2 DEF SendInv, ClashAfterFailedSend

LEMMA InitSendInv == SendsMayFail /\ Init => SendInv
<1> SUFFICES ASSUME SendsMayFail, Init PROVE SendInv
    OBVIOUS
<1>1. BridgeInv
    BY InitBridgeInv
<1>2. rows = Submission /\ LinkInv /\ NoLostSubmission
    BY DEF Init, ListInit, LinkInv, NoLostSubmission
<1>3. ASSUME NEW h \in Handler PROVE CourseInv(h) /\ SpeechInv(h)
    <2>1. CourseInv(h)
        BY DEF Init, ListInit, CourseInv
    <2>2. SpeechInv(h)
        BY NoneSpeaks DEF Init, ListInit, SpeechInv, Speech, Aimed
    <2> QED  BY <2>1, <2>2
<1> QED  BY <1>1, <1>2, <1>3 DEF SendInv

-----------------------------------------------------------------------------
(* What the methods of JudgeList do when only sends fail.                  *)

\* A dispatch sends its request, or finds the connection lost.
LEMMA SentOrLost ==
    ASSUME SendsMayFail, rows = Submission, NEW h \in Handler, NEW s \in Submission,
           NEW outcome \in Outcomes(h, s)
    PROVE  outcome = "sent" \/ (outcome = "sendError" /\ sock[h] # "open")
BY DEF SendsMayFail, Outcomes

\* The work of h, so far w, stays as it is, or is a submission whose request is sent or lost.
Charged(h, w) ==
    \/ working'[h] = w /\ toJudge'[h] = toJudge[h]
    \/ /\ w = NoSub /\ working'[h] \in Submission
       /\ \/ toJudge'[h] = toJudge[h]
          \/ toJudge'[h] = Append(toJudge[h], Packet("submission-request", working'[h]))

LEMMA ChargedSpeech ==
    ASSUME BridgeInv, NEW h \in Handler, NEW from \in Seq(FromJudgePacket), NEW w, NEW g,
           Speech(toJudge[h], from, w, g), Charged(h, w)
    PROVE  Speech(toJudge'[h], from, working'[h], g)
<1>1. toJudge[h] \in Seq(ToJudgePacket)
    BY DEF BridgeInv, ListInv, ListTypeOK
<1>2. CASE working'[h] = w /\ toJudge'[h] = toJudge[h]
    BY <1>2
<1>3. CASE /\ w = NoSub /\ working'[h] \in Submission
           /\ \/ toJudge'[h] = toJudge[h]
              \/ toJudge'[h] = Append(toJudge[h], Packet("submission-request", working'[h]))
    BY <1>1, <1>3, DispatchSpeech
<1> QED  BY <1>2, <1>3 DEF Charged

\* submit(), whether its packet is sent or not.
LEMMA SubmitCharges ==
    ASSUME ListInv, NEW h \in Handler, NEW s \in Submission, NEW w \in Work, w[h] = NoSub,
           NEW outcome \in {"sent", "sendError"}, Submit(h, s, outcome, w)
    PROVE  /\ working' = [w EXCEPT ![h] = s] /\ working'[h] = s
           /\ \A f \in Handler : Charged(f, w[f])
           /\ \A f \in Handler \ {h} : working'[f] = w[f] /\ toJudge'[f] = toJudge[f]
<1> DEFINE packet == Packet("submission-request", s)
<1>1. /\ working' = [w EXCEPT ![h] = s]
      /\ toJudge' = toJudge \/ toJudge' = [toJudge EXCEPT ![h] = Append(@, packet)]
    BY DEF Submit, Deliver
<1>2. /\ working'[h] = s /\ \A f \in Handler \ {h} : working'[f] = w[f]
    BY <1>1 DEF Work
<1>3. /\ toJudge'[h] = toJudge[h] \/ toJudge'[h] = Append(toJudge[h], packet)
      /\ \A f \in Handler \ {h} : toJudge'[f] = toJudge[f]
    BY <1>1 DEF ListInv, ListTypeOK
<1>4. ASSUME NEW f \in Handler PROVE Charged(f, w[f])
    BY <1>2, <1>3 DEF Charged
<1> QED  BY <1>1, <1>2, <1>3, <1>4

\* The outcome of _handle_free_judge(h) when js are the judges and w is their work.
Served(h, js, w) ==
    /\ judges' \subseteq js /\ LinkInv'
    /\ \A f \in Handler : Charged(f, w[f])
    /\ \A f \in Handler \ {h} : working'[f] = w[f] /\ toJudge'[f] = toJudge[f]
    /\ \A s \in Submission : s \in Waiting => s \in Waiting' \/ working'[h] = s

\* _handle_free_judge: the judge h takes a submission from the queue, can take none, or turns
\* out to be lost, leaves the set and keeps the submission that stays in the queue.
LEMMA FreeJudgeServed ==
    ASSUME ListInv, SendsMayFail, rows = Submission, NEW h \in Handler,
           NEW sm \in Map, NEW js \in SUBSET Handler, NEW w \in Work, w[h] = NoSub,
           Linked(sm, js, w, phase'), phase'[h] \in AtWork, sock' = sock,
           HandleFreeJudge(h, sm, js, w)
    PROVE  Served(h, js, w)
<1>1. CASE /\ Eligible(h) = {} /\ submissionMap' = sm /\ judges' = js /\ working' = w
           /\ UNCHANGED <<queue, nodeMap, toJudge>>
    <2>1. LinkInv'
        BY <1>1 DEF LinkInv, Linked, Waiting
    <2>2. \A f \in Handler : Charged(f, w[f])
        BY <1>1 DEF Charged
    <2> QED  BY <1>1, <2>1, <2>2 DEF Served, Waiting
<1>2. ASSUME NEW i \in Eligible(h), NEW outcome \in Outcomes(h, queue[i]),
             submissionMap' = [sm EXCEPT ![queue[i]] = h],
             Submit(h, queue[i], outcome, w),
             TakeOut(h, i, outcome, js)
      PROVE  Served(h, js, w)
    <2>1. PICK t \in Submission : t = queue[i]
        BY DEF Eligible
    <2>2. outcome = "sent" \/ (outcome = "sendError" /\ sock[h] # "open")
        BY <2>1, SentOrLost
    <2>3. /\ working' = [w EXCEPT ![h] = t] /\ working'[h] = t
          /\ \A f \in Handler : Charged(f, w[f])
          /\ \A f \in Handler \ {h} : working'[f] = w[f] /\ toJudge'[f] = toJudge[f]
        BY <1>2, <2>1, <2>2, SubmitCharges
    <2>4. /\ submissionMap'[t] = h
          /\ \A s \in Submission \ {t} : submissionMap'[s] = sm[s]
        BY <1>2, <2>1 DEF Map
    <2>5. /\ outcome = "sent" => judges' = js /\ nodeMap' = [nodeMap EXCEPT ![t] = NoNode]
          /\ outcome = "sendError" => judges' = js \ {h} /\ nodeMap' = nodeMap
        BY <1>2, <2>1 DEF TakeOut
    <2>6. /\ outcome = "sent" => Waiting' = Waiting \ {t}
          /\ outcome = "sendError" => Waiting' = Waiting
        BY <2>5 DEF Waiting, ListInv, ListTypeOK
    <2>7. judges' \subseteq js /\ Waiting' \subseteq Waiting /\ Waiting \subseteq Waiting' \cup {t}
        BY <2>2, <2>5, <2>6
    <2>8. ASSUME NEW s \in Submission, submissionMap'[s] # NoJudge
          PROVE  /\ working'[submissionMap'[s]] = s /\ phase'[submissionMap'[s]] \in AtWork
                 /\ s \in Waiting' =>
                       submissionMap'[s] \notin judges' /\ sock[submissionMap'[s]] # "open"
        <3>1. CASE s = t
            BY <2>2, <2>3, <2>4, <2>5, <2>6, <3>1
        <3>2. CASE s # t
            <4>1. submissionMap'[s] = sm[s] /\ s # NoSub /\ sm[s] \in Handler
                BY <2>4, <2>8, <3>2, ConstantsAssumption DEF Map
            <4>2. /\ w[sm[s]] = s /\ phase'[sm[s]] \in AtWork
                  /\ s \in Waiting => sm[s] \notin js /\ sock[sm[s]] # "open"
                BY <2>8, <4>1 DEF Linked
            <4>3. sm[s] # h
                BY <4>1, <4>2
            <4>4. working'[sm[s]] = s
                BY <2>3, <4>1, <4>2, <4>3
            <4> QED  BY <2>7, <4>1, <4>2, <4>4
        <3> QED  BY <3>1, <3>2
    <2>9. LinkInv'
        BY <2>8 DEF LinkInv
    <2>10. \A s \in Submission : s \in Waiting => s \in Waiting' \/ working'[h] = s
        BY <2>3, <2>7
    <2> QED  BY <2>3, <2>7, <2>9, <2>10 DEF Served
<1> QED  BY <1>1, <1>2 DEF HandleFreeJudge

\* judge: the submission is known, waits because no judge can take it, or goes to an idle
\* one, which keeps it even when its connection turns out to be lost.
LEMMA JudgeCharges ==
    ASSUME SendInv, NEW s \in Submission, NEW id \in JudgeId, NEW p \in Priority,
           Judge(s, id, p), \A f \in Handler : phase[f] \in AtWork => phase'[f] = phase[f]
    PROVE  /\ UNCHANGED <<problems, sock, rows>> /\ judges' \subseteq judges /\ LinkInv'
           /\ \A f \in Handler : Charged(f, working[f])
           /\ \A f \in Handler : working'[f] = working[f] \/ f \in judges
           /\ Waiting \subseteq Waiting'
           /\ s \in Waiting' \/ \E f \in Handler : working'[f] = s /\ phase[f] \in AtWork
<1>0. /\ UNCHANGED <<problems, sock, rows>> /\ ListInv /\ LinkInv
      /\ judges \in SUBSET Handler /\ working \in Work /\ submissionMap \in Map
      /\ SendsMayFail /\ rows = Submission
    BY DEF SendInv, Judge, listExternals, BridgeInv, ListInv, ListTypeOK
<1>1. \A f \in judges : phase[f] \in AtWork
    BY <1>0 DEF SendInv, CourseInv
<1>2. ASSUME NEW t \in Submission, submissionMap[t] # NoJudge
      PROVE  /\ submissionMap[t] \in Handler /\ working[submissionMap[t]] = t
             /\ phase[submissionMap[t]] \in AtWork
             /\ phase'[submissionMap[t]] = phase[submissionMap[t]]
    BY <1>0, <1>2 DEF LinkInv, Map
<1>3. CASE Known(s) /\ UNCHANGED <<listVars, working, toJudge>>
    <2>1. UNCHANGED <<nodeMap, submissionMap, judges, working, toJudge>>
        BY <1>3 DEF listVars
    <2>2. Waiting' = Waiting
        BY <2>1 DEF Waiting
    <2>3. LinkInv'
        BY <1>0, <1>2, <2>1, <2>2 DEF LinkInv
    <2>4. \A f \in Handler : Charged(f, working[f]) /\ working'[f] = working[f]
        BY <2>1 DEF Charged
    <2>5. s \in Waiting \/ \E f \in Handler : working[f] = s /\ phase[f] \in AtWork
        BY <1>2, <1>3 DEF Known, Waiting
    <2> QED  BY <1>0, <2>1, <2>2, <2>3, <2>4, <2>5
<1>4. CASE /\ ~Known(s) /\ Candidates(s, id) = {}
           /\ nodeMap' = [nodeMap EXCEPT ![s] = id]
           /\ UNCHANGED <<submissionMap, judges, working, toJudge>>
    <2>1. id # NoNode
        BY ConstantsAssumption
    <2>2. Waiting' = Waiting \cup {s}
        BY <1>0, <1>4, <2>1 DEF Waiting, ListInv, ListTypeOK
    <2>3. submissionMap[s] = NoJudge
        BY <1>4 DEF Known
    <2>4. LinkInv'
        BY <1>0, <1>2, <1>4, <2>2, <2>3 DEF LinkInv
    <2>5. \A f \in Handler : Charged(f, working[f]) /\ working'[f] = working[f]
        BY <1>4 DEF Charged
    <2> QED  BY <1>0, <1>4, <2>2, <2>4, <2>5
<1>5. ASSUME ~Known(s), NEW h \in Candidates(s, id), NEW outcome \in Outcomes(h, s),
             submissionMap' = [submissionMap EXCEPT ![s] = h],
             Submit(h, s, outcome, working),
             judges' = IF outcome = "sent" THEN judges ELSE judges \ {h},
             UNCHANGED <<queue, nodeMap>>
      PROVE  /\ judges' \subseteq judges /\ LinkInv'
             /\ \A f \in Handler : Charged(f, working[f])
             /\ \A f \in Handler : working'[f] = working[f] \/ f \in judges
             /\ Waiting \subseteq Waiting'
             /\ \E f \in Handler : working'[f] = s /\ phase[f] \in AtWork
    <2>1. /\ h \in judges /\ h \in Handler /\ working[h] = NoSub
          /\ phase[h] \in AtWork /\ phase'[h] = phase[h]
        BY <1>0, <1>1 DEF Candidates
    <2>2. outcome \in {"sent", "sendError"}
        BY <1>0, <2>1, SentOrLost
    <2>3. /\ working'[h] = s
          /\ \A f \in Handler : Charged(f, working[f])
          /\ \A f \in Handler \ {h} : working'[f] = working[f]
        BY <1>0, <1>5, <2>1, <2>2, SubmitCharges
    <2>4. judges' \subseteq judges /\ Waiting' = Waiting
        BY <1>5 DEF Waiting
    <2>5. s \notin Waiting
        BY <1>5 DEF Known, Waiting
    <2>6. ASSUME NEW t \in Submission, submissionMap'[t] # NoJudge
          PROVE  /\ working'[submissionMap'[t]] = t /\ phase'[submissionMap'[t]] \in AtWork
                 /\ t \in Waiting' =>
                       submissionMap'[t] \notin judges' /\ sock[submissionMap'[t]] # "open"
        <3>1. CASE t = s
            <4>1. submissionMap'[t] = h
                BY <1>0, <1>5, <3>1 DEF Map
            <4> QED  BY <2>1, <2>3, <2>4, <2>5, <3>1, <4>1
        <3>2. CASE t # s
            <4>1. submissionMap'[t] = submissionMap[t] /\ t # NoSub
                BY <1>0, <1>5, <3>2, ConstantsAssumption DEF Map
            <4>2. /\ submissionMap[t] \in Handler /\ working[submissionMap[t]] = t
                  /\ phase'[submissionMap[t]] \in AtWork
                BY <1>2, <2>6, <4>1
            <4>3. t \in Waiting => submissionMap[t] \notin judges /\ sock[submissionMap[t]] # "open"
                BY <1>0, <2>6, <4>1 DEF LinkInv
            <4>4. submissionMap[t] # h
                BY <2>1, <4>1, <4>2
            <4> QED  BY <2>3, <2>4, <4>1, <4>2, <4>3, <4>4
        <3> QED  BY <3>1, <3>2
    <2>7. LinkInv'
        BY <1>0, <2>6 DEF LinkInv
    <2>8. \A f \in Handler : working'[f] = working[f] \/ f \in judges
        BY <2>1, <2>3
    <2> QED  BY <2>1, <2>3, <2>4, <2>7, <2>8
<1> QED  BY <1>0, <1>3, <1>4, <1>5 DEF Judge

-----------------------------------------------------------------------------
(* What each action preserves.                                             *)

LEMMA CourseKept ==
    ASSUME NEW h \in Handler, CourseInv(h), phase'[h] = phase[h], row'[h] = row[h],
           working'[h] = working[h], h \in judges' => h \in judges
    PROVE  CourseInv(h)'
BY DEF CourseInv

LEMMA SpeechKept ==
    ASSUME NEW h \in Handler, SpeechInv(h), toJudge'[h] = toJudge[h],
           fromJudge'[h] = fromJudge[h], working'[h] = working[h], grading'[h] = grading[h]
    PROVE  SpeechInv(h)'
BY DEF SpeechInv

\* judge, called for a request or by the thread of a lost judge.
LEMMA JudgeSend ==
    ASSUME SendInv, BridgeInv', NEW s \in Submission, NEW id \in JudgeId, NEW p \in Priority,
           Judge(s, id, p), UNCHANGED <<row, fromJudge, grading>>, wanted' \subseteq wanted \cup {s},
           \A f \in Handler : \/ phase'[f] = phase[f]
                              \/ phase[f] = "offline" /\ phase'[f] = "gone" /\ working[f] = s
    PROVE  SendInv'
<1>1. \A f \in Handler : phase[f] \in AtWork => phase'[f] = phase[f]
    BY DEF AtWork
<1>2. /\ UNCHANGED <<problems, sock, rows>> /\ judges' \subseteq judges /\ LinkInv'
      /\ \A f \in Handler : Charged(f, working[f])
      /\ \A f \in Handler : working'[f] = working[f] \/ f \in judges
      /\ Waiting \subseteq Waiting'
      /\ s \in Waiting' \/ \E f \in Handler : working'[f] = s /\ phase[f] \in AtWork
    BY <1>1, JudgeCharges
<1>3. /\ BridgeInv /\ NoLostSubmission /\ SendsMayFail /\ rows = Submission
      /\ \A f \in Handler : CourseInv(f) /\ SpeechInv(f)
    BY DEF SendInv
<1>4. wanted \subseteq Submission /\ NoSub \notin Submission
    BY <1>3, ConstantsAssumption DEF BridgeInv, BridgeTypeOK
<1>5. ASSUME NEW f \in Handler PROVE CourseInv(f)' /\ SpeechInv(f)'
    <2>1. CourseInv(f)'
        BY <1>1, <1>2, <1>3 DEF CourseInv, AtWork
    <2>2. fromJudge[f] \in Seq(FromJudgePacket)
        BY <1>3 DEF BridgeInv, BridgeTypeOK
    <2>3. Speech(toJudge[f], fromJudge[f], working[f], grading[f])
        BY <1>3 DEF SpeechInv
    <2>4. Speech(toJudge'[f], fromJudge[f], working'[f], grading[f])
        BY <1>2, <1>3, <2>2, <2>3, ChargedSpeech
    <2>5. SpeechInv(f)'
        BY <2>4 DEF SpeechInv
    <2> QED  BY <2>1, <2>5
<1>6. NoLostSubmission'
    <2> SUFFICES ASSUME NEW t \in wanted', t \notin Waiting'
                 PROVE  \E f \in Handler : working'[f] = t /\ phase'[f] # "gone"
        BY DEF NoLostSubmission
    <2>1. CASE t = s
        BY <1>1, <1>2, <2>1 DEF AtWork
    <2>2. CASE t # s
        <3>1. t \in wanted /\ t \notin Waiting /\ t # NoSub
            BY <1>2, <1>4, <2>2
        <3>2. PICK f \in Handler : working[f] = t /\ phase[f] # "gone"
            BY <1>3, <3>1 DEF NoLostSubmission
        <3>3. working'[f] = t
            BY <1>2, <3>1, <3>2 DEF Charged
        <3> QED  BY <2>2, <3>2, <3>3
    <2> QED  BY <2>1, <2>2
<1>7. SendsMayFail' /\ rows' = Submission
    BY <1>2, <1>3 DEF SendsMayFail
<1> QED  BY <1>2, <1>5, <1>6, <1>7 DEF SendInv

\* A handler that registers, or hears a final packet, looks at the queue.
LEMMA FreeSend ==
    ASSUME SendInv, BridgeInv', NEW h \in Handler, phase'[h] \in {"registered", "up"},
           phase'[h] = "up" => row[h],
           NEW sm \in Map, NEW w \in Work, w = [working EXCEPT ![h] = NoSub],
           NEW js \in SUBSET Handler, js \subseteq judges \cup {h},
           Linked(sm, js, w, phase'), HandleFreeJudge(h, sm, js, w),
           UNCHANGED <<problems, sock, rows, row, grading>>,
           \A f \in Handler \ {h} : phase'[f] = phase[f] /\ fromJudge'[f] = fromJudge[f],
           fromJudge'[h] = <<>>, Speech(toJudge[h], <<>>, NoSub, grading[h]),
           wanted' = wanted \ {working[h]}
    PROVE  SendInv'
<1>1. /\ BridgeInv /\ NoLostSubmission /\ SendsMayFail /\ rows = Submission
      /\ \A f \in Handler : CourseInv(f) /\ SpeechInv(f)
    BY DEF SendInv
<1>2. ListInv /\ working \in Work /\ w[h] = NoSub
      /\ NoSub \notin Submission /\ wanted \subseteq Submission
      /\ \A f \in Handler \ {h} : w[f] = working[f]
    BY <1>1, ConstantsAssumption DEF BridgeInv, BridgeTypeOK, ListInv, ListTypeOK, Work
<1>3. /\ judges' \subseteq js /\ LinkInv'
      /\ \A f \in Handler : Charged(f, w[f])
      /\ \A f \in Handler \ {h} : working'[f] = w[f] /\ toJudge'[f] = toJudge[f]
      /\ \A s \in Submission : s \in Waiting => s \in Waiting' \/ working'[h] = s
    <2>1. phase'[h] \in AtWork /\ sock' = sock
        BY DEF AtWork
    <2>2. Served(h, js, w)
        BY <1>1, <1>2, <2>1, FreeJudgeServed
    <2> QED  BY <2>2 DEF Served
<1>4. ASSUME NEW f \in Handler, f # h PROVE CourseInv(f)' /\ SpeechInv(f)'
    <2>1. phase'[f] = phase[f] /\ (f \in judges' => f \in judges)
        BY <1>3, <1>4
    <2>2. working'[f] = working[f] /\ toJudge'[f] = toJudge[f] /\ fromJudge'[f] = fromJudge[f]
        BY <1>2, <1>3, <1>4
    <2>3. CourseInv(f)'
        BY <1>1, <2>1, <2>2, CourseKept
    <2>4. SpeechInv(f)'
        BY <1>1, <2>2, SpeechKept
    <2> QED  BY <2>3, <2>4
<1>5. CourseInv(h)'
    BY DEF CourseInv, AtWork
<1>6. SpeechInv(h)'
    <2>1. <<>> \in Seq(FromJudgePacket) /\ Speech(toJudge[h], <<>>, w[h], grading[h])
        BY <1>2
    <2>2. Speech(toJudge'[h], <<>>, working'[h], grading[h])
        BY <1>1, <1>3, <2>1, ChargedSpeech
    <2> QED  BY <2>2 DEF SpeechInv
<1>7. NoLostSubmission'
    <2> SUFFICES ASSUME NEW t \in wanted', t \notin Waiting'
                 PROVE  \E f \in Handler : working'[f] = t /\ phase'[f] # "gone"
        BY DEF NoLostSubmission
    <2>1. t \in wanted /\ t # working[h] /\ t # NoSub /\ t \in Submission
        BY <1>2
    <2>2. CASE t \in Waiting
        BY <1>3, <2>1, <2>2
    <2>3. CASE t \notin Waiting
        <3>1. PICK f \in Handler : working[f] = t /\ phase[f] # "gone"
            BY <1>1, <2>1, <2>3 DEF NoLostSubmission
        <3>2. f # h /\ w[f] = t /\ phase'[f] # "gone"
            BY <1>2, <2>1, <3>1
        <3>3. working'[f] = t
            BY <1>3, <3>2
        <3> QED  BY <3>2, <3>3
    <2> QED  BY <2>2, <2>3
<1>8. SendsMayFail' /\ rows' = Submission
    BY <1>1 DEF SendsMayFail
<1> QED  BY <1>3, <1>4, <1>5, <1>6, <1>7, <1>8 DEF SendInv

\* An action on connections, or on one thread, that leaves the list and the judges' work alone.
LEMMA LocalSend ==
    ASSUME SendInv, BridgeInv', NEW h \in Handler,
           UNCHANGED <<rows, listVars, working>>, wanted' \subseteq wanted,
           \A f \in Handler \ {h} : phase'[f] = phase[f] /\ row'[f] = row[f],
           \A f \in Handler : sock'[f] = "open" => sock[f] = "open",
           phase[h] \in AtWork => phase'[h] \in AtWork,
           phase'[h] = "gone" => phase[h] = "gone" \/ working[h] = NoSub,
           CourseInv(h)', \A f \in Handler : SpeechInv(f)'
    PROVE  SendInv'
<1>1. UNCHANGED <<nodeMap, submissionMap, judges, working>> /\ Waiting' = Waiting
    BY DEF listVars, Waiting
<1>2. /\ LinkInv /\ NoLostSubmission /\ SendsMayFail /\ rows = Submission
      /\ \A f \in Handler : CourseInv(f)
    BY DEF SendInv
<1>3. wanted \subseteq Submission /\ NoSub \notin Submission /\ submissionMap \in Map
    BY ConstantsAssumption DEF SendInv, BridgeInv, BridgeTypeOK, ListInv, ListTypeOK
<1>4. LinkInv'
    <2> SUFFICES ASSUME NEW s \in Submission, submissionMap[s] # NoJudge
                 PROVE  /\ working[submissionMap[s]] = s /\ phase'[submissionMap[s]] \in AtWork
                        /\ s \in Waiting => submissionMap[s] \notin judges
                                            /\ sock'[submissionMap[s]] # "open"
        BY <1>1 DEF LinkInv
    <2>1. PICK f \in Handler : f = submissionMap[s]
        BY <1>3 DEF Map
    <2>2. /\ working[f] = s /\ phase[f] \in AtWork
          /\ s \in Waiting => f \notin judges /\ sock[f] # "open"
        BY <1>2, <2>1 DEF LinkInv
    <2>3. phase'[f] \in AtWork
        BY <2>2
    <2> QED  BY <2>1, <2>2, <2>3
<1>5. NoLostSubmission'
    BY <1>1, <1>2, <1>3, LostKept
<1>6. ASSUME NEW f \in Handler PROVE CourseInv(f)'
    <2>1. CASE f = h
        BY <2>1
    <2>2. CASE f # h
        BY <1>1, <1>2, <2>2, CourseKept
    <2> QED  BY <2>1, <2>2
<1>7. SendsMayFail' /\ rows' = Submission
    BY <1>2 DEF SendsMayFail
<1> QED  BY <1>4, <1>5, <1>6, <1>7 DEF SendInv

\* A step of a thread that reaches neither its connection nor the packets on it.
LEMMA PhaseSend ==
    ASSUME SendInv, BridgeInv', NEW h \in Handler,
           UNCHANGED <<rows, listVars, working, wanted, sock, toJudge, fromJudge, grading>>,
           \A f \in Handler \ {h} : phase'[f] = phase[f] /\ row'[f] = row[f],
           phase[h] \in AtWork => phase'[h] \in AtWork,
           phase'[h] = "gone" => phase[h] = "gone" \/ working[h] = NoSub,
           CourseInv(h)'
    PROVE  SendInv'
<1>1. \A f \in Handler : SpeechInv(f)'
    BY SpeechKept DEF SendInv
<1>2. \A f \in Handler : sock'[f] = "open" => sock[f] = "open"
    OBVIOUS
<1> QED  BY <1>1, <1>2, LocalSend

\* A step of one connection and of the judge at its end.
LEMMA PacketSend ==
    ASSUME SendInv, BridgeInv', NEW h \in Handler,
           UNCHANGED <<rows, listVars, working, wanted, phase, row>>,
           sock'[h] = "open" => sock[h] = "open",
           \A f \in Handler \ {h} :
              /\ sock'[f] = sock[f] /\ toJudge'[f] = toJudge[f]
              /\ fromJudge'[f] = fromJudge[f] /\ grading'[f] = grading[f],
           Speech(toJudge'[h], fromJudge'[h], working[h], grading'[h])
    PROVE  SendInv'
<1>1. ASSUME NEW f \in Handler PROVE SpeechInv(f)'
    <2>1. CASE f = h
        BY <2>1 DEF SpeechInv
    <2>2. CASE f # h
        BY <2>2, SpeechKept DEF SendInv
    <2> QED  BY <2>1, <2>2
<1>2. \A f \in Handler : sock'[f] = "open" => sock[f] = "open"
    OBVIOUS
<1>3. CourseInv(h)'
    BY CourseKept DEF SendInv, listVars
<1>4. phase'[h] = "gone" => phase[h] = "gone" \/ working[h] = NoSub
    OBVIOUS
<1> QED  BY <1>1, <1>2, <1>3, <1>4, LocalSend

\* on_handshake
LEMMA RegisterSend ==
    ASSUME SendInv, BridgeInv', NEW h \in Handler, Register(h)
    PROVE  SendInv'
<1>1. BridgeInv /\ LinkInv /\ CourseInv(h) /\ SpeechInv(h)
    BY DEF SendInv
<1>2. /\ phase[h] = "named" /\ phase' = [phase EXCEPT ![h] = "registered"]
      /\ HandleFreeJudge(h, submissionMap, judges \cup {h}, working)
      /\ UNCHANGED <<problems, sock, rows, row, fromJudge, grading, wanted>>
    BY DEF Register, GoTo, RegisterJudge, listExternals, judgeVars, historyVars
<1>3. working[h] = NoSub
    BY <1>1, <1>2 DEF CourseInv
<1>4. /\ working \in Work /\ submissionMap \in Map /\ judges \cup {h} \in SUBSET Handler
      /\ toJudge[h] \in Seq(ToJudgePacket) /\ fromJudge[h] \in Seq(FromJudgePacket)
      /\ working = [working EXCEPT ![h] = NoSub]
      /\ wanted \subseteq Submission /\ NoSub \notin Submission
    BY <1>1, <1>3, ConstantsAssumption DEF BridgeInv, BridgeTypeOK, ListInv, ListTypeOK, Work
<1>5. fromJudge[h] = <<>> /\ Speech(toJudge[h], <<>>, NoSub, grading[h])
    <2>1. Speech(toJudge[h], fromJudge[h], NoSub, grading[h])
        BY <1>1, <1>3 DEF SpeechInv
    <2>2. fromJudge[h] = <<>>
        BY <1>4, <2>1, IdleSpeech
    <2> QED  BY <2>1, <2>2
<1>6. phase'[h] = "registered" /\ \A f \in Handler \ {h} : phase'[f] = phase[f]
    BY <1>1, <1>2 DEF BridgeInv, BridgeTypeOK
<1> DEFINE js == judges \cup {h}
<1>7. Linked(submissionMap, js, working, phase')
    <2> SUFFICES ASSUME NEW s \in Submission, submissionMap[s] # NoJudge
                 PROVE  /\ working[submissionMap[s]] = s /\ phase'[submissionMap[s]] \in AtWork
                        /\ s \in Waiting =>
                              submissionMap[s] \notin js /\ sock[submissionMap[s]] # "open"
        BY DEF Linked
    <2>1. PICK f \in Handler : f = submissionMap[s]
        BY <1>4 DEF Map
    <2>2. /\ working[f] = s /\ phase[f] \in AtWork
          /\ s \in Waiting => f \notin judges /\ sock[f] # "open"
        BY <1>1, <2>1 DEF LinkInv
    <2>3. f # h
        BY <1>3, <1>4, <2>2
    <2> QED  BY <1>6, <2>1, <2>2, <2>3
<1>8. js \in SUBSET Handler /\ js \subseteq judges \cup {h}
      /\ HandleFreeJudge(h, submissionMap, js, working)
    BY <1>2, <1>4
<1> HIDE DEF js
<1>9. fromJudge'[h] = <<>> /\ \A f \in Handler \ {h} : fromJudge'[f] = fromJudge[f]
    BY <1>2, <1>5
<1>10. wanted' = wanted \ {working[h]}
    BY <1>2, <1>3, <1>4
<1> QED  BY <1>2, <1>4, <1>5, <1>6, <1>7, <1>8, <1>9, <1>10, FreeSend

\* on_grading_end and the other final packets.  When submission_map has lost the submission,
\* to another judge that finished it or was removed with it, nothing but the packet goes.
LEMMA FinalSend ==
    ASSUME SendInv, BridgeInv', NEW h \in Handler, HandleFinal(h)
    PROVE  SendInv'
<1> DEFINE s == Head(fromJudge[h]).id
           sm == [submissionMap EXCEPT ![s] = NoJudge]
           w == [working EXCEPT ![h] = NoSub]
<1>1. BridgeInv /\ LinkInv /\ CourseInv(h) /\ SpeechInv(h)
    BY DEF SendInv
<1>2. /\ working \in Work /\ submissionMap \in Map /\ judges \in SUBSET Handler
      /\ fromJudge \in [Handler -> Seq(FromJudgePacket)]
    BY <1>1 DEF BridgeInv, BridgeTypeOK, ListInv, ListTypeOK
<1>3. /\ phase[h] = "up" /\ fromJudge[h] # <<>> /\ Head(fromJudge[h]).name \in FinalPackets
      /\ fromJudge' = [fromJudge EXCEPT ![h] = Tail(@)]
      /\ OnJudgeFree(h, s) /\ wanted' = wanted \ {s}
      /\ UNCHANGED <<phase, row, grading>>
    BY DEF HandleFinal, Incoming
<1>4. /\ Tail(fromJudge[h]) = <<>> /\ s = working[h] /\ working[h] # NoSub
      /\ Speech(toJudge[h], <<>>, NoSub, grading[h])
      /\ Speech(toJudge[h], <<>>, working[h], grading[h])
    <2>1. fromJudge[h] \in Seq(FromJudgePacket)
        BY <1>2
    <2>2. Speech(toJudge[h], fromJudge[h], working[h], grading[h])
        BY <1>1 DEF SpeechInv
    <2> QED  BY <1>3, <2>1, <2>2, EndSpeech
<1>5. row[h] /\ working[h] \in Submission
    BY <1>1, <1>2, <1>3, <1>4 DEF CourseInv, Work
<1>6. fromJudge'[h] = <<>> /\ \A f \in Handler \ {h} : fromJudge'[f] = fromJudge[f]
    BY <1>2, <1>3, <1>4
<1>7. UNCHANGED <<problems, sock, rows>>
    BY <1>3 DEF OnJudgeFree, listExternals
<1>8. CASE submissionMap[s] = NoJudge
    <2>1. UNCHANGED <<listVars, working, toJudge>>
        BY <1>3, <1>8 DEF OnJudgeFree
    <2>2. ASSUME NEW f \in Handler PROVE SpeechInv(f)'
        <3>1. CASE f = h
            BY <1>3, <1>4, <1>6, <2>1, <3>1 DEF SpeechInv
        <3>2. CASE f # h
            BY <1>3, <1>6, <2>1, <3>2, SpeechKept DEF SendInv
        <3> QED  BY <3>1, <3>2
    <2>3. CourseInv(h)'
        BY <1>1, <1>3, <2>1, CourseKept DEF listVars
    <2>4. \A f \in Handler : sock'[f] = "open" => sock[f] = "open"
        BY <1>7
    <2>5. wanted' \subseteq wanted
        BY <1>3
    <2>6. UNCHANGED <<rows, phase, row>>
        BY <1>3, <1>7
    <2>7. /\ \A f \in Handler \ {h} : phase'[f] = phase[f] /\ row'[f] = row[f]
          /\ phase[h] \in AtWork => phase'[h] \in AtWork
          /\ phase'[h] = "gone" => phase[h] = "gone" \/ working[h] = NoSub
        BY <2>6
    <2> HIDE DEF s, sm, w
    <2> QED  BY <2>1, <2>2, <2>3, <2>4, <2>5, <2>6, <2>7, LocalSend
<1>9. CASE submissionMap[s] # NoJudge
    <2>1. HandleFreeJudge(h, sm, judges, w)
        BY <1>3, <1>9 DEF OnJudgeFree
    <2>2. sm \in Map /\ w \in Work /\ w = [working EXCEPT ![h] = NoSub]
          /\ judges \subseteq judges \cup {h}
        BY <1>2 DEF Map, Work
    <2>3. Linked(sm, judges, w, phase')
        <3> SUFFICES ASSUME NEW t \in Submission, sm[t] # NoJudge
                     PROVE  /\ w[sm[t]] = t /\ phase'[sm[t]] \in AtWork
                            /\ t \in Waiting => sm[t] \notin judges /\ sock[sm[t]] # "open"
            BY DEF Linked
        <3>1. t # s /\ sm[t] = submissionMap[t] /\ sm[t] \in Handler
            BY <1>2, <1>4, <1>5 DEF Map
        <3>2. /\ working[sm[t]] = t /\ phase[sm[t]] \in AtWork
              /\ t \in Waiting => sm[t] \notin judges /\ sock[sm[t]] # "open"
            BY <1>1, <3>1 DEF LinkInv
        <3>3. sm[t] # h
            BY <1>4, <3>1, <3>2
        <3>4. w[sm[t]] = t
            BY <1>2, <3>1, <3>2, <3>3 DEF Work
        <3> QED  BY <1>3, <3>2, <3>4
    <2>4. /\ phase'[h] = "up" /\ wanted' = wanted \ {working[h]}
          /\ \A f \in Handler \ {h} : phase'[f] = phase[f]
        BY <1>3, <1>4
    <2>5. UNCHANGED <<problems, sock, rows, row, grading>>
        BY <1>3, <1>7
    <2> HIDE DEF s, sm, w
    <2> QED  BY <1>2, <1>4, <1>5, <1>6, <2>1, <2>2, <2>3, <2>4, <2>5, FreeSend
<1> QED  BY <1>8, <1>9

\* Reading a packet that is not a final one.
LEMMA ReadSend ==
    ASSUME SendInv, BridgeInv', NEW h \in Handler, NEW names, Incoming(h, names),
           names \cap FinalPackets = {},
           UNCHANGED <<rows, listVars, working, wanted, phase, sock, row, toJudge, grading>>
    PROVE  SendInv'
<1>1. SpeechInv(h) /\ fromJudge \in [Handler -> Seq(FromJudgePacket)]
    BY DEF SendInv, BridgeInv, BridgeTypeOK
<1>2. /\ fromJudge[h] # <<>> /\ Head(fromJudge[h]).name \notin FinalPackets
      /\ fromJudge' = [fromJudge EXCEPT ![h] = Tail(@)]
    BY DEF Incoming
<1>3. fromJudge[h] \in Seq(FromJudgePacket)
      /\ Speech(toJudge[h], fromJudge[h], working[h], grading[h])
    BY <1>1 DEF SpeechInv
<1>4. Speech(toJudge[h], Tail(fromJudge[h]), working[h], grading[h])
    BY <1>2, <1>3, ReadSpeech
<1>5. fromJudge'[h] = Tail(fromJudge[h]) /\ \A f \in Handler \ {h} : fromJudge'[f] = fromJudge[f]
    BY <1>1, <1>2
<1>6. Speech(toJudge'[h], fromJudge'[h], working[h], grading'[h])
    BY <1>4, <1>5
<1> QED  BY <1>5, <1>6, PacketSend

\* What a handler hears of its judge: the submission it works on, and nothing of its problems.
LEMMA HeardSpeech ==
    ASSUME SendInv, NEW h \in Handler, fromJudge[h] # <<>>,
           Head(fromJudge[h]).name \notin FinalPackets
    PROVE  Head(fromJudge[h]).id = working[h] /\ Head(fromJudge[h]).name # "supported-problems"
<1>1. fromJudge[h] \in Seq(FromJudgePacket)
    BY DEF SendInv, BridgeInv, BridgeTypeOK
<1>2. Speech(toJudge[h], fromJudge[h], working[h], grading[h])
    BY DEF SendInv, SpeechInv
<1> QED  BY <1>1, <1>2, ReadSpeech

\* The steps of a handler's thread.
LEMMA HandlerThreadSend ==
    ASSUME SendInv, BridgeInv', NEW h \in Handler, HandlerThread(h)
    PROVE  SendInv'
<1>1. /\ BridgeInv /\ CourseInv(h) /\ SpeechInv(h) /\ LinkInv /\ NoLostSubmission
      /\ SendsMayFail /\ rows = Submission
    BY DEF SendInv
<1>2. /\ phase \in [Handler -> Phases] /\ row \in [Handler -> BOOLEAN]
      /\ fromJudge \in [Handler -> Seq(FromJudgePacket)]
      /\ working \in Work /\ submissionMap \in Map /\ judges \in SUBSET Handler
    BY <1>1 DEF BridgeInv, BridgeTypeOK, ListInv, ListTypeOK
<1>3. CASE Register(h)
    BY <1>3, RegisterSend
<1>4. CASE HandshakeFails(h)
    <2>1. /\ phase[h] = "named" /\ phase' = [phase EXCEPT ![h] = "dropped"]
          /\ UNCHANGED <<rows, listVars, handlerVars, row, judgeVars, historyVars>>
        BY <1>4 DEF HandshakeFails, GoTo
    <2>2. phase'[h] = "dropped" /\ \A f \in Handler \ {h} : phase'[f] = phase[f]
        BY <1>2, <2>1
    <2>3. CourseInv(h)'
        BY <1>1, <2>1, <2>2 DEF CourseInv, AtWork, handlerVars, listVars
    <2>4. phase[h] \in AtWork => phase'[h] \in AtWork
        BY <2>2 DEF AtWork
    <2> QED  BY <2>1, <2>2, <2>3, <2>4, PhaseSend DEF handlerVars, judgeVars, historyVars
<1>5. CASE Connected(h)
    <2>1. /\ phase[h] = "registered" /\ phase' = [phase EXCEPT ![h] = "up"]
          /\ row' = [row EXCEPT ![h] = TRUE]
          /\ UNCHANGED <<rows, listVars, handlerVars, judgeVars, historyVars>>
        BY <1>1, <1>5 DEF Connected, GoTo, SendsMayFail
    <2>2. /\ phase'[h] = "up" /\ \A f \in Handler \ {h} : phase'[f] = phase[f]
          /\ row'[h] /\ \A f \in Handler \ {h} : row'[f] = row[f]
        BY <1>2, <2>1
    <2>3. CourseInv(h)'
        BY <1>1, <2>1, <2>2 DEF CourseInv, AtWork, handlerVars, listVars
    <2>4. phase[h] \in AtWork => phase'[h] \in AtWork
        BY <2>2 DEF AtWork
    <2> QED  BY <2>1, <2>2, <2>3, <2>4, PhaseSend DEF handlerVars, judgeVars, historyVars
<1>6. CASE HandleAcknowledged(h)
    <2>1. Incoming(h, {"submission-acknowledged"})
        BY <1>6 DEF HandleAcknowledged
    <2>2. fromJudge[h] # <<>> /\ Head(fromJudge[h]).name \notin FinalPackets
        BY <2>1, NotFinal DEF Incoming
    <2>3. Head(fromJudge[h]).id = working[h]
        BY <2>2, HeardSpeech
    <2> QED  BY <1>6, <2>1, <2>3, NotFinal, ReadSend DEF HandleAcknowledged, historyVars
<1>7. CASE HandleProgress(h)
    BY <1>7, NotFinal, ReadSend DEF HandleProgress, handlerVars, historyVars
<1>8. CASE HandleFinal(h)
    BY <1>8, FinalSend
<1>9. CASE HandleSupportedProblems(h)
    <2>1. fromJudge[h] # <<>> /\ Head(fromJudge[h]).name = "supported-problems"
        BY <1>9 DEF HandleSupportedProblems, Incoming
    <2> QED  BY <2>1, NotFinal, HeardSpeech
<1>10. CASE HandleUpdateProblems(h)
    BY <1>1, <1>10 DEF HandleUpdateProblems, GoTo, CourseInv
<1>11. CASE EndOfStream(h)
    <2>1. /\ sock[h] # "open" /\ phase[h] = "up" /\ phase' = [phase EXCEPT ![h] = "dropped"]
          /\ fromJudge' = [fromJudge EXCEPT ![h] = <<>>]
          /\ UNCHANGED <<rows, listVars, handlerVars, row, grading, stage, historyVars>>
        BY <1>11 DEF EndOfStream, GoTo
    <2>2. /\ phase'[h] = "dropped" /\ \A f \in Handler \ {h} : phase'[f] = phase[f]
          /\ fromJudge'[h] = <<>> /\ \A f \in Handler \ {h} : fromJudge'[f] = fromJudge[f]
        BY <1>2, <2>1
    <2>3. CourseInv(h)'
        BY <1>1, <2>1, <2>2 DEF CourseInv, AtWork, handlerVars, listVars
    <2>4. ASSUME NEW f \in Handler PROVE SpeechInv(f)'
        <3>1. CASE f = h
            <4>1. Speech(toJudge[h], <<>>, working[h], grading[h])
                BY <1>1, CutSpeech DEF SpeechInv
            <4> QED  BY <2>1, <2>2, <3>1, <4>1 DEF SpeechInv, handlerVars
        <3>2. CASE f # h
            BY <2>1, <2>2, <3>2, SpeechKept DEF SendInv, handlerVars
        <3> QED  BY <3>1, <3>2
    <2>5. phase[h] \in AtWork => phase'[h] \in AtWork
        BY <2>2 DEF AtWork
    <2>6. UNCHANGED <<rows, listVars, working, wanted, sock, row>>
        BY <2>1 DEF handlerVars, historyVars
    <2> QED  BY <2>2, <2>3, <2>4, <2>5, <2>6, LocalSend
<1>12. CASE Unregister(h)
    <2>1. /\ phase[h] = "dropped" /\ phase' = [phase EXCEPT ![h] = "removed"]
          /\ submissionMap' = IF working[h] = NoSub THEN submissionMap
                              ELSE [submissionMap EXCEPT ![working[h]] = NoJudge]
          /\ judges' = judges \ {h}
          /\ UNCHANGED <<nodeMap, working, problems, sock, toJudge, rows, row, fromJudge, grading,
                         wanted>>
        BY <1>12 DEF Unregister, GoTo, RemoveJudge, handlerVars, judgeVars, historyVars
    <2>2. phase'[h] = "removed" /\ \A f \in Handler \ {h} : phase'[f] = phase[f]
        BY <1>2, <2>1
    <2>3. LinkInv'
        <3> SUFFICES ASSUME NEW s \in Submission, submissionMap'[s] # NoJudge
                     PROVE  /\ working[submissionMap'[s]] = s /\ phase'[submissionMap'[s]] \in AtWork
                            /\ s \in Waiting => submissionMap'[s] \notin judges'
                                                /\ sock[submissionMap'[s]] # "open"
            BY <2>1 DEF LinkInv, Waiting
        <3>1. submissionMap'[s] = submissionMap[s] /\ (working[h] # NoSub => s # working[h])
            BY <1>2, <2>1 DEF Map
        <3>2. PICK f \in Handler : f = submissionMap[s]
            BY <1>2, <3>1 DEF Map
        <3>3. /\ working[f] = s /\ phase[f] \in AtWork
              /\ s \in Waiting => f \notin judges /\ sock[f] # "open"
            BY <1>1, <3>1, <3>2 DEF LinkInv
        <3>4. f # h
            BY <3>1, <3>3, ConstantsAssumption
        <3> QED  BY <2>1, <2>2, <3>1, <3>2, <3>3, <3>4
    <2>4. NoLostSubmission'
        <3>1. wanted \subseteq Submission /\ NoSub \notin Submission
            BY <1>1, ConstantsAssumption DEF BridgeInv, BridgeTypeOK
        <3> QED  BY <1>1, <2>1, <2>2, <3>1, LostKept
    <2>5. ASSUME NEW f \in Handler PROVE CourseInv(f)' /\ SpeechInv(f)'
        <3>1. SpeechInv(f)'
            BY <2>1, SpeechKept DEF SendInv
        <3>2. CASE f # h
            BY <2>1, <2>2, <3>1, <3>2, CourseKept DEF SendInv
        <3>3. CASE f = h
            <4>1. CourseInv(h)'
                BY <1>1, <2>1, <2>2 DEF CourseInv
            <4> QED  BY <3>1, <3>3, <4>1
        <3> QED  BY <3>2, <3>3
    <2>6. SendsMayFail' /\ rows' = Submission
        BY <1>1, <2>1 DEF SendsMayFail
    <2> QED  BY <2>3, <2>4, <2>5, <2>6 DEF SendInv
<1>13. CASE Disconnected(h)
    <2>1. /\ phase[h] = "removed"
          /\ \/ phase' = [phase EXCEPT ![h] = "offline"]
             \/ ~row[h] /\ phase' = [phase EXCEPT ![h] = "gone"]
          /\ UNCHANGED <<rows, listVars, handlerVars, row, judgeVars, historyVars>>
        BY <1>1, <1>13 DEF Disconnected, GoTo, SendsMayFail
    <2>2. /\ phase'[h] = "offline" \/ (phase'[h] = "gone" /\ ~row[h])
          /\ \A f \in Handler \ {h} : phase'[f] = phase[f]
        BY <1>2, <2>1
    <2>3. CourseInv(h)'
        BY <1>1, <2>1, <2>2 DEF CourseInv, AtWork, handlerVars, listVars
    <2>4. phase'[h] = "gone" => working[h] = NoSub
        BY <1>1, <2>1, <2>2 DEF CourseInv
    <2>5. phase[h] \in AtWork => phase'[h] \in AtWork
        BY <2>1 DEF AtWork
    <2> QED  BY <2>1, <2>2, <2>3, <2>4, <2>5, PhaseSend DEF handlerVars, judgeVars, historyVars
<1>14. CASE Requeue(h)
    <2>1. /\ phase[h] = "offline" /\ phase' = [phase EXCEPT ![h] = "gone"]
          /\ UNCHANGED <<row, fromJudge, grading, wanted>>
        BY <1>14 DEF Requeue, GoTo, judgeVars, historyVars
    <2>2. phase'[h] = "gone" /\ \A f \in Handler \ {h} : phase'[f] = phase[f]
        BY <1>2, <2>1
    <2>3. CASE working[h] = NoSub
        <3>1. UNCHANGED <<listVars, handlerVars, rows>>
            BY <1>14, <2>3 DEF Requeue
        <3>2. CourseInv(h)'
            BY <1>1, <2>1, <2>2, <3>1 DEF CourseInv, AtWork, handlerVars, listVars
        <3>3. phase[h] \in AtWork => phase'[h] \in AtWork
            BY <2>1 DEF AtWork
        <3> QED  BY <2>1, <2>2, <2>3, <3>1, <3>2, <3>3, PhaseSend DEF handlerVars
    <2>4. CASE working[h] # NoSub
        <3>1. working[h] \in Submission
            BY <1>2, <2>4 DEF Work
        <3>2. AnyJudge \in JudgeId /\ 0 \in Priority
            BY ConstantsAssumption DEF JudgeId, Priority
        <3>3. Judge(working[h], AnyJudge, 0)
            BY <1>14, <2>4 DEF Requeue
        <3>4. \A f \in Handler : \/ phase'[f] = phase[f]
                                 \/ phase[f] = "offline" /\ phase'[f] = "gone" /\ working[f] = working[h]
            BY <2>1, <2>2
        <3>5. wanted' \subseteq wanted \cup {working[h]}
            BY <2>1
        <3> QED  BY <2>1, <3>1, <3>2, <3>3, <3>4, <3>5, JudgeSend
    <2> QED  BY <2>3, <2>4
<1> QED  BY <1>3, <1>4, <1>5, <1>6, <1>7, <1>8, <1>9, <1>10, <1>11, <1>12, <1>13, <1>14
         DEF HandlerThread

\* The connection breaks.
LEMMA BreakSend ==
    ASSUME SendInv, BridgeInv', NEW h \in Handler, Break(h),
           UNCHANGED <<rows, listVars, working, phase, row, fromJudge, wanted>>
    PROVE  SendInv'
<1>1. /\ sock \in [Handler -> {"open", "broken", "shut"}]
      /\ toJudge \in [Handler -> Seq(ToJudgePacket)]
      /\ grading \in [Handler -> Submission \cup {NoSub}]
    BY DEF SendInv, BridgeInv, BridgeTypeOK, ListInv, ListTypeOK
<1>2. /\ sock'[h] = "broken" /\ toJudge'[h] = <<>> /\ grading'[h] = NoSub
      /\ \A f \in Handler \ {h} :
            sock'[f] = sock[f] /\ toJudge'[f] = toJudge[f] /\ grading'[f] = grading[f]
    BY <1>1 DEF Break
<1>3. Speech(<<>>, fromJudge[h], working[h], NoSub)
    BY CutSpeech DEF SendInv, SpeechInv
<1>4. Speech(toJudge'[h], fromJudge'[h], working[h], grading'[h])
    BY <1>2, <1>3
<1> QED  BY <1>2, <1>4, PacketSend

\* The steps of a judge at the other end.
LEMMA ExternalJudgeSend ==
    ASSUME SendInv, BridgeInv', NEW h \in Handler, ExternalJudge(h)
    PROVE  SendInv'
<1>1. /\ toJudge \in [Handler -> Seq(ToJudgePacket)] /\ toJudge[h] \in Seq(ToJudgePacket)
      /\ fromJudge \in [Handler -> Seq(FromJudgePacket)] /\ fromJudge[h] \in Seq(FromJudgePacket)
      /\ grading \in [Handler -> MaybeSub] /\ stage \in [Handler -> Nat]
    BY DEF SendInv, BridgeInv, BridgeTypeOK, ListInv, ListTypeOK, MaybeSub
<1>2. Speech(toJudge[h], fromJudge[h], working[h], grading[h])
    BY DEF SendInv, SpeechInv
<1>3. CASE JudgeStarts(h)
    <2> DEFINE packet == Reply("submission-acknowledged", Head(toJudge[h]).id, {}, 0)
    <2>1. /\ grading[h] = NoSub /\ toJudge[h] # <<>> /\ Head(toJudge[h]).name = "submission-request"
          /\ toJudge' = [toJudge EXCEPT ![h] = Tail(@)]
          /\ grading' = [grading EXCEPT ![h] = Head(toJudge[h]).id]
          /\ fromJudge' = [fromJudge EXCEPT ![h] = Append(@, packet)]
          /\ UNCHANGED <<rows, listVars, working, wanted, phase, row, sock>>
        BY <1>3 DEF JudgeStarts, Received, Send, historyVars
    <2>2. packet \in FromJudgePacket /\ packet.name = "submission-acknowledged"
          /\ packet.id = Head(toJudge[h]).id
        <3>1. Head(toJudge[h]) \in ToJudgePacket
            BY <1>1, <2>1, HeadTailProperties
        <3>2. Head(toJudge[h]).id \in Submission
            BY <2>1, <3>1 DEF ToJudgePacket, Packet
        <3>3. packet \in FromJudgePacket
            BY <3>2, ReplyType
        <3> QED  BY <3>3 DEF Reply
    <2> HIDE DEF packet
    <2>3. /\ Head(toJudge[h]).id = working[h]
          /\ Speech(Tail(toJudge[h]), Append(fromJudge[h], packet), working[h], working[h])
        BY <1>1, <1>2, <2>1, <2>2, StartSpeech
    <2>4. /\ toJudge'[h] = Tail(toJudge[h]) /\ fromJudge'[h] = Append(fromJudge[h], packet)
          /\ grading'[h] = working[h]
          /\ \A f \in Handler \ {h} : /\ toJudge'[f] = toJudge[f]
                                      /\ fromJudge'[f] = fromJudge[f] /\ grading'[f] = grading[f]
        BY <1>1, <2>1, <2>3
    <2>5. Speech(toJudge'[h], fromJudge'[h], working[h], grading'[h])
        BY <2>3, <2>4
    <2> QED  BY <2>1, <2>4, <2>5, PacketSend
<1>4. CASE JudgeProgresses(h)
    <2> DEFINE packet == Reply(Script[stage[h] + 1], grading[h], {}, stage[h] + 1)
    <2>1. /\ grading[h] # NoSub /\ stage[h] < Len(Script)
          /\ fromJudge' = [fromJudge EXCEPT ![h] = Append(@, packet)]
          /\ UNCHANGED <<rows, listVars, working, wanted, phase, row, sock, toJudge, grading>>
        BY <1>4 DEF JudgeProgresses, Send, handlerVars, historyVars
    <2>2. Script[stage[h] + 1] \in {"grading-begin", "test-case-status"} /\ stage[h] + 1 \in Nat
        <3>1. Script \in Seq({"grading-begin", "test-case-status"}) /\ Len(Script) \in Nat
            BY BridgeAssumption, LenProperties
        <3>2. stage[h] + 1 \in 1 .. Len(Script)
            BY <1>1, <2>1, <3>1
        <3>3. Script[stage[h] + 1] \in {"grading-begin", "test-case-status"}
            BY <3>1, <3>2, ElementOfSeq
        <3> QED  BY <1>1, <3>3
    <2>3. /\ packet \in FromJudgePacket /\ packet.id = grading[h]
          /\ packet.name \notin FinalPackets /\ packet.name # "supported-problems"
        <3>1. packet \in FromJudgePacket
            BY <1>1, <2>1, <2>2, ReplyType DEF MaybeSub
        <3>2. packet.id = grading[h] /\ packet.name = Script[stage[h] + 1]
            BY DEF Reply
        <3> QED  BY <2>2, <3>1, <3>2, NotFinal
    <2> HIDE DEF packet
    <2>4. Speech(toJudge[h], Append(fromJudge[h], packet), working[h], grading[h])
        BY <1>1, <1>2, <2>1, <2>3, SaySpeech
    <2>5. /\ fromJudge'[h] = Append(fromJudge[h], packet)
          /\ \A f \in Handler \ {h} : fromJudge'[f] = fromJudge[f]
        BY <1>1, <2>1
    <2>6. Speech(toJudge'[h], fromJudge'[h], working[h], grading'[h])
        BY <2>1, <2>4, <2>5
    <2> QED  BY <2>1, <2>5, <2>6, PacketSend
<1>5. CASE JudgeFinishes(h)
    <2>1. PICK v \in Verdicts : Send(h, Reply(v, grading[h], {}, 0))
        BY <1>5 DEF JudgeFinishes
    <2> DEFINE packet == Reply(v, grading[h], {}, 0)
    <2>2. /\ grading[h] # NoSub
          /\ fromJudge' = [fromJudge EXCEPT ![h] = Append(@, packet)]
          /\ grading' = [grading EXCEPT ![h] = NoSub]
          /\ UNCHANGED <<rows, listVars, working, wanted, phase, row, sock, toJudge>>
        BY <1>5, <2>1 DEF JudgeFinishes, Send, handlerVars, historyVars
    <2>3. packet \in FromJudgePacket /\ packet.id = grading[h] /\ packet.name \in FinalPackets
          /\ packet.name # "supported-problems"
        <3>1. packet \in FromJudgePacket
            BY <1>1, <2>2, ReplyType DEF MaybeSub
        <3>2. packet.id = grading[h] /\ packet.name \in FinalPackets
            BY DEF Reply, FinalPackets
        <3> QED  BY <3>1, <3>2, NotFinal
    <2> HIDE DEF packet
    <2>4. Speech(toJudge[h], Append(fromJudge[h], packet), working[h], NoSub)
        BY <1>1, <1>2, <2>2, <2>3, SaySpeech
    <2>5. /\ fromJudge'[h] = Append(fromJudge[h], packet) /\ grading'[h] = NoSub
          /\ \A f \in Handler \ {h} : fromJudge'[f] = fromJudge[f] /\ grading'[f] = grading[f]
        BY <1>1, <2>2
    <2>6. Speech(toJudge'[h], fromJudge'[h], working[h], grading'[h])
        BY <2>2, <2>4, <2>5
    <2> QED  BY <2>2, <2>5, <2>6, PacketSend
<1>6. CASE JudgeTerminates(h)
    <2> DEFINE packet == Reply("submission-terminated", grading[h], {}, 0)
    <2>1. /\ toJudge[h] # <<>> /\ Head(toJudge[h]).name = "terminate-submission"
          /\ toJudge' = [toJudge EXCEPT ![h] = Tail(@)]
          /\ IF grading[h] = NoSub THEN UNCHANGED fromJudge
             ELSE fromJudge' = [fromJudge EXCEPT ![h] = Append(@, packet)]
          /\ grading' = [grading EXCEPT ![h] = NoSub]
          /\ UNCHANGED <<rows, listVars, working, wanted, phase, row, sock>>
        BY <1>6 DEF JudgeTerminates, Received, Send, historyVars
    <2>2. grading[h] # NoSub => /\ packet \in FromJudgePacket /\ packet.id = grading[h]
                                /\ packet.name \in FinalPackets
                                /\ packet.name # "supported-problems"
        <3>1. grading[h] # NoSub => packet \in FromJudgePacket
            BY <1>1, ReplyType DEF MaybeSub
        <3> QED  BY <3>1 DEF Reply, FinalPackets
    <2> HIDE DEF packet
    <2>3. Speech(Tail(toJudge[h]), fromJudge[h], working[h], grading[h])
        BY <1>1, <1>2, <2>1, OtherSpeech
    <2>4. Speech(Tail(toJudge[h]), fromJudge'[h], working[h], NoSub)
        <3>1. CASE grading[h] = NoSub
            BY <2>1, <2>3, <3>1
        <3>2. CASE grading[h] # NoSub
            <4>1. fromJudge'[h] = Append(fromJudge[h], packet)
                BY <1>1, <2>1, <3>2
            <4> QED  BY <1>1, <2>2, <2>3, <3>2, <4>1, SaySpeech
        <3> QED  BY <3>1, <3>2
    <2>5. /\ toJudge'[h] = Tail(toJudge[h]) /\ grading'[h] = NoSub
          /\ \A f \in Handler \ {h} : /\ toJudge'[f] = toJudge[f] /\ fromJudge'[f] = fromJudge[f]
                                      /\ grading'[f] = grading[f]
        BY <1>1, <2>1
    <2>6. Speech(toJudge'[h], fromJudge'[h], working[h], grading'[h])
        BY <2>1, <2>4, <2>5
    <2> QED  BY <2>1, <2>5, <2>6, PacketSend
<1>7. CASE JudgeLeaves(h)
    BY <1>7, BreakSend DEF JudgeLeaves, historyVars
<1> QED  BY <1>3, <1>4, <1>5, <1>6, <1>7 DEF ExternalJudge

\* terminate-submission: to the judge that has it, or out of the queue.
LEMMA TerminationSend ==
    ASSUME SendInv, BridgeInv', NEW s \in Submission, TerminationRequest(s)
    PROVE  SendInv'
<1>1. /\ BridgeInv /\ LinkInv /\ NoLostSubmission /\ SendsMayFail /\ rows = Submission
      /\ \A f \in Handler : CourseInv(f) /\ SpeechInv(f)
    BY DEF SendInv
<1>2. /\ toJudge \in [Handler -> Seq(ToJudgePacket)] /\ submissionMap \in Map
      /\ nodeMap \in [Submission -> JudgeId \cup {NoNode}]
    BY <1>1 DEF BridgeInv, ListInv, ListTypeOK
<1>3. /\ UNCHANGED <<submissionMap, judges, working, sock, rows, phase, row, fromJudge, grading>>
      /\ wanted' = IF submissionMap[s] = NoJudge /\ nodeMap[s] # NoNode THEN wanted \ {s} ELSE wanted
      /\ Abort(s)
    BY DEF TerminationRequest, Abort, listExternals, judgeVars
<1>4. CASE /\ submissionMap[s] # NoJudge
           /\ toJudge' = Deliver(submissionMap[s], Packet("terminate-submission", s))
           /\ UNCHANGED <<queue, nodeMap>>
    <2> DEFINE packet == Packet("terminate-submission", s)
    <2>1. packet \in ToJudgePacket /\ packet.name = "terminate-submission" /\ packet.id = s
        BY DEF Packet, ToJudgePacket
    <2>2. PICK h \in Handler : h = submissionMap[s] /\ working[h] = s
        BY <1>1, <1>2, <1>4 DEF Map, LinkInv
    <2>3. toJudge' = IF sock[h] = "open" THEN [toJudge EXCEPT ![h] = Append(@, packet)] ELSE toJudge
        BY <1>4, <2>2 DEF Deliver
    <2> HIDE DEF packet
    <2>4. /\ toJudge'[h] = toJudge[h] \/ toJudge'[h] = Append(toJudge[h], packet)
          /\ toJudge[h] \in Seq(ToJudgePacket)
          /\ \A f \in Handler \ {h} : toJudge'[f] = toJudge[f]
        BY <1>2, <2>3
    <2>5. Speech(toJudge[h], fromJudge[h], working[h], grading[h])
        BY <1>1 DEF SpeechInv
    <2>6. Speech(Append(toJudge[h], packet), fromJudge[h], working[h], grading[h])
        BY <2>1, <2>2, <2>4, <2>5, AskSpeech
    <2>7. Speech(toJudge'[h], fromJudge'[h], working[h], grading'[h])
        BY <1>3, <2>4, <2>5, <2>6
    <2>8. UNCHANGED <<rows, listVars, working, wanted, phase, row>>
        BY <1>3, <1>4 DEF listVars
    <2>9. /\ sock'[h] = "open" => sock[h] = "open"
          /\ \A f \in Handler \ {h} :
                /\ sock'[f] = sock[f] /\ toJudge'[f] = toJudge[f]
                /\ fromJudge'[f] = fromJudge[f] /\ grading'[f] = grading[f]
        BY <1>3, <2>4
    <2> QED  BY <2>7, <2>8, <2>9, PacketSend
<1>5. CASE /\ submissionMap[s] = NoJudge /\ UNCHANGED toJudge
           /\ \/ nodeMap[s] # NoNode /\ nodeMap' = [nodeMap EXCEPT ![s] = NoNode]
              \/ nodeMap[s] = NoNode /\ nodeMap' = nodeMap
    <2>1. /\ Waiting' \subseteq Waiting /\ Waiting \subseteq Waiting' \cup {s}
          /\ s \in Waiting => s \notin wanted'
          /\ wanted' \subseteq wanted
        BY <1>2, <1>3, <1>5 DEF Waiting
    <2>2. LinkInv'
        BY <1>1, <1>3, <2>1 DEF LinkInv
    <2>3. NoLostSubmission'
        <3> SUFFICES ASSUME NEW t \in wanted', t \notin Waiting'
                     PROVE  \E h \in Handler : working[h] = t /\ phase[h] # "gone"
            BY <1>3 DEF NoLostSubmission
        <3>1. t \in wanted /\ t \notin Waiting
            BY <2>1
        <3> QED  BY <1>1, <3>1 DEF NoLostSubmission
    <2>4. ASSUME NEW f \in Handler PROVE CourseInv(f)' /\ SpeechInv(f)'
        BY <1>1, <1>3, <1>5, CourseKept, SpeechKept
    <2>5. SendsMayFail' /\ rows' = Submission
        BY <1>1, <1>3 DEF SendsMayFail
    <2> QED  BY <2>2, <2>3, <2>4, <2>5 DEF SendInv
<1> QED  BY <1>3, <1>4, <1>5 DEF Abort, Known

\* disconnect-judge: judges are asked to leave, or cut off by force.
LEMMA DisconnectSend ==
    ASSUME SendInv, BridgeInv', NEW n \in Name, NEW force \in Forces, DisconnectRequest(n, force)
    PROVE  SendInv'
<1>1. /\ BridgeInv /\ LinkInv /\ NoLostSubmission /\ SendsMayFail /\ rows = Submission
      /\ \A f \in Handler : CourseInv(f) /\ SpeechInv(f)
    BY DEF SendInv
<1>2. /\ toJudge \in [Handler -> Seq(ToJudgePacket)]
      /\ sock \in [Handler -> {"open", "broken", "shut"}]
    BY <1>1 DEF BridgeInv, BridgeTypeOK, ListInv, ListTypeOK
<1>3. PICK done \in SUBSET Named(n) :
         /\ sock' = [h \in Handler |-> IF force /\ h \in done THEN "shut" ELSE sock[h]]
         /\ toJudge' = [h \in Handler |->
               CASE h \in done /\ force -> <<>>
                 [] h \in done /\ ~force /\ sock[h] = "open"
                        -> Append(toJudge[h], Packet("disconnect", NoSub))
                 [] OTHER -> toJudge[h]]
         /\ UNCHANGED <<listVars, working, problems, rows>>
    BY DEF DisconnectRequest, DisconnectJudges
<1>4. /\ grading' = [h \in Handler |-> IF sock'[h] = "open" THEN grading[h] ELSE NoSub]
      /\ UNCHANGED <<phase, row, fromJudge, wanted>>
      /\ UNCHANGED <<queue, nodeMap, submissionMap, judges>>
    BY <1>3 DEF DisconnectRequest, historyVars, listVars
<1>5. ASSUME NEW f \in Handler
      PROVE  CourseInv(f)' /\ SpeechInv(f)' /\ (sock'[f] = "open" => sock[f] = "open")
    <2>1. CourseInv(f)'
        BY <1>1, <1>3, <1>4, CourseKept
    <2>2. sock'[f] = "open" => sock[f] = "open"
        BY <1>3
    <2> DEFINE packet == Packet("disconnect", NoSub)
    <2>3. packet \in ToJudgePacket /\ packet.name = "disconnect"
        BY DEF Packet, ToJudgePacket
    <2>4. \/ toJudge'[f] = <<>> /\ sock'[f] = "shut"
          \/ toJudge'[f] = toJudge[f]
          \/ toJudge'[f] = Append(toJudge[f], packet)
        BY <1>3
    <2>5. grading'[f] = IF sock'[f] = "open" THEN grading[f] ELSE NoSub
        BY <1>4
    <2> HIDE DEF packet
    <2>6. Speech(toJudge[f], fromJudge[f], working[f], grading[f])
        BY <1>1 DEF SpeechInv
    <2>7. /\ Speech(<<>>, fromJudge[f], working[f], NoSub)
          /\ Speech(toJudge[f], fromJudge[f], working[f], NoSub)
        BY <2>6, CutSpeech
    <2>8. /\ Speech(Append(toJudge[f], packet), fromJudge[f], working[f], grading[f])
          /\ Speech(Append(toJudge[f], packet), fromJudge[f], working[f], NoSub)
        <3>1. toJudge[f] \in Seq(ToJudgePacket)
            BY <1>2
        <3> QED  BY <2>3, <2>6, <2>7, <3>1, AskSpeech
    <2>9. Speech(toJudge'[f], fromJudge[f], working[f], grading'[f])
        BY <2>4, <2>5, <2>6, <2>7, <2>8
    <2>10. SpeechInv(f)'
        BY <1>3, <1>4, <2>9 DEF SpeechInv
    <2> QED  BY <2>1, <2>2, <2>10
<1>6. LinkInv'
    <2> SUFFICES ASSUME NEW s \in Submission, submissionMap[s] # NoJudge
                 PROVE  /\ working[submissionMap[s]] = s /\ phase[submissionMap[s]] \in AtWork
                        /\ s \in Waiting => submissionMap[s] \notin judges
                                            /\ sock'[submissionMap[s]] # "open"
        BY <1>3, <1>4 DEF LinkInv, Waiting
    <2>1. submissionMap[s] \in Handler
        BY <1>1 DEF BridgeInv, ListInv, ListTypeOK, Map
    <2> QED  BY <1>1, <1>5, <2>1 DEF LinkInv
<1>7. NoLostSubmission'
    BY <1>1, <1>3, <1>4 DEF NoLostSubmission, Waiting
<1>8. SendsMayFail' /\ rows' = Submission
    BY <1>1, <1>3 DEF SendsMayFail
<1> QED  BY <1>5, <1>6, <1>7, <1>8 DEF SendInv

\* Every step preserves the invariant.
LEMMA NextSendInv == SendInv /\ [Next]_vars => SendInv'
<1> SUFFICES ASSUME SendInv, [Next]_vars PROVE SendInv'
    OBVIOUS
<1>1. BridgeInv'
    BY NextBridgeInv DEF SendInv
<1>2. ASSUME NEW h \in Handler, HandlerThread(h) PROVE SendInv'
    BY <1>1, <1>2, HandlerThreadSend
<1>3. ASSUME NEW h \in Handler, ExternalJudge(h) PROVE SendInv'
    BY <1>1, <1>3, ExternalJudgeSend
<1>4. ASSUME NEW h \in Handler, ConnectionBreaks(h) PROVE SendInv'
    BY <1>1, <1>4, BreakSend DEF ConnectionBreaks, historyVars
<1>5. ASSUME NEW h \in Handler, NEW ps \in ProblemLists, Handshake(h, ps) PROVE SendInv'
    <2>1. /\ phase[h] = "new" /\ phase' = [phase EXCEPT ![h] = "named"]
          /\ UNCHANGED <<rows, listVars, working, sock, toJudge, row, fromJudge, grading, wanted>>
        BY <1>5 DEF Handshake, GoTo, judgeVars, historyVars
    <2>2. CourseInv(h) /\ phase \in [Handler -> Phases]
        BY DEF SendInv, BridgeInv, BridgeTypeOK
    <2>3. phase'[h] = "named" /\ \A f \in Handler \ {h} : phase'[f] = phase[f]
        BY <2>1, <2>2
    <2>4. CourseInv(h)'
        BY <2>1, <2>2, <2>3 DEF CourseInv, AtWork, listVars
    <2>5. phase[h] \in AtWork => phase'[h] \in AtWork
        BY <2>1 DEF AtWork
    <2> QED  BY <1>1, <2>1, <2>3, <2>4, <2>5, PhaseSend
<1>6. ASSUME NEW h \in Handler, NEW ps \in ProblemLists, JudgeReloads(h, ps) PROVE SendInv'
    BY <1>6 DEF JudgeReloads, SendInv, SendsMayFail
<1>7. ASSUME NEW r \in Requests, SubmissionRequest(r) PROVE SendInv'
    <2>1. r.id \in Submission /\ r.judge \in JudgeId /\ r.priority \in Priority
        BY BridgeAssumption
    <2>2. /\ Judge(r.id, r.judge, r.priority) /\ UNCHANGED <<phase, row, fromJudge, grading>>
          /\ wanted' \subseteq wanted \cup {r.id}
        BY <1>7 DEF SubmissionRequest, judgeVars
    <2> QED  BY <1>1, <2>1, <2>2, JudgeSend
<1>8. ASSUME NEW s \in Submission, TerminationRequest(s) PROVE SendInv'
    BY <1>1, <1>8, TerminationSend
<1>9. ASSUME NEW s \in Submission, DeleteRow(s) PROVE SendInv'
    BY <1>9 DEF DeleteRow, SendInv, SendsMayFail
<1>10. ASSUME NEW n \in Name, NEW force \in Forces, DisconnectRequest(n, force) PROVE SendInv'
    BY <1>1, <1>10, DisconnectSend
<1>11. ASSUME UNCHANGED vars PROVE SendInv'
    <2>1. UNCHANGED <<rows, nodeMap, submissionMap, judges, working, sock, toJudge,
                      phase, row, fromJudge, grading, wanted>>
        BY <1>11 DEF vars, listVars, handlerVars, judgeVars, historyVars
    <2>2. LinkInv' /\ NoLostSubmission'
        BY <2>1 DEF SendInv, LinkInv, NoLostSubmission, Waiting
    <2>3. ASSUME NEW f \in Handler PROVE CourseInv(f)' /\ SpeechInv(f)'
        BY <2>1, CourseKept, SpeechKept DEF SendInv
    <2>4. SendsMayFail' /\ rows' = Submission
        BY <2>1 DEF SendInv, SendsMayFail
    <2> QED  BY <1>1, <2>2, <2>3, <2>4 DEF SendInv
<1> QED  BY <1>2, <1>3, <1>4, <1>5, <1>6, <1>7, <1>8, <1>9, <1>10, <1>11 DEF Next

-----------------------------------------------------------------------------
LEMMA AlwaysSendInv == SendsMayFail /\ Spec => []SendInv
BY InitSendInv, NextSendInv, PTL DEF Spec

\* A submission that is waiting and at a judge at once is there because its send failed: the
\* judge is out of the set, works on it, and its lost connection will be noticed.
THEOREM ClashOnlyAfterFailedSend == SendsMayFail /\ Spec => []ClashAfterFailedSend
BY AlwaysSendInv, SendInvImplies, PTL

\* A send that raises, and a judge cut off by force, lose no submission: it is waiting, at a
\* judge, or about to be put back by the handler that lost its judge.
THEOREM NothingLostWhenSendsFail == SendsMayFail /\ Spec => []NoLostSubmission
BY AlwaysSendInv, SendInvImplies, PTL

\* A termination reaches the judge that grades its submission or none, although a failed
\* send lets two judges work on one submission.
THEOREM AbortHitsWhenSendsFail == SendsMayFail /\ Spec => []AbortHitsTarget
BY AlwaysSendInv, SendInvImplies, PTL
=============================================================================
