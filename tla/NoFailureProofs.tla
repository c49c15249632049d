---------------------------- MODULE NoFailureProofs ----------------------------
(***************************************************************************)
(* What TLAPS proves of JudgeBridge when no call of the bridge fails:      *)
(* connections still break at any moment, but a send does not raise before *)
(* the handler's thread sees the end of the stream, the database answers,  *)
(* no row vanishes, no judge is cut off by force, and judges report their  *)
(* problems once.                                                          *)
(***************************************************************************)
EXTENDS JudgeBridgeProofs

NoFailures == ~SendErrors /\ ~DbErrors /\ ~Vanishing /\ ~Reloads /\ Forces \subseteq {FALSE}

-----------------------------------------------------------------------------
(* What may be on its way between a handler and its judge.                 *)

MaybeSub == Submission \cup {NoSub}

Requested(to) == {i \in DOMAIN to : to[i].name = "submission-request"}

Ended(from) == {i \in DOMAIN from : from[i].name \in FinalPackets}

\* There is only talk of w, the submission the handler works on: first the request, then the
\* grading, and last the final packet.  "to" and "from" are the packets under way, g is what
\* the judge grades and k the state of the connection.  A termination meant for another
\* submission is read before the judge starts on w.
Talk(to, from, w, g, k) ==
    /\ \A i \in Requested(to) :
          /\ to[i].id = w /\ w # NoSub /\ g = NoSub /\ from = <<>>
          /\ Requested(to) = {i}
    /\ \A i \in DOMAIN from :
          from[i].id = w /\ w # NoSub /\ from[i].name # "supported-problems"
    /\ \A i \in Ended(from) : i = Len(from) /\ g = NoSub
    /\ g # NoSub => g = w
    /\ k # "open" => to = <<>> /\ g = NoSub
    /\ k = "open" /\ w # NoSub => g = w \/ Requested(to) # {} \/ Ended(from) # {}
    /\ \A i \in DOMAIN to : to[i].name = "terminate-submission" /\ to[i].id # w =>
          g = NoSub /\ \A j \in Requested(to) : i < j

\* An idle judge has nothing to say and no request to read.
LEMMA IdleTalk ==
    ASSUME NEW to \in Seq(ToJudgePacket), NEW from \in Seq(FromJudgePacket), NEW g, NEW k,
           Talk(to, from, NoSub, g, k)
    PROVE  from = <<>> /\ g = NoSub /\ Requested(to) = {}
<1>1. DOMAIN from = {}
    BY DEF Talk
<1>2. from = <<>>
    BY <1>1, LenProperties, EmptySeq
<1> QED  BY <1>2 DEF Talk

\* submit(): the request goes to an idle judge.
LEMMA DispatchTalk ==
    ASSUME NEW to \in Seq(ToJudgePacket), NEW from \in Seq(FromJudgePacket), NEW g, NEW k,
           NEW s \in Submission, Talk(to, from, NoSub, g, k)
    PROVE  /\ k = "open" => Talk(Append(to, Packet("submission-request", s)), from, s, g, k)
           /\ k # "open" => Talk(to, from, s, g, k)
<1>1. from = <<>> /\ g = NoSub /\ Requested(to) = {}
    BY IdleTalk
<1>2. s # NoSub
    BY ConstantsAssumption
<1>3. k # "open" => Talk(to, from, s, g, k)
    BY <1>1, <1>2 DEF Talk, Requested, Ended
<1>4. ASSUME k = "open"
      PROVE  Talk(Append(to, Packet("submission-request", s)), from, s, g, k)
    <2> DEFINE r == Append(to, Packet("submission-request", s))
               n == Len(to)
    <2>1. /\ n \in Nat /\ DOMAIN to = 1 .. n /\ DOMAIN r = 1 .. n + 1
          /\ r[n + 1] = Packet("submission-request", s)
          /\ \A i \in 1 .. n : r[i] = to[i]
        <3>1. Packet("submission-request", s) \in ToJudgePacket
            BY DEF Packet, ToJudgePacket
        <3> QED  BY <3>1, LenProperties, AppendProperties
    <2> HIDE DEF r, n
    <2>2. /\ Requested(r) = {n + 1}
          /\ r[n + 1].id = s
        BY <1>1, <2>1 DEF Requested, Packet
    <2>3. Talk(r, from, s, g, k)
        BY <1>1, <1>2, <1>4, <2>1, <2>2 DEF Talk, Ended
    <2> QED  BY <2>3 DEF r
<1> QED  BY <1>3, <1>4

\* The handler reads a packet that is not a final one.
LEMMA ReadTalk ==
    ASSUME NEW to, NEW from \in Seq(FromJudgePacket), NEW w, NEW g, NEW k,
           Talk(to, from, w, g, k), from # <<>>, Head(from).name \notin FinalPackets
    PROVE  /\ Talk(to, Tail(from), w, g, k)
           /\ Head(from).id = w /\ Head(from).name # "supported-problems"
<1> DEFINE r == Tail(from)
           n == Len(from)
<1>1. /\ n \in Nat /\ n > 0 /\ DOMAIN from = 1 .. n /\ DOMAIN r = 1 .. n - 1 /\ Len(r) = n - 1
      /\ Head(from) = from[1]
      /\ \A i \in 1 .. n - 1 : r[i] = from[i + 1]
    BY LenProperties, EmptySeq, HeadTailProperties
<1> HIDE DEF r, n
<1>2. Requested(to) = {}
    BY DEF Talk
<1>3. \A i \in DOMAIN r : r[i].id = w /\ w # NoSub /\ r[i].name # "supported-problems"
    BY <1>1 DEF Talk
<1>4. \A i \in Ended(r) : i = Len(r) /\ g = NoSub
    <2> SUFFICES ASSUME NEW i \in Ended(r) PROVE i = Len(r) /\ g = NoSub
        OBVIOUS
    <2>1. i + 1 \in Ended(from)
        BY <1>1 DEF Ended
    <2>2. i + 1 = n /\ g = NoSub
        BY <2>1 DEF Talk, n
    <2> QED  BY <1>1, <2>2 DEF Ended
<1>5. Ended(from) # {} => Ended(r) # {}
    <2> SUFFICES ASSUME NEW i \in Ended(from) PROVE Ended(r) # {}
        OBVIOUS
    <2>1. i \in 1 .. n /\ i # 1
        BY <1>1 DEF Ended
    <2>2. i - 1 \in 1 .. n - 1 /\ i - 1 + 1 = i
        BY <1>1, <2>1
    <2>3. i - 1 \in Ended(r)
        BY <1>1, <2>2 DEF Ended
    <2> QED  BY <2>3
<1>6. Talk(to, r, w, g, k)
    BY <1>2, <1>3, <1>4, <1>5 DEF Talk
<1>7. Head(from).id = w /\ Head(from).name # "supported-problems"
    BY <1>1 DEF Talk
<1> QED  BY <1>6, <1>7 DEF r

\* The handler reads a final packet: it was the last of its submission.
LEMMA EndTalk ==
    ASSUME NEW to, NEW from \in Seq(FromJudgePacket), NEW w, NEW g, NEW k,
           Talk(to, from, w, g, k), from # <<>>, Head(from).name \in FinalPackets
    PROVE  /\ Tail(from) = <<>> /\ Head(from).id = w /\ w # NoSub
           /\ Talk(to, <<>>, NoSub, g, k)
<1>1. /\ Len(from) \in Nat /\ Len(from) > 0 /\ DOMAIN from = 1 .. Len(from)
      /\ Head(from) = from[1] /\ Tail(from) \in Seq(FromJudgePacket)
      /\ Len(Tail(from)) = Len(from) - 1
    BY LenProperties, EmptySeq, HeadTailProperties
<1>2. 1 \in Ended(from)
    BY <1>1 DEF Ended
<1>3. Len(from) = 1 /\ g = NoSub
    BY <1>2 DEF Talk
<1>4. Tail(from) = <<>>
    BY <1>1, <1>3, EmptySeq
<1>5. Head(from).id = w /\ w # NoSub
    BY <1>1 DEF Talk
<1>6. Requested(to) = {}
    BY DEF Talk
<1>7. Talk(to, <<>>, NoSub, g, k)
    BY <1>3, <1>6 DEF Talk, Ended
<1> QED  BY <1>4, <1>5, <1>7

\* What a sequence holds after Append.
LEMMA Appended ==
    ASSUME NEW S, NEW q \in Seq(S), NEW e \in S
    PROVE  /\ Len(q) \in Nat /\ DOMAIN q = 1 .. Len(q)
           /\ DOMAIN Append(q, e) = 1 .. Len(q) + 1 /\ Len(Append(q, e)) = Len(q) + 1
           /\ Append(q, e)[Len(q) + 1] = e
           /\ \A i \in 1 .. Len(q) : Append(q, e)[i] = q[i]
BY LenProperties, AppendProperties

\* The judge sends something about what it grades that is not a final packet.
LEMMA ProgressTalk ==
    ASSUME NEW to, NEW from \in Seq(FromJudgePacket), NEW w, NEW g, NEW k,
           NEW packet \in FromJudgePacket, Talk(to, from, w, g, k), g # NoSub,
           packet.id = g, packet.name \notin FinalPackets, packet.name # "supported-problems"
    PROVE  Talk(to, Append(from, packet), w, g, k)
<1> DEFINE r == Append(from, packet)
           n == Len(from)
<1>1. /\ n \in Nat /\ DOMAIN from = 1 .. n /\ DOMAIN r = 1 .. n + 1
      /\ r[n + 1] = packet /\ \A i \in 1 .. n : r[i] = from[i]
    BY Appended
<1> HIDE DEF r, n
<1>2. Requested(to) = {} /\ Ended(from) = {} /\ g = w
    BY DEF Talk
<1>3. Ended(r) = {}
    BY <1>1, <1>2 DEF Ended
<1>4. \A i \in DOMAIN r : r[i].id = w /\ w # NoSub /\ r[i].name # "supported-problems"
    BY <1>1, <1>2 DEF Talk
<1>5. Talk(to, r, w, g, k)
    BY <1>2, <1>3, <1>4 DEF Talk
<1> QED  BY <1>5 DEF r

\* The judge sends the final packet of what it grades.
LEMMA FinishTalk ==
    ASSUME NEW to, NEW from \in Seq(FromJudgePacket), NEW w, NEW g, NEW k,
           NEW packet \in FromJudgePacket, Talk(to, from, w, g, k), g # NoSub,
           packet.id = g, packet.name \in FinalPackets
    PROVE  Talk(to, Append(from, packet), w, NoSub, k)
<1> DEFINE r == Append(from, packet)
           n == Len(from)
<1>1. /\ n \in Nat /\ DOMAIN from = 1 .. n /\ DOMAIN r = 1 .. n + 1 /\ Len(r) = n + 1
      /\ r[n + 1] = packet /\ \A i \in 1 .. n : r[i] = from[i]
    BY Appended
<1> HIDE DEF r, n
<1>2. Requested(to) = {} /\ Ended(from) = {} /\ g = w /\ k = "open"
    BY DEF Talk
<1>3. Ended(r) = {n + 1}
    BY <1>1, <1>2 DEF Ended
<1>4. packet.name # "supported-problems"
    BY BridgeAssumption DEF FinalPackets
<1>5. \A i \in DOMAIN r : r[i].id = w /\ w # NoSub /\ r[i].name # "supported-problems"
    BY <1>1, <1>2, <1>4 DEF Talk
<1>6. Talk(to, r, w, NoSub, k)
    BY <1>1, <1>2, <1>3, <1>5 DEF Talk
<1> QED  BY <1>6 DEF r

\* The judge reads a packet that is not a request.
LEMMA OtherTalk ==
    ASSUME NEW to \in Seq(ToJudgePacket), NEW from, NEW w, NEW g, NEW k,
           Talk(to, from, w, g, k), to # <<>>, Head(to).name # "submission-request"
    PROVE  Talk(Tail(to), from, w, g, k)
<1> DEFINE r == Tail(to)
           n == Len(to)
<1>1. /\ n \in Nat /\ n > 0 /\ DOMAIN to = 1 .. n /\ DOMAIN r = 1 .. n - 1
      /\ Head(to) = to[1] /\ \A i \in 1 .. n - 1 : r[i] = to[i + 1]
    BY LenProperties, EmptySeq, HeadTailProperties
<1> HIDE DEF r, n
<1>2. k = "open"
    BY DEF Talk
<1>3. \A i \in Requested(r) : i + 1 \in Requested(to) /\ r[i] = to[i + 1] /\ i \in Nat
    BY <1>1 DEF Requested
<1>4. ASSUME NEW i \in Requested(to) PROVE i - 1 \in Requested(r) /\ i \in Nat
    <2>1. i \in 1 .. n /\ i # 1
        BY <1>1 DEF Requested
    <2>2. i - 1 \in 1 .. n - 1 /\ i - 1 + 1 = i
        BY <1>1, <2>1
    <2> QED  BY <1>1, <2>2 DEF Requested
<1>5. ASSUME NEW i \in Requested(r)
      PROVE  /\ r[i].id = w /\ w # NoSub /\ g = NoSub /\ from = <<>>
             /\ Requested(r) = {i}
    <2>1. /\ r[i].id = w /\ w # NoSub /\ g = NoSub /\ from = <<>>
          /\ Requested(to) = {i + 1}
        BY <1>3 DEF Talk
    <2>2. \A j \in Requested(r) : j = i
        BY <1>3, <2>1
    <2> QED  BY <2>1, <2>2
<1>6. ASSUME NEW i \in DOMAIN r, r[i].name = "terminate-submission", r[i].id # w
      PROVE  g = NoSub /\ \A j \in Requested(r) : i < j
    <2>1. i + 1 \in DOMAIN to /\ to[i + 1] = r[i] /\ i \in Nat
        BY <1>1
    <2>2. g = NoSub /\ \A j \in Requested(to) : i + 1 < j
        BY <1>6, <2>1 DEF Talk
    <2> QED  BY <1>3, <2>1, <2>2
<1>7. Talk(r, from, w, g, k)
    <2>1. Requested(to) # {} => Requested(r) # {}
        BY <1>4
    <2> QED  BY <1>2, <1>5, <1>6, <2>1 DEF Talk
<1> QED  BY <1>7 DEF r

\* The judge reads its request and starts.
LEMMA StartTalk ==
    ASSUME NEW to \in Seq(ToJudgePacket), NEW from \in Seq(FromJudgePacket), NEW w, NEW g,
           NEW k, NEW packet \in FromJudgePacket,
           Talk(to, from, w, g, k), to # <<>>, Head(to).name = "submission-request",
           packet.name = "submission-acknowledged", packet.id = Head(to).id
    PROVE  Head(to).id = w /\ Talk(Tail(to), Append(from, packet), w, w, k)
<1> DEFINE r == Tail(to)
           n == Len(to)
           q == Append(from, packet)
<1>1. /\ n \in Nat /\ n > 0 /\ DOMAIN to = 1 .. n /\ DOMAIN r = 1 .. n - 1
      /\ Head(to) = to[1] /\ \A i \in 1 .. n - 1 : r[i] = to[i + 1]
    BY LenProperties, EmptySeq, HeadTailProperties
<1>2. 1 \in Requested(to)
    BY <1>1 DEF Requested
<1>3. to[1].id = w /\ w # NoSub /\ from = <<>> /\ Requested(to) = {1} /\ k = "open"
    BY <1>2 DEF Talk
<1>4. DOMAIN q = {1} /\ q[1] = packet
    <2>1. DOMAIN q = 1 .. 1 /\ q[1] = packet
        BY <1>3, Appended, EmptySeq
    <2> QED  BY <2>1
<1> HIDE DEF r, n, q
<1>5. Requested(r) = {}
    <2> SUFFICES ASSUME NEW i \in Requested(r) PROVE FALSE
        OBVIOUS
    <2>1. i \in Nat /\ i > 0 /\ i + 1 \in Requested(to)
        BY <1>1 DEF Requested
    <2> QED  BY <1>3, <2>1
<1>6. Ended(q) = {}
    <2>1. "submission-acknowledged" \notin FinalPackets
        BY BridgeAssumption DEF FinalPackets
    <2> QED  BY <1>4, <2>1 DEF Ended
<1>7. \A i \in DOMAIN r : ~(r[i].name = "terminate-submission" /\ r[i].id # w)
    <2> SUFFICES ASSUME NEW i \in DOMAIN r, r[i].name = "terminate-submission", r[i].id # w
                 PROVE  FALSE
        OBVIOUS
    <2>1. i \in Nat /\ i > 0 /\ i + 1 \in DOMAIN to /\ to[i + 1] = r[i]
        BY <1>1
    <2>2. i + 1 < 1
        BY <1>2, <2>1 DEF Talk
    <2> QED  BY <2>1, <2>2
<1>8. Talk(r, q, w, w, k)
    BY <1>1, <1>3, <1>4, <1>5, <1>6, <1>7 DEF Talk
<1> QED  BY <1>1, <1>3, <1>8 DEF r, q

\* A termination of w, or the request to leave, is sent to the judge.
LEMMA AskTalk ==
    ASSUME NEW to \in Seq(ToJudgePacket), NEW from, NEW w, NEW g, NEW k,
           NEW packet \in ToJudgePacket, Talk(to, from, w, g, k), k = "open",
           packet.name # "submission-request",
           packet.name = "terminate-submission" => packet.id = w
    PROVE  Talk(Append(to, packet), from, w, g, k)
<1> DEFINE r == Append(to, packet)
           n == Len(to)
<1>1. /\ n \in Nat /\ DOMAIN to = 1 .. n /\ DOMAIN r = 1 .. n + 1
      /\ r[n + 1] = packet /\ \A i \in 1 .. n : r[i] = to[i]
    BY Appended
<1> HIDE DEF r, n
<1>2. Requested(r) = Requested(to) /\ \A i \in Requested(r) : r[i] = to[i]
    BY <1>1 DEF Requested
<1>3. ASSUME NEW i \in DOMAIN r, r[i].name = "terminate-submission", r[i].id # w
      PROVE  g = NoSub /\ \A j \in Requested(r) : i < j
    <2>1. i \in DOMAIN to /\ to[i] = r[i]
        BY <1>1, <1>3
    <2> QED  BY <1>2, <1>3, <2>1 DEF Talk
<1>4. Talk(r, from, w, g, k)
    BY <1>2, <1>3 DEF Talk
<1> QED  BY <1>4 DEF r

\* The connection breaks, and the handler's thread meets its end.
LEMMA LostTalk ==
    ASSUME NEW to, NEW from, NEW w, NEW g, NEW k, Talk(to, from, w, g, k)
    PROVE  /\ Talk(<<>>, from, w, NoSub, "broken")
           /\ k # "open" => Talk(to, <<>>, w, g, k)
<1>1. Requested(<<>>) = {} /\ Ended(<<>>) = {} /\ DOMAIN <<>> = {}
    BY DEF Requested, Ended
<1>2. Talk(<<>>, from, w, NoSub, "broken")
    BY <1>1 DEF Talk
<1>3. k # "open" => Talk(to, <<>>, w, g, k)
    BY <1>1 DEF Talk
<1> QED  BY <1>2, <1>3

-----------------------------------------------------------------------------
(* The inductive invariant.                                                *)

TalkInv(h) == Talk(toJudge[h], fromJudge[h], working[h], grading[h], sock[h])

\* The phases of a thread, the set of judges and the connection go together.
ThreadInv(h) ==
    /\ phase[h] # "updating" /\ sock[h] # "shut"
    /\ sock[h] = "open" => phase[h] \in {"new", "named", "registered", "up"}
    /\ phase[h] \in {"new", "named"} => working[h] = NoSub
    /\ phase[h] \in {"registered", "up"} => h \in judges
    /\ h \in judges => phase[h] \in {"registered", "up", "dropped"}
    /\ phase[h] = "dropped" /\ working[h] # NoSub => h \in judges
    /\ phase[h] = "up" \/ (phase[h] = "dropped" /\ h \in judges) => row[h]
    /\ phase[h] \in {"dropped", "removed"} => row[h] \/ working[h] = NoSub

\* A registered idle judge can take nothing that waits.
IdleInv ==
    \A h \in judges, s \in Submission : working[h] = NoSub => ~CanJudge(h, s, nodeMap[s])

CleanInv ==
    /\ NoFailures /\ BridgeInv /\ rows = Submission
    /\ MapsAgree /\ IdleInv /\ NoLostSubmission
    /\ \A h \in Handler : ThreadInv(h) /\ TalkInv(h)

\* As long as no call fails the map and the judges agree, no two judges grade one
\* submission, no termination reaches another submission's judge, no accepted submission is
\* lost, and a working judge will be heard of.
LEMMA CleanInvImplies ==
    ASSUME CleanInv
    PROVE  MapsAgree /\ OneJudge /\ AbortHitsTarget /\ NoLostSubmission /\ WorkInFlight
<1> USE DEF CleanInv
<1>1. MapsAgree /\ NoLostSubmission
    OBVIOUS
<1>2. OneJudge
    <2> SUFFICES ASSUME NEW f \in Handler, NEW h \in Handler, f # h,
                        grading[f] # NoSub, grading[f] = grading[h]
                 PROVE  FALSE
        BY DEF OneJudge
    <2>1. /\ working[f] = grading[f] /\ sock[f] = "open"
          /\ working[h] = grading[f] /\ sock[h] = "open"
        <3>1. TalkInv(f) /\ TalkInv(h)
            OBVIOUS
        <3> QED  BY <3>1 DEF TalkInv, Talk
    <2>2. f \in judges /\ h \in judges
        <3>1. ThreadInv(f) /\ ThreadInv(h)
            OBVIOUS
        <3> QED  BY <2>1, <3>1 DEF ThreadInv
    <2> QED  BY <2>1, <2>2 DEF MapsAgree
<1>3. AbortHitsTarget
    <2> SUFFICES ASSUME NEW h \in Handler, toJudge[h] # <<>>, grading[h] # NoSub,
                        Head(toJudge[h]).name = "terminate-submission"
                 PROVE  Head(toJudge[h]).id = grading[h]
        BY DEF AbortHitsTarget
    <2>1. toJudge[h] \in Seq(ToJudgePacket)
        BY DEF BridgeInv, ListInv, ListTypeOK
    <2>2. 1 \in DOMAIN toJudge[h] /\ Head(toJudge[h]) = toJudge[h][1]
        BY <2>1, LenProperties, EmptySeq, HeadTailProperties
    <2>3. TalkInv(h)
        OBVIOUS
    <2> QED  BY <2>2, <2>3 DEF TalkInv, Talk
<1>4. WorkInFlight
    <2> SUFFICES ASSUME NEW h \in judges, working[h] # NoSub, sock[h] = "open"
                 PROVE  \/ grading[h] = working[h]
                        \/ \E i \in DOMAIN toJudge[h] :
                              toJudge[h][i] = Packet("submission-request", working[h])
                        \/ \E i \in DOMAIN fromJudge[h] :
                              fromJudge[h][i].name \in FinalPackets /\ fromJudge[h][i].id = working[h]
        BY DEF WorkInFlight
    <2>1. /\ h \in Handler /\ toJudge[h] \in Seq(ToJudgePacket) /\ TalkInv(h)
        BY DEF BridgeInv, ListInv, ListTypeOK
    <2>2. CASE grading[h] = working[h]
        BY <2>2
    <2>3. ASSUME NEW i \in Requested(toJudge[h])
          PROVE  toJudge[h][i] = Packet("submission-request", working[h])
        <3>1. i \in DOMAIN toJudge[h] /\ toJudge[h][i].name = "submission-request"
            BY DEF Requested
        <3>2. toJudge[h][i] \in ToJudgePacket
            BY <2>1, <3>1, LenProperties, ElementOfSeq
        <3>3. toJudge[h][i].id = working[h]
            BY <2>1 DEF TalkInv, Talk
        <3> QED  BY <3>1, <3>2, <3>3 DEF ToJudgePacket, Packet
    <2>4. ASSUME NEW i \in Ended(fromJudge[h])
          PROVE  fromJudge[h][i].name \in FinalPackets /\ fromJudge[h][i].id = working[h]
        BY <2>1 DEF TalkInv, Talk, Ended
    <2>5. grading[h] = working[h] \/ Requested(toJudge[h]) # {} \/ Ended(fromJudge[h]) # {}
        BY <2>1 DEF TalkInv, Talk
    <2>6. Requested(toJudge[h]) \subseteq DOMAIN toJudge[h] /\ Ended(fromJudge[h]) \subseteq DOMAIN fromJudge[h]
        BY DEF Requested, Ended
    <2> QED  BY <2>3, <2>4, <2>5, <2>6
<1> QED  BY <1>1, <1>2, <1>3, <1>4

LEMMA InitCleanInv == NoFailures /\ Init => CleanInv
<1> SUFFICES ASSUME NoFailures, Init PROVE CleanInv
    OBVIOUS
<1>1. BridgeInv
    BY InitBridgeInv
<1>2. rows = Submission /\ MapsAgree /\ IdleInv /\ NoLostSubmission
    BY DEF Init, ListInit, MapsAgree, IdleInv, NoLostSubmission
<1>3. ASSUME NEW h \in Handler PROVE ThreadInv(h) /\ TalkInv(h)
    <2>1. Requested(<<>>) = {} /\ Ended(<<>>) = {} /\ DOMAIN <<>> = {}
        BY DEF Requested, Ended
    <2> QED  BY <2>1 DEF Init, ListInit, ThreadInv, TalkInv, Talk
<1> QED  BY <1>1, <1>2, <1>3 DEF CleanInv

-----------------------------------------------------------------------------
(* What an action that does not reach a part of the invariant keeps.       *)

LEMMA MapsKept ==
    ASSUME MapsAgree, UNCHANGED <<nodeMap, submissionMap, judges, working>>
    PROVE  MapsAgree'
BY DEF MapsAgree, Waiting

LEMMA IdleKept ==
    ASSUME IdleInv, UNCHANGED <<nodeMap, judges, working>>,
           \A h \in judges : problems'[h] = problems[h]
    PROVE  IdleInv'
BY DEF IdleInv, CanJudge

\* A thread may end when it has nothing to put back.
LEMMA LostKept ==
    ASSUME NoLostSubmission, wanted' \subseteq wanted, UNCHANGED <<nodeMap, working>>,
           wanted \subseteq Submission, NoSub \notin Submission,
           \A h \in Handler : phase'[h] = "gone" => phase[h] = "gone" \/ working[h] = NoSub
    PROVE  NoLostSubmission'
<1> SUFFICES ASSUME NEW s \in wanted', s \notin Waiting'
             PROVE  \E h \in Handler : working'[h] = s /\ phase'[h] # "gone"
    BY DEF NoLostSubmission
<1>1. s \in wanted /\ s \notin Waiting /\ s # NoSub
    BY DEF Waiting
<1>2. PICK h \in Handler : working[h] = s /\ phase[h] # "gone"
    BY <1>1 DEF NoLostSubmission
<1> QED  BY <1>1, <1>2

LEMMA ThreadKept ==
    ASSUME NEW h \in Handler, ThreadInv(h), phase'[h] = phase[h], sock'[h] = sock[h],
           working'[h] = working[h], h \in judges' <=> h \in judges, row'[h] = row[h]
    PROVE  ThreadInv(h)'
BY DEF ThreadInv

LEMMA TalkKept ==
    ASSUME NEW h \in Handler, TalkInv(h), toJudge'[h] = toJudge[h], fromJudge'[h] = fromJudge[h],
           working'[h] = working[h], grading'[h] = grading[h], sock'[h] = sock[h]
    PROVE  TalkInv(h)'
BY DEF TalkInv

-----------------------------------------------------------------------------
(* What the methods of JudgeList do when no call fails.                    *)

\* Every dispatch succeeds.
LEMMA AlwaysSent ==
    ASSUME NoFailures, rows = Submission, NEW h \in Handler, sock[h] # "shut",
           NEW s \in Submission, NEW outcome \in Outcomes(h, s)
    PROVE  outcome = "sent"
BY DEF NoFailures, Outcomes

\* The work of h, so far w, stays as it is, or is a submission whose request is sent.
GivenWork(h, w) ==
    \/ working'[h] = w /\ toJudge'[h] = toJudge[h]
    \/ /\ w = NoSub /\ working'[h] \in Submission
       /\ toJudge'[h] = IF sock[h] = "open"
                        THEN Append(toJudge[h], Packet("submission-request", working'[h]))
                        ELSE toJudge[h]

LEMMA GivenTalk ==
    ASSUME BridgeInv, NEW h \in Handler, NEW from \in Seq(FromJudgePacket), NEW w, NEW g,
           Talk(toJudge[h], from, w, g, sock[h]), GivenWork(h, w)
    PROVE  Talk(toJudge'[h], from, working'[h], g, sock[h])
<1>1. toJudge[h] \in Seq(ToJudgePacket)
    BY DEF BridgeInv, ListInv, ListTypeOK
<1>2. CASE working'[h] = w /\ toJudge'[h] = toJudge[h]
    BY <1>2
<1>3. CASE /\ w = NoSub /\ working'[h] \in Submission
           /\ toJudge'[h] = IF sock[h] = "open"
                            THEN Append(toJudge[h], Packet("submission-request", working'[h]))
                            ELSE toJudge[h]
    BY <1>1, <1>3, DispatchTalk
<1> QED  BY <1>2, <1>3 DEF GivenWork

\* submit() with a packet that is sent.
LEMMA SubmitGivesWork ==
    ASSUME ListInv, NEW h \in Handler, NEW s \in Submission, NEW w \in Work, w[h] = NoSub,
           Submit(h, s, "sent", w)
    PROVE  /\ working' = [w EXCEPT ![h] = s]
           /\ \A f \in Handler : GivenWork(f, w[f])
           /\ \A f \in Handler \ {h} : working'[f] = w[f] /\ toJudge'[f] = toJudge[f]
<1>1. working' = [w EXCEPT ![h] = s] /\ toJudge' = Deliver(h, Packet("submission-request", s))
    BY DEF Submit
<1>2. ASSUME NEW f \in Handler PROVE GivenWork(f, w[f])
    BY <1>1 DEF GivenWork, Deliver, Work, ListInv, ListTypeOK
<1>3. ASSUME NEW f \in Handler \ {h} PROVE working'[f] = w[f] /\ toJudge'[f] = toJudge[f]
    BY <1>1 DEF Deliver, Work, ListInv, ListTypeOK
<1> QED  BY <1>1, <1>2, <1>3

\* MapsAgree of the maps as _handle_free_judge finds them.
Agree(sm, js, w) ==
    /\ \A s \in Submission : sm[s] # NoJudge => w[sm[s]] = s /\ sm[s] \in js /\ s \notin Waiting
    /\ \A h \in js : w[h] # NoSub => sm[w[h]] = h

\* The outcome of _handle_free_judge(h) when js are the judges and w is their work.
Freed(h, js, w) ==
    /\ judges' = js /\ MapsAgree' /\ IdleInv'
    /\ \A f \in Handler : GivenWork(f, w[f])
    /\ \A f \in Handler \ {h} : working'[f] = w[f] /\ toJudge'[f] = toJudge[f]
    /\ \A s \in Submission : s \in Waiting => s \in Waiting' \/ working'[h] = s

\* _handle_free_judge: the free judge h takes a submission from the queue, or can take none.
LEMMA FreeJudge ==
    ASSUME ListInv, NoFailures, rows = Submission, NEW h \in Handler, sock[h] # "shut",
           NEW sm \in Map, NEW js \in SUBSET Handler, NEW w \in Work, h \in js, w[h] = NoSub,
           Agree(sm, js, w), problems' = problems,
           \A f \in js \ {h}, s \in Submission : w[f] = NoSub => ~CanJudge(f, s, nodeMap[s]),
           HandleFreeJudge(h, sm, js, w)
    PROVE  Freed(h, js, w)
<1>1. CASE /\ Eligible(h) = {} /\ submissionMap' = sm /\ judges' = js /\ working' = w
           /\ UNCHANGED <<queue, nodeMap, toJudge>>
    <2>1. MapsAgree'
        BY <1>1 DEF MapsAgree, Agree, Waiting
    <2>2. \A s \in Submission : ~CanJudge(h, s, nodeMap[s])
        BY <1>1, NothingEligible DEF ListInv
    <2>3. IdleInv'
        BY <1>1, <2>2 DEF IdleInv, CanJudge
    <2>4. \A f \in Handler : GivenWork(f, w[f])
        BY <1>1 DEF GivenWork
    <2> QED  BY <1>1, <2>1, <2>3, <2>4 DEF Freed, GivenWork, Waiting
<1>2. ASSUME NEW i \in Eligible(h), NEW outcome \in Outcomes(h, queue[i]),
             submissionMap' = [sm EXCEPT ![queue[i]] = h],
             Submit(h, queue[i], outcome, w),
             TakeOut(h, i, outcome, js)
      PROVE  Freed(h, js, w)
    <2>1. PICK t \in Submission : t = queue[i] /\ CanJudge(h, t, nodeMap[t])
        BY DEF Eligible
    <2>2. t \in Waiting
        BY <2>1, ConstantsAssumption DEF CanJudge, JudgeId, Waiting
    <2>3. outcome = "sent"
        BY <2>1, AlwaysSent
    <2>4. /\ working' = [w EXCEPT ![h] = t]
          /\ \A f \in Handler : GivenWork(f, w[f])
          /\ \A f \in Handler \ {h} : working'[f] = w[f] /\ toJudge'[f] = toJudge[f]
        BY <1>2, <2>1, <2>3, SubmitGivesWork
    <2>5. /\ submissionMap' = [sm EXCEPT ![t] = h]
          /\ nodeMap' = [nodeMap EXCEPT ![t] = NoNode] /\ judges' = js
        BY <1>2, <2>1, <2>3 DEF TakeOut
    <2>6. Waiting' = Waiting \ {t}
        BY <2>5 DEF Waiting, ListInv, ListTypeOK
    <2>7. sm[t] = NoJudge /\ t # NoSub /\ h # NoJudge
        BY <2>2, ConstantsAssumption DEF Agree
    <2>8. MapsAgree'
        <3>1. ASSUME NEW s \in Submission, submissionMap'[s] # NoJudge
              PROVE  /\ working'[submissionMap'[s]] = s /\ submissionMap'[s] \in judges'
                     /\ s \notin Waiting'
            <4>1. CASE s = t
                BY <2>4, <2>5, <2>6, <4>1 DEF Map, Work
            <4>2. CASE s # t
                <5>1. submissionMap'[s] = sm[s]
                    BY <2>5, <4>2 DEF Map
                <5>2. w[sm[s]] = s /\ sm[s] \in js /\ s \notin Waiting
                    BY <3>1, <5>1 DEF Agree
                <5>3. sm[s] # h
                    BY <5>2, ConstantsAssumption
                <5> QED  BY <2>4, <2>5, <2>6, <5>1, <5>2, <5>3 DEF Work
            <4> QED  BY <4>1, <4>2
        <3>2. ASSUME NEW f \in judges', working'[f] # NoSub
              PROVE  submissionMap'[working'[f]] = f
            <4>1. CASE f = h
                BY <2>4, <2>5, <4>1 DEF Map, Work
            <4>2. CASE f # h
                <5>1. working'[f] = w[f] /\ f \in js /\ w[f] \in Submission
                    BY <2>4, <2>5, <3>2, <4>2 DEF Work
                <5>2. sm[w[f]] = f /\ f # NoJudge
                    BY <3>2, <5>1, ConstantsAssumption DEF Agree
                <5>3. w[f] # t
                    BY <2>7, <5>2
                <5> QED  BY <2>5, <5>1, <5>2, <5>3 DEF Map
            <4> QED  BY <4>1, <4>2
        <3> QED  BY <3>1, <3>2 DEF MapsAgree
    <2>9. IdleInv'
        <3> SUFFICES ASSUME NEW f \in js, NEW s \in Submission, working'[f] = NoSub
                     PROVE  ~CanJudge(f, s, nodeMap[s])'
            BY <2>5 DEF IdleInv
        <3>1. f # h /\ w[f] = NoSub
            BY <2>4, <2>7 DEF Work
        <3>2. ~CanJudge(f, s, nodeMap[s])
            BY <3>1
        <3>3. s = t => nodeMap'[s] = NoNode
            BY <2>5 DEF ListInv, ListTypeOK
        <3>4. s # t => nodeMap'[s] = nodeMap[s]
            BY <2>5 DEF ListInv, ListTypeOK
        <3>5. NoNode \notin {AnyJudge, NameOf[f]}
            BY ConstantsAssumption DEF JudgeId
        <3> QED  BY <3>2, <3>3, <3>4, <3>5 DEF CanJudge
    <2>10. \A s \in Submission : s \in Waiting => s \in Waiting' \/ working'[h] = s
        BY <2>4, <2>6 DEF Work
    <2> QED  BY <2>4, <2>5, <2>8, <2>9, <2>10 DEF Freed
<1> QED  BY <1>1, <1>2 DEF HandleFreeJudge

\* judge: the submission is known, waits because no judge can take it, or goes to an idle one.
LEMMA JudgeGivesWork ==
    ASSUME CleanInv, NEW s \in Submission, NEW id \in JudgeId, NEW p \in Priority,
           Judge(s, id, p)
    PROVE  /\ UNCHANGED <<judges, problems, sock, rows>> /\ MapsAgree' /\ IdleInv'
           /\ \A f \in Handler : GivenWork(f, working[f])
           /\ \A f \in Handler : working'[f] = working[f] \/ f \in judges
           /\ Waiting \subseteq Waiting'
           /\ s \in Waiting' \/ \E f \in judges : working'[f] = s
<1> USE DEF CleanInv
<1>0. /\ UNCHANGED <<problems, sock, rows>> /\ ListInv /\ MapsAgree /\ IdleInv
      /\ judges \in SUBSET Handler /\ working \in Work /\ submissionMap \in Map
    BY DEF Judge, listExternals, BridgeInv, ListInv, ListTypeOK
<1>1. CASE Known(s) /\ UNCHANGED <<listVars, working, toJudge>>
    <2>1. UNCHANGED <<nodeMap, submissionMap, judges, working, toJudge>>
        BY <1>1 DEF listVars
    <2>2. MapsAgree' /\ IdleInv'
        BY <1>0, <2>1, MapsKept, IdleKept
    <2>3. \A f \in Handler : GivenWork(f, working[f]) /\ working'[f] = working[f]
        BY <2>1 DEF GivenWork
    <2>4. Waiting' = Waiting
        BY <2>1 DEF Waiting
    <2>5. s \in Waiting \/ \E f \in judges : working[f] = s
        BY <1>1 DEF Known, Waiting, MapsAgree
    <2> QED  BY <1>0, <2>1, <2>2, <2>3, <2>4, <2>5
<1>2. CASE /\ ~Known(s) /\ Candidates(s, id) = {}
           /\ nodeMap' = [nodeMap EXCEPT ![s] = id]
           /\ UNCHANGED <<submissionMap, judges, working, toJudge>>
    <2>1. id # NoNode
        BY ConstantsAssumption
    <2>2. Waiting' = Waiting \cup {s}
        BY <1>0, <1>2, <2>1 DEF Waiting, ListInv, ListTypeOK
    <2>3. submissionMap[s] = NoJudge
        BY <1>2 DEF Known
    <2>4. MapsAgree'
        BY <1>0, <1>2, <2>2, <2>3 DEF MapsAgree
    <2>5. IdleInv'
        <3> SUFFICES ASSUME NEW f \in judges, NEW t \in Submission, working[f] = NoSub
                     PROVE  ~CanJudge(f, t, nodeMap[t])'
            BY <1>2 DEF IdleInv
        <3>1. ~CanJudge(f, t, nodeMap[t]) /\ ~CanJudge(f, s, id)
            BY <1>0, <1>2 DEF IdleInv, Candidates
        <3>2. nodeMap'[t] = IF t = s THEN id ELSE nodeMap[t]
            BY <1>0, <1>2 DEF ListInv, ListTypeOK
        <3> QED  BY <1>0, <3>1, <3>2 DEF CanJudge
    <2>6. \A f \in Handler : GivenWork(f, working[f]) /\ working'[f] = working[f]
        BY <1>2 DEF GivenWork
    <2> QED  BY <1>0, <1>2, <2>2, <2>4, <2>5, <2>6
<1>3. ASSUME ~Known(s), NEW h \in Candidates(s, id), NEW outcome \in Outcomes(h, s),
             submissionMap' = [submissionMap EXCEPT ![s] = h],
             Submit(h, s, outcome, working),
             judges' = IF outcome = "sent" THEN judges ELSE judges \ {h},
             UNCHANGED <<queue, nodeMap>>
      PROVE  /\ UNCHANGED judges /\ MapsAgree' /\ IdleInv'
             /\ \A f \in Handler : GivenWork(f, working[f])
             /\ \A f \in Handler : working'[f] = working[f] \/ f \in judges
             /\ Waiting \subseteq Waiting'
             /\ \E f \in judges : working'[f] = s
    <2>1. h \in judges /\ h \in Handler /\ working[h] = NoSub /\ sock[h] # "shut" /\ h # NoJudge
        BY <1>0, ConstantsAssumption DEF Candidates, ThreadInv
    <2>2. outcome = "sent"
        BY <2>1, AlwaysSent
    <2>3. /\ working' = [working EXCEPT ![h] = s]
          /\ \A f \in Handler : GivenWork(f, working[f])
        BY <1>0, <1>3, <2>1, <2>2, SubmitGivesWork
    <2>4. judges' = judges /\ Waiting' = Waiting
        BY <1>3, <2>2 DEF Waiting
    <2>5. submissionMap[s] = NoJudge /\ s \notin Waiting /\ s # NoSub
        BY <1>3, ConstantsAssumption DEF Known, Waiting
    <2>6. MapsAgree'
        <3>1. ASSUME NEW t \in Submission, submissionMap'[t] # NoJudge
              PROVE  /\ working'[submissionMap'[t]] = t /\ submissionMap'[t] \in judges'
                     /\ t \notin Waiting'
            <4>1. CASE t = s
                BY <1>0, <1>3, <2>1, <2>3, <2>4, <2>5, <4>1 DEF Map, Work
            <4>2. CASE t # s
                <5>1. submissionMap'[t] = submissionMap[t]
                    BY <1>0, <1>3, <4>2 DEF Map
                <5>2. /\ working[submissionMap[t]] = t /\ submissionMap[t] \in judges
                      /\ t \notin Waiting /\ t # NoSub
                    BY <3>1, <5>1, ConstantsAssumption DEF MapsAgree
                <5>3. submissionMap[t] # h
                    BY <2>1, <5>2
                <5> QED  BY <1>0, <2>3, <2>4, <5>1, <5>2, <5>3 DEF Work
            <4> QED  BY <4>1, <4>2
        <3>2. ASSUME NEW f \in judges', working'[f] # NoSub
              PROVE  submissionMap'[working'[f]] = f
            <4>1. CASE f = h
                BY <1>0, <1>3, <2>1, <2>3, <4>1 DEF Map, Work
            <4>2. CASE f # h
                <5>1. working'[f] = working[f] /\ f \in judges /\ working[f] \in Submission
                    BY <1>0, <2>3, <2>4, <3>2, <4>2 DEF Work
                <5>2. submissionMap[working[f]] = f /\ f # NoJudge
                    BY <1>0, <3>2, <5>1, ConstantsAssumption DEF MapsAgree
                <5>3. working[f] # s
                    BY <2>5, <5>2
                <5> QED  BY <1>0, <1>3, <5>1, <5>2, <5>3 DEF Map
            <4> QED  BY <4>1, <4>2
        <3> QED  BY <3>1, <3>2 DEF MapsAgree
    <2>7. IdleInv'
        <3> SUFFICES ASSUME NEW f \in judges, NEW t \in Submission, working'[f] = NoSub
                     PROVE  ~CanJudge(f, t, nodeMap[t])
            BY <1>0, <1>3, <2>4 DEF IdleInv, CanJudge
        <3>1. working[f] = NoSub
            BY <1>0, <2>3, <2>5 DEF Work
        <3> QED  BY <1>0, <3>1 DEF IdleInv
    <2>8. \A f \in Handler : working'[f] = working[f] \/ f \in judges
        BY <1>0, <2>1, <2>3 DEF Work
    <2>9. working'[h] = s
        BY <1>0, <2>1, <2>3 DEF Work
    <2> QED  BY <2>1, <2>3, <2>4, <2>6, <2>7, <2>8, <2>9
<1> QED  BY <1>0, <1>1, <1>2, <1>3 DEF Judge

-----------------------------------------------------------------------------
(* What each action preserves.                                             *)

\* The threads and the talk of the handlers an action does not reach.
LEMMA OthersKept ==
    ASSUME CleanInv, NEW f \in Handler,
           phase'[f] = phase[f], sock'[f] = sock[f], working'[f] = working[f],
           row'[f] = row[f], toJudge'[f] = toJudge[f], fromJudge'[f] = fromJudge[f],
           grading'[f] = grading[f], f \in judges' <=> f \in judges
    PROVE  ThreadInv(f)' /\ TalkInv(f)'
BY ThreadKept, TalkKept DEF CleanInv

\* judge, called for a request or by the thread of a lost judge.
LEMMA JudgeStep ==
    ASSUME CleanInv, BridgeInv', NEW s \in Submission, NEW id \in JudgeId, NEW p \in Priority,
           Judge(s, id, p), UNCHANGED <<row, fromJudge, grading>>, wanted' \subseteq wanted \cup {s},
           \A f \in Handler : \/ phase'[f] = phase[f]
                              \/ phase[f] = "offline" /\ phase'[f] = "gone" /\ working[f] = s
    PROVE  CleanInv'
<1>1. /\ UNCHANGED <<judges, problems, sock, rows>> /\ MapsAgree' /\ IdleInv'
      /\ \A f \in Handler : GivenWork(f, working[f])
      /\ \A f \in Handler : working'[f] = working[f] \/ f \in judges
      /\ Waiting \subseteq Waiting'
      /\ s \in Waiting' \/ \E f \in judges : working'[f] = s
    BY JudgeGivesWork
<1>2. BridgeInv /\ NoLostSubmission /\ \A f \in Handler : ThreadInv(f) /\ TalkInv(f)
    BY DEF CleanInv
<1>3. judges \subseteq Handler /\ wanted \subseteq Submission /\ NoSub \notin Submission
    BY <1>2, ConstantsAssumption DEF BridgeInv, BridgeTypeOK, ListInv, ListTypeOK
<1>4. \A f \in judges : phase'[f] = phase[f] /\ phase[f] # "gone"
    BY <1>2, <1>3 DEF ThreadInv
<1>5. ASSUME NEW f \in Handler PROVE ThreadInv(f)'
    BY <1>1, <1>2, <1>4, <1>5 DEF ThreadInv
<1>6. ASSUME NEW f \in Handler PROVE TalkInv(f)'
    <2>1. fromJudge[f] \in Seq(FromJudgePacket)
        BY <1>2 DEF BridgeInv, BridgeTypeOK
    <2>2. Talk(toJudge[f], fromJudge[f], working[f], grading[f], sock[f])
        BY <1>2 DEF TalkInv
    <2>3. Talk(toJudge'[f], fromJudge[f], working'[f], grading[f], sock[f])
        BY <1>1, <1>2, <2>1, <2>2, GivenTalk
    <2> QED  BY <1>1, <2>3 DEF TalkInv
<1>7. NoLostSubmission'
    <2> SUFFICES ASSUME NEW t \in wanted', t \notin Waiting'
                 PROVE  \E f \in Handler : working'[f] = t /\ phase'[f] # "gone"
        BY DEF NoLostSubmission
    <2>1. CASE t = s
        BY <1>1, <1>3, <1>4, <2>1
    <2>2. CASE t # s
        <3>1. t \in wanted /\ t \notin Waiting /\ t # NoSub
            BY <1>1, <1>3, <2>2
        <3>2. PICK f \in Handler : working[f] = t /\ phase[f] # "gone"
            BY <1>2, <3>1 DEF NoLostSubmission
        <3>3. working'[f] = t
            BY <1>1, <3>1, <3>2 DEF GivenWork
        <3> QED  BY <2>2, <3>2, <3>3
    <2> QED  BY <2>1, <2>2
<1> QED  BY <1>1, <1>5, <1>6, <1>7 DEF CleanInv, NoFailures

\* A handler that becomes free, by registering or by a final packet, looks at the queue.
LEMMA FreeStep ==
    ASSUME CleanInv, BridgeInv', NEW h \in Handler, phase'[h] \in {"registered", "up"},
           phase'[h] = "up" => row[h],
           NEW sm \in Map, NEW w \in Work, w = [working EXCEPT ![h] = NoSub],
           NEW js \in SUBSET Handler, js = judges \cup {h},
           Agree(sm, js, w), HandleFreeJudge(h, sm, js, w),
           UNCHANGED <<problems, sock, rows, row, grading>>,
           \A f \in Handler \ {h} : phase'[f] = phase[f] /\ fromJudge'[f] = fromJudge[f],
           fromJudge'[h] = <<>>, Talk(toJudge[h], <<>>, NoSub, grading[h], sock[h]),
           wanted' = wanted \ {working[h]}
    PROVE  CleanInv'
<1>1. BridgeInv /\ MapsAgree /\ IdleInv /\ NoLostSubmission
      /\ \A f \in Handler : ThreadInv(f) /\ TalkInv(f)
    BY DEF CleanInv
<1>2. ListInv /\ h \in js /\ working \in Work /\ w[h] = NoSub
      /\ NoSub \notin Submission /\ wanted \subseteq Submission
      /\ \A f \in Handler \ {h} : w[f] = working[f]
    BY <1>1, ConstantsAssumption DEF BridgeInv, BridgeTypeOK, ListInv, ListTypeOK, Work
<1>3. \A f \in js \ {h}, s \in Submission :
         w[f] = NoSub => ~CanJudge(f, s, nodeMap[s])
    BY <1>1, <1>2 DEF IdleInv
<1>4. sock[h] # "shut" /\ NoFailures /\ rows = Submission /\ problems' = problems
    BY <1>1 DEF ThreadInv, CleanInv
<1>5. /\ judges' = js /\ MapsAgree' /\ IdleInv'
      /\ \A f \in Handler : GivenWork(f, w[f])
      /\ \A f \in Handler \ {h} : working'[f] = w[f] /\ toJudge'[f] = toJudge[f]
      /\ \A s \in Submission : s \in Waiting => s \in Waiting' \/ working'[h] = s
    <2>1. ListInv /\ NoFailures
        BY <1>2, <1>4
    <2>2. /\ rows = Submission /\ sock[h] # "shut" /\ h \in js /\ w[h] = NoSub
          /\ Agree(sm, js, w) /\ problems' = problems
        BY <1>2, <1>4
    <2>3. Freed(h, js, w)
        BY <1>3, <2>1, <2>2, FreeJudge
    <2> QED  BY <2>3 DEF Freed
<1>6. ASSUME NEW f \in Handler, f # h PROVE ThreadInv(f)' /\ TalkInv(f)'
    <2>1. w[f] = working[f] /\ phase'[f] = phase[f] /\ (f \in judges' <=> f \in judges)
        BY <1>2, <1>5, <1>6
    <2>2. working'[f] = working[f] /\ toJudge'[f] = toJudge[f] /\ fromJudge'[f] = fromJudge[f]
        BY <1>5, <1>6, <2>1
    <2>3. ThreadInv(f)'
        BY <1>1, <2>1, <2>2, ThreadKept
    <2>4. TalkInv(f)'
        BY <1>1, <2>2, TalkKept
    <2> QED  BY <2>3, <2>4
<1>7. ThreadInv(h)'
    BY <1>1, <1>5 DEF ThreadInv
<1>8. TalkInv(h)'
    <2>1. <<>> \in Seq(FromJudgePacket) /\ Talk(toJudge[h], <<>>, w[h], grading[h], sock[h])
        BY <1>2
    <2>2. Talk(toJudge'[h], <<>>, working'[h], grading[h], sock[h])
        BY <1>1, <1>5, <2>1, GivenTalk
    <2> QED  BY <2>2 DEF TalkInv
<1>9. NoLostSubmission'
    <2> SUFFICES ASSUME NEW t \in wanted', t \notin Waiting'
                 PROVE  \E f \in Handler : working'[f] = t /\ phase'[f] # "gone"
        BY DEF NoLostSubmission
    <2>1. t \in wanted /\ t # working[h] /\ t # NoSub /\ t \in Submission
        BY <1>2
    <2>2. CASE t \in Waiting
        BY <1>5, <2>1, <2>2
    <2>3. CASE t \notin Waiting
        <3>1. PICK f \in Handler : working[f] = t /\ phase[f] # "gone"
            BY <1>1, <2>1, <2>3 DEF NoLostSubmission
        <3>2. f # h /\ w[f] = t /\ phase'[f] # "gone"
            BY <1>2, <2>1, <3>1
        <3>3. working'[f] = t
            BY <1>5, <2>1, <3>2 DEF GivenWork
        <3> QED  BY <3>2, <3>3
    <2> QED  BY <2>2, <2>3
<1> QED  BY <1>4, <1>5, <1>6, <1>7, <1>8, <1>9 DEF CleanInv, NoFailures

\* An action on one connection or thread that leaves the list and its judges' work alone.
LEMMA LocalStep ==
    ASSUME CleanInv, BridgeInv', NEW h \in Handler,
           UNCHANGED <<rows, listVars, working, wanted>>,
           \A f \in judges : problems'[f] = problems[f],
           \A f \in Handler \ {h} :
              /\ phase'[f] = phase[f] /\ sock'[f] = sock[f] /\ row'[f] = row[f]
              /\ toJudge'[f] = toJudge[f] /\ fromJudge'[f] = fromJudge[f]
              /\ grading'[f] = grading[f],
           phase'[h] = "gone" => phase[h] = "gone" \/ working[h] = NoSub,
           ThreadInv(h)', TalkInv(h)'
    PROVE  CleanInv'
<1>1. UNCHANGED <<nodeMap, submissionMap, judges, working>>
    BY DEF listVars
<1>2. MapsAgree' /\ IdleInv'
    BY <1>1, MapsKept, IdleKept DEF CleanInv
<1>3. NoLostSubmission'
    <2>1. wanted \subseteq Submission /\ NoSub \notin Submission
        BY ConstantsAssumption DEF CleanInv, BridgeInv, BridgeTypeOK
    <2> QED  BY <1>1, <2>1, LostKept DEF CleanInv
<1>4. ASSUME NEW f \in Handler PROVE ThreadInv(f)' /\ TalkInv(f)'
    <2>1. CASE f = h
        BY <2>1
    <2>2. CASE f # h
        BY <1>1, <2>2, OthersKept
    <2> QED  BY <2>1, <2>2
<1> QED  BY <1>2, <1>3, <1>4 DEF CleanInv, NoFailures

\* on_handshake
LEMMA RegisterStep ==
    ASSUME CleanInv, BridgeInv', NEW h \in Handler, Register(h)
    PROVE  CleanInv'
<1>1. BridgeInv /\ MapsAgree /\ ThreadInv(h) /\ TalkInv(h)
    BY DEF CleanInv
<1>2. /\ phase[h] = "named" /\ phase' = [phase EXCEPT ![h] = "registered"]
      /\ HandleFreeJudge(h, submissionMap, judges \cup {h}, working)
      /\ UNCHANGED <<problems, sock, rows, row, fromJudge, grading, wanted>>
    BY DEF Register, GoTo, RegisterJudge, listExternals, judgeVars, historyVars
<1>3. working[h] = NoSub
    BY <1>1, <1>2 DEF ThreadInv
<1>4. /\ working \in Work /\ submissionMap \in Map /\ judges \cup {h} \in SUBSET Handler
      /\ toJudge[h] \in Seq(ToJudgePacket) /\ fromJudge[h] \in Seq(FromJudgePacket)
      /\ working = [working EXCEPT ![h] = NoSub]
      /\ wanted \subseteq Submission /\ NoSub \notin Submission
    BY <1>1, <1>3, ConstantsAssumption DEF BridgeInv, BridgeTypeOK, ListInv, ListTypeOK, Work
<1>5. fromJudge[h] = <<>> /\ Talk(toJudge[h], <<>>, NoSub, grading[h], sock[h])
    <2>1. Talk(toJudge[h], fromJudge[h], NoSub, grading[h], sock[h])
        BY <1>1, <1>3 DEF TalkInv
    <2>2. fromJudge[h] = <<>>
        BY <1>4, <2>1, IdleTalk
    <2> QED  BY <2>1, <2>2
<1>6. Agree(submissionMap, judges \cup {h}, working)
    BY <1>1, <1>3 DEF MapsAgree, Agree
<1>7. wanted' = wanted \ {working[h]}
    BY <1>2, <1>3, <1>4
<1>8. phase'[h] = "registered" /\ \A f \in Handler \ {h} : phase'[f] = phase[f]
    BY <1>1, <1>2 DEF BridgeInv, BridgeTypeOK
<1> DEFINE js == judges \cup {h}
<1>9. /\ js \in SUBSET Handler /\ js = judges \cup {h}
      /\ Agree(submissionMap, js, working) /\ HandleFreeJudge(h, submissionMap, js, working)
    BY <1>2, <1>4, <1>6
<1> HIDE DEF js
<1>10. fromJudge'[h] = <<>> /\ \A f \in Handler \ {h} : fromJudge'[f] = fromJudge[f]
    BY <1>2, <1>5
<1> QED  BY <1>2, <1>4, <1>5, <1>7, <1>8, <1>9, <1>10, FreeStep

\* on_grading_end and the other final packets
LEMMA FinalStep ==
    ASSUME CleanInv, BridgeInv', NEW h \in Handler, HandleFinal(h)
    PROVE  CleanInv'
<1> DEFINE s == Head(fromJudge[h]).id
           sm == [submissionMap EXCEPT ![s] = NoJudge]
           w == [working EXCEPT ![h] = NoSub]
<1>1. BridgeInv /\ MapsAgree /\ ThreadInv(h) /\ TalkInv(h)
    BY DEF CleanInv
<1>2. /\ working \in Work /\ submissionMap \in Map /\ judges \in SUBSET Handler
      /\ fromJudge \in [Handler -> Seq(FromJudgePacket)]
    BY <1>1 DEF BridgeInv, BridgeTypeOK, ListInv, ListTypeOK
<1>3. /\ phase[h] = "up" /\ fromJudge[h] # <<>> /\ Head(fromJudge[h]).name \in FinalPackets
      /\ fromJudge' = [fromJudge EXCEPT ![h] = Tail(@)]
      /\ OnJudgeFree(h, s) /\ wanted' = wanted \ {s}
      /\ UNCHANGED <<phase, row, grading>>
    BY DEF HandleFinal, Incoming
<1>4. /\ Tail(fromJudge[h]) = <<>> /\ s = working[h] /\ working[h] # NoSub
      /\ Talk(toJudge[h], <<>>, NoSub, grading[h], sock[h])
    <2>1. fromJudge[h] \in Seq(FromJudgePacket)
        BY <1>2
    <2>2. Talk(toJudge[h], fromJudge[h], working[h], grading[h], sock[h])
        BY <1>1 DEF TalkInv
    <2> QED  BY <1>3, <2>1, <2>2, EndTalk
<1>5. h \in judges /\ row[h] /\ working[h] \in Submission
    BY <1>1, <1>2, <1>3, <1>4 DEF ThreadInv, Work
<1>6. submissionMap[s] = h /\ h # NoJudge
    BY <1>1, <1>4, <1>5, ConstantsAssumption DEF MapsAgree
<1>7. HandleFreeJudge(h, sm, judges, w) /\ UNCHANGED <<problems, sock, rows>>
    BY <1>3, <1>6 DEF OnJudgeFree, listExternals
<1>8. sm \in Map /\ w \in Work /\ w = [working EXCEPT ![h] = NoSub] /\ judges = judges \cup {h}
    BY <1>2, <1>5 DEF Map, Work
<1>9. Agree(sm, judges, w)
    <2>1. ASSUME NEW t \in Submission, sm[t] # NoJudge
          PROVE  w[sm[t]] = t /\ sm[t] \in judges /\ t \notin Waiting
        <3>1. t # s /\ sm[t] = submissionMap[t]
            BY <1>2, <1>4, <1>5, <2>1 DEF Map
        <3>2. working[sm[t]] = t /\ sm[t] \in judges /\ t \notin Waiting
            BY <1>1, <2>1, <3>1 DEF MapsAgree
        <3> QED  BY <1>2, <1>4, <3>1, <3>2 DEF Work
    <2>2. ASSUME NEW f \in judges, w[f] # NoSub
          PROVE  sm[w[f]] = f
        <3>1. f # h /\ w[f] = working[f] /\ working[f] \in Submission
            BY <1>2, <2>2 DEF Work
        <3>2. submissionMap[working[f]] = f
            BY <1>1, <2>2, <3>1 DEF MapsAgree
        <3>3. working[f] # s
            BY <1>6, <3>1, <3>2
        <3> QED  BY <1>2, <3>1, <3>2, <3>3 DEF Map
    <2> QED  BY <2>1, <2>2 DEF Agree
<1>10. fromJudge'[h] = <<>> /\ \A f \in Handler \ {h} : fromJudge'[f] = fromJudge[f]
    BY <1>2, <1>3, <1>4
<1>11. /\ phase'[h] = "up" /\ wanted' = wanted \ {working[h]}
       /\ \A f \in Handler \ {h} : phase'[f] = phase[f]
    BY <1>3, <1>4
<1>12. UNCHANGED <<problems, sock, rows, row, grading>>
    BY <1>3, <1>7
<1> HIDE DEF s, sm, w
<1> QED  BY <1>2, <1>4, <1>5, <1>7, <1>8, <1>9, <1>10, <1>11, <1>12, FreeStep

\* Reading a packet that is not a final one.
LEMMA ReadStep ==
    ASSUME CleanInv, BridgeInv', NEW h \in Handler, NEW names, Incoming(h, names),
           names \cap FinalPackets = {},
           UNCHANGED <<rows, listVars, working, wanted, problems, phase, sock, row, toJudge, grading>>
    PROVE  CleanInv'
<1>1. BridgeInv /\ ThreadInv(h) /\ TalkInv(h)
    BY DEF CleanInv
<1>2. fromJudge \in [Handler -> Seq(FromJudgePacket)] /\ fromJudge[h] \in Seq(FromJudgePacket)
    BY <1>1 DEF BridgeInv, BridgeTypeOK
<1>3. /\ fromJudge[h] # <<>> /\ Head(fromJudge[h]).name \notin FinalPackets
      /\ fromJudge' = [fromJudge EXCEPT ![h] = Tail(@)]
    BY DEF Incoming
<1>4. Talk(toJudge[h], Tail(fromJudge[h]), working[h], grading[h], sock[h])
    BY <1>1, <1>2, <1>3, ReadTalk DEF TalkInv
<1>5. fromJudge'[h] = Tail(fromJudge[h]) /\ \A f \in Handler \ {h} : fromJudge'[f] = fromJudge[f]
    BY <1>2, <1>3
<1>6. TalkInv(h)'
    BY <1>4, <1>5 DEF TalkInv
<1>7. ThreadInv(h)'
    BY <1>1 DEF ThreadInv, listVars
<1> QED  BY <1>5, <1>6, <1>7, LocalStep

\* What a handler hears of its judge: the submission it works on, and nothing of its problems.
LEMMA Heard ==
    ASSUME CleanInv, NEW h \in Handler, fromJudge[h] # <<>>,
           Head(fromJudge[h]).name \notin FinalPackets
    PROVE  Head(fromJudge[h]).id = working[h] /\ Head(fromJudge[h]).name # "supported-problems"
<1>1. fromJudge[h] \in Seq(FromJudgePacket)
    BY DEF CleanInv, BridgeInv, BridgeTypeOK
<1>2. Talk(toJudge[h], fromJudge[h], working[h], grading[h], sock[h])
    BY DEF CleanInv, TalkInv
<1> QED  BY <1>1, <1>2, ReadTalk

LEMMA NotFinal ==
    /\ {"submission-acknowledged"} \cap FinalPackets = {}
    /\ {"grading-begin", "test-case-status"} \cap FinalPackets = {}
    /\ "supported-problems" \notin FinalPackets
BY BridgeAssumption DEF FinalPackets

\* The steps of a handler's thread.
LEMMA HandlerThreadClean ==
    ASSUME CleanInv, BridgeInv', NEW h \in Handler, HandlerThread(h)
    PROVE  CleanInv'
<1>1. BridgeInv /\ ThreadInv(h) /\ TalkInv(h) /\ MapsAgree /\ IdleInv /\ NoLostSubmission
    BY DEF CleanInv
<1>2. /\ phase \in [Handler -> Phases] /\ row \in [Handler -> BOOLEAN]
      /\ fromJudge \in [Handler -> Seq(FromJudgePacket)]
      /\ working \in Work /\ submissionMap \in Map /\ judges \in SUBSET Handler
    BY <1>1 DEF BridgeInv, BridgeTypeOK, ListInv, ListTypeOK
<1>3. CASE Register(h)
    BY <1>3, RegisterStep
<1>4. CASE HandshakeFails(h)
    <2>1. /\ sock[h] # "open" /\ phase[h] = "named" /\ phase' = [phase EXCEPT ![h] = "dropped"]
          /\ UNCHANGED <<rows, listVars, handlerVars, row, judgeVars, historyVars>>
        BY <1>4 DEF HandshakeFails, GoTo
    <2>2. ThreadInv(h)'
        BY <1>1, <1>2, <2>1 DEF ThreadInv, handlerVars, listVars
    <2>3. TalkInv(h)'
        BY <1>1, <2>1, TalkKept DEF handlerVars, judgeVars
    <2>4. phase'[h] = "dropped" /\ \A f \in Handler \ {h} : phase'[f] = phase[f]
        BY <1>2, <2>1
    <2> QED  BY <2>1, <2>2, <2>3, <2>4, LocalStep DEF handlerVars, judgeVars, historyVars
<1>5. CASE Connected(h)
    <2>1. /\ phase[h] = "registered" /\ phase' = [phase EXCEPT ![h] = "up"]
          /\ row' = [row EXCEPT ![h] = TRUE]
          /\ UNCHANGED <<rows, listVars, handlerVars, judgeVars, historyVars>>
        BY <1>5 DEF Connected, GoTo, CleanInv, NoFailures
    <2>2. /\ phase'[h] = "up" /\ \A f \in Handler \ {h} : phase'[f] = phase[f]
          /\ row'[h] /\ \A f \in Handler \ {h} : row'[f] = row[f]
        BY <1>2, <2>1
    <2>3. ThreadInv(h)'
        BY <1>1, <2>1, <2>2 DEF ThreadInv, handlerVars, listVars
    <2>4. TalkInv(h)'
        BY <1>1, <2>1, TalkKept DEF handlerVars, judgeVars
    <2> QED  BY <2>1, <2>2, <2>3, <2>4, LocalStep DEF handlerVars, judgeVars, historyVars
<1>6. CASE HandleAcknowledged(h)
    <2>1. Incoming(h, {"submission-acknowledged"})
        BY <1>6 DEF HandleAcknowledged
    <2>2. fromJudge[h] # <<>> /\ Head(fromJudge[h]).name \notin FinalPackets
        BY <2>1, NotFinal DEF Incoming
    <2>3. Head(fromJudge[h]).id = working[h]
        BY <2>2, Heard
    <2> QED  BY <1>6, <2>1, <2>3, NotFinal, ReadStep DEF HandleAcknowledged, historyVars
<1>7. CASE HandleProgress(h)
    BY <1>7, NotFinal, ReadStep DEF HandleProgress, handlerVars, historyVars
<1>8. CASE HandleFinal(h)
    BY <1>8, FinalStep
<1>9. CASE HandleSupportedProblems(h)
    <2>1. fromJudge[h] # <<>> /\ Head(fromJudge[h]).name = "supported-problems"
        BY <1>9 DEF HandleSupportedProblems, Incoming
    <2> QED  BY <2>1, NotFinal, Heard
<1>10. CASE HandleUpdateProblems(h)
    BY <1>1, <1>10 DEF HandleUpdateProblems, GoTo, ThreadInv
<1>11. CASE EndOfStream(h)
    <2>1. /\ sock[h] # "open" /\ phase[h] = "up" /\ phase' = [phase EXCEPT ![h] = "dropped"]
          /\ fromJudge' = [fromJudge EXCEPT ![h] = <<>>]
          /\ UNCHANGED <<rows, listVars, handlerVars, row, grading, stage, historyVars>>
        BY <1>11 DEF EndOfStream, GoTo
    <2>2. /\ phase'[h] = "dropped" /\ \A f \in Handler \ {h} : phase'[f] = phase[f]
          /\ fromJudge'[h] = <<>> /\ \A f \in Handler \ {h} : fromJudge'[f] = fromJudge[f]
        BY <1>2, <2>1
    <2>3. ThreadInv(h)'
        BY <1>1, <2>1, <2>2 DEF ThreadInv, handlerVars, listVars
    <2>4. TalkInv(h)'
        <3>1. Talk(toJudge[h], <<>>, working[h], grading[h], sock[h])
            BY <1>1, <2>1, LostTalk DEF TalkInv
        <3> QED  BY <2>1, <2>2, <3>1 DEF TalkInv, handlerVars
    <2> QED  BY <2>1, <2>2, <2>3, <2>4, LocalStep DEF handlerVars, historyVars
<1>12. CASE Unregister(h)
    <2>1. /\ phase[h] = "dropped" /\ phase' = [phase EXCEPT ![h] = "removed"]
          /\ submissionMap' = IF working[h] = NoSub THEN submissionMap
                              ELSE [submissionMap EXCEPT ![working[h]] = NoJudge]
          /\ judges' = judges \ {h}
          /\ UNCHANGED <<nodeMap, working, problems, sock, toJudge, rows, row, fromJudge, grading,
                         wanted>>
        BY <1>12 DEF Unregister, GoTo, RemoveJudge, handlerVars, judgeVars, historyVars
    <2>2. phase'[h] = "removed" /\ \A f \in Handler \ {h} : phase'[f] = phase[f]
        BY <1>2, <2>1
    <2>3. MapsAgree'
        <3>1. Waiting' = Waiting
            BY <2>1 DEF Waiting
        <3>2. ASSUME NEW t \in Submission, submissionMap'[t] # NoJudge
              PROVE  /\ working[submissionMap'[t]] = t /\ submissionMap'[t] \in judges'
                     /\ t \notin Waiting
            <4>1. submissionMap'[t] = submissionMap[t] /\ (working[h] # NoSub => t # working[h])
                BY <1>2, <2>1, <3>2 DEF Map
            <4>2. /\ working[submissionMap[t]] = t /\ submissionMap[t] \in judges
                  /\ t \notin Waiting /\ t # NoSub
                BY <1>1, <3>2, <4>1, ConstantsAssumption DEF MapsAgree
            <4> QED  BY <2>1, <4>1, <4>2
        <3>3. ASSUME NEW f \in judges', working[f] # NoSub
              PROVE  submissionMap'[working[f]] = f
            <4>1. f \in judges /\ f # h /\ working[f] \in Submission
                BY <1>2, <2>1, <3>3 DEF Work
            <4>2. submissionMap[working[f]] = f
                BY <1>1, <3>3, <4>1 DEF MapsAgree
            <4>3. working[h] # NoSub => submissionMap[working[h]] = h
                BY <1>1, <2>1 DEF MapsAgree, ThreadInv
            <4> QED  BY <1>2, <2>1, <4>1, <4>2, <4>3 DEF Map
        <3> QED  BY <2>1, <3>1, <3>2, <3>3 DEF MapsAgree
    <2>4. IdleInv'
        BY <1>1, <2>1 DEF IdleInv, CanJudge
    <2>5. NoLostSubmission'
        <3>1. wanted \subseteq Submission /\ NoSub \notin Submission
            BY <1>1, ConstantsAssumption DEF BridgeInv, BridgeTypeOK
        <3> QED  BY <1>1, <2>1, <2>2, <3>1, LostKept
    <2>6. ASSUME NEW f \in Handler PROVE ThreadInv(f)' /\ TalkInv(f)'
        <3>1. CASE f # h
            BY <2>1, <2>2, <3>1, OthersKept
        <3>2. CASE f = h
            <4>1. ThreadInv(h)'
                BY <1>1, <2>1, <2>2 DEF ThreadInv
            <4>2. TalkInv(h)'
                BY <1>1, <2>1, TalkKept
            <4> QED  BY <3>2, <4>1, <4>2
        <3> QED  BY <3>1, <3>2
    <2> QED  BY <2>1, <2>3, <2>4, <2>5, <2>6 DEF CleanInv, NoFailures
<1>13. CASE Disconnected(h)
    <2>1. /\ phase[h] = "removed"
          /\ \/ phase' = [phase EXCEPT ![h] = "offline"]
             \/ ~row[h] /\ phase' = [phase EXCEPT ![h] = "gone"]
          /\ UNCHANGED <<rows, listVars, handlerVars, row, judgeVars, historyVars>>
        BY <1>13 DEF Disconnected, GoTo, CleanInv, NoFailures
    <2>2. /\ phase'[h] = "offline" \/ (phase'[h] = "gone" /\ ~row[h])
          /\ \A f \in Handler \ {h} : phase'[f] = phase[f]
        BY <1>2, <2>1
    <2>3. ThreadInv(h)'
        BY <1>1, <2>1, <2>2 DEF ThreadInv, handlerVars, listVars
    <2>4. TalkInv(h)'
        BY <1>1, <2>1, TalkKept DEF handlerVars, judgeVars
    <2>5. phase'[h] = "gone" => working[h] = NoSub
        BY <1>1, <2>1, <2>2 DEF ThreadInv
    <2> QED  BY <2>1, <2>2, <2>3, <2>4, <2>5, LocalStep DEF handlerVars, judgeVars, historyVars
<1>14. CASE Requeue(h)
    <2>1. /\ phase[h] = "offline" /\ phase' = [phase EXCEPT ![h] = "gone"]
          /\ UNCHANGED <<row, fromJudge, grading, wanted>>
        BY <1>14 DEF Requeue, GoTo, judgeVars, historyVars
    <2>2. phase'[h] = "gone" /\ \A f \in Handler \ {h} : phase'[f] = phase[f]
        BY <1>2, <2>1
    <2>3. CASE working[h] = NoSub
        <3>1. UNCHANGED <<listVars, handlerVars, rows>>
            BY <1>14, <2>3 DEF Requeue
        <3>2. ThreadInv(h)'
            BY <1>1, <2>1, <2>2, <3>1 DEF ThreadInv, handlerVars, listVars
        <3>3. TalkInv(h)'
            BY <1>1, <2>1, <3>1, TalkKept DEF handlerVars
        <3> QED  BY <2>1, <2>2, <2>3, <3>1, <3>2, <3>3, LocalStep DEF handlerVars
    <2>4. CASE working[h] # NoSub
        <3>1. working[h] \in Submission
            BY <1>2, <2>4 DEF Work
        <3>2. AnyJudge \in JudgeId /\ 0 \in Priority
            BY ConstantsAssumption DEF JudgeId, Priority
        <3>3. Judge(working[h], AnyJudge, 0)
            BY <1>14, <2>4 DEF Requeue
        <3>4. \A f \in Handler : \/ phase'[f] = phase[f]
                                 \/ phase[f] = "offline" /\ phase'[f] = "gone" /\ working[f] = working[h]
            BY <2>1, <2>2
        <3>5. wanted' \subseteq wanted \cup {working[h]}
            BY <2>1
        <3> QED  BY <2>1, <3>1, <3>2, <3>3, <3>4, <3>5, JudgeStep
    <2> QED  BY <2>3, <2>4
<1> QED  BY <1>3, <1>4, <1>5, <1>6, <1>7, <1>8, <1>9, <1>10, <1>11, <1>12, <1>13, <1>14
         DEF HandlerThread

\* A judge reads or sends, or its connection breaks: only the talk changes.
LEMMA TalkStep ==
    ASSUME CleanInv, BridgeInv', NEW h \in Handler,
           UNCHANGED <<rows, listVars, working, wanted, problems, phase, row>>,
           sock'[h] = sock[h] \/ sock'[h] = "broken",
           \A f \in Handler \ {h} : /\ sock'[f] = sock[f] /\ toJudge'[f] = toJudge[f]
                                    /\ fromJudge'[f] = fromJudge[f] /\ grading'[f] = grading[f],
           Talk(toJudge'[h], fromJudge'[h], working[h], grading'[h], sock'[h])
    PROVE  CleanInv'
<1>1. ThreadInv(h)
    BY DEF CleanInv
<1>2. ThreadInv(h)'
    BY <1>1 DEF ThreadInv, listVars
<1>3. TalkInv(h)'
    BY DEF TalkInv
<1> QED  BY <1>2, <1>3, LocalStep

\* The connection breaks.
LEMMA BreakStep ==
    ASSUME CleanInv, BridgeInv', NEW h \in Handler, Break(h),
           UNCHANGED <<rows, listVars, working, problems, phase, row, fromJudge, wanted>>
    PROVE  CleanInv'
<1>1. /\ sock \in [Handler -> {"open", "broken", "shut"}]
      /\ toJudge \in [Handler -> Seq(ToJudgePacket)]
      /\ grading \in [Handler -> Submission \cup {NoSub}]
    BY DEF CleanInv, BridgeInv, BridgeTypeOK, ListInv, ListTypeOK
<1>2. /\ sock'[h] = "broken" /\ toJudge'[h] = <<>> /\ grading'[h] = NoSub
      /\ \A f \in Handler \ {h} :
            sock'[f] = sock[f] /\ toJudge'[f] = toJudge[f] /\ grading'[f] = grading[f]
    BY <1>1 DEF Break
<1>3. Talk(<<>>, fromJudge[h], working[h], NoSub, "broken")
    <2>1. Talk(toJudge[h], fromJudge[h], working[h], grading[h], sock[h])
        BY DEF CleanInv, TalkInv
    <2> QED  BY <2>1, LostTalk
<1>4. Talk(toJudge'[h], fromJudge'[h], working[h], grading'[h], sock'[h])
    BY <1>2, <1>3
<1> QED  BY <1>2, <1>4, TalkStep

\* The steps of a judge at the other end.
LEMMA ExternalJudgeClean ==
    ASSUME CleanInv, BridgeInv', NEW h \in Handler, ExternalJudge(h)
    PROVE  CleanInv'
<1>1. /\ toJudge \in [Handler -> Seq(ToJudgePacket)] /\ toJudge[h] \in Seq(ToJudgePacket)
      /\ fromJudge \in [Handler -> Seq(FromJudgePacket)] /\ fromJudge[h] \in Seq(FromJudgePacket)
      /\ grading \in [Handler -> MaybeSub] /\ stage \in [Handler -> Nat]
    BY DEF CleanInv, BridgeInv, BridgeTypeOK, ListInv, ListTypeOK, MaybeSub
<1>2. Talk(toJudge[h], fromJudge[h], working[h], grading[h], sock[h])
    BY DEF CleanInv, TalkInv
<1>3. CASE JudgeStarts(h)
    <2> DEFINE packet == Reply("submission-acknowledged", Head(toJudge[h]).id, {}, 0)
    <2>1. /\ grading[h] = NoSub /\ toJudge[h] # <<>> /\ Head(toJudge[h]).name = "submission-request"
          /\ toJudge' = [toJudge EXCEPT ![h] = Tail(@)]
          /\ grading' = [grading EXCEPT ![h] = Head(toJudge[h]).id]
          /\ fromJudge' = [fromJudge EXCEPT ![h] = Append(@, packet)]
          /\ UNCHANGED <<rows, listVars, working, wanted, problems, phase, row, sock>>
        BY <1>3 DEF JudgeStarts, Received, Send, historyVars
    <2>2. packet \in FromJudgePacket /\ packet.name = "submission-acknowledged"
          /\ packet.id = Head(toJudge[h]).id
        <3>1. Head(toJudge[h]) \in ToJudgePacket
            BY <1>1, <2>1, HeadTailProperties
        <3>2. Head(toJudge[h]).id \in Submission
            BY <2>1, <3>1 DEF ToJudgePacket, Packet
        <3>3. packet \in FromJudgePacket
            BY <3>2, ReplyType
        <3> QED  BY <3>3 DEF Reply
    <2> HIDE DEF packet
    <2>3. /\ Head(toJudge[h]).id = working[h]
          /\ Talk(Tail(toJudge[h]), Append(fromJudge[h], packet), working[h], working[h], sock[h])
        BY <1>1, <1>2, <2>1, <2>2, StartTalk
    <2>4. /\ toJudge'[h] = Tail(toJudge[h]) /\ fromJudge'[h] = Append(fromJudge[h], packet)
          /\ grading'[h] = working[h] /\ sock'[h] = sock[h]
          /\ \A f \in Handler \ {h} : /\ sock'[f] = sock[f] /\ toJudge'[f] = toJudge[f]
                                      /\ fromJudge'[f] = fromJudge[f] /\ grading'[f] = grading[f]
        BY <1>1, <2>1, <2>3
    <2>5. Talk(toJudge'[h], fromJudge'[h], working[h], grading'[h], sock'[h])
        BY <2>3, <2>4
    <2> QED  BY <2>1, <2>4, <2>5, TalkStep
<1>4. CASE JudgeProgresses(h)
    <2> DEFINE packet == Reply(Script[stage[h] + 1], grading[h], {}, stage[h] + 1)
    <2>1. /\ grading[h] # NoSub /\ stage[h] < Len(Script)
          /\ fromJudge' = [fromJudge EXCEPT ![h] = Append(@, packet)]
          /\ UNCHANGED <<rows, listVars, working, wanted, problems, phase, row, sock, toJudge, grading>>
        BY <1>4 DEF JudgeProgresses, Send, handlerVars, historyVars
    <2>2. Script[stage[h] + 1] \in {"grading-begin", "test-case-status"} /\ stage[h] + 1 \in Nat
        <3>1. Script \in Seq({"grading-begin", "test-case-status"}) /\ Len(Script) \in Nat
            BY BridgeAssumption, LenProperties
        <3>2. stage[h] + 1 \in 1 .. Len(Script)
            BY <1>1, <2>1, <3>1
        <3>3. Script[stage[h] + 1] \in {"grading-begin", "test-case-status"}
            BY <3>1, <3>2, ElementOfSeq
        <3> QED  BY <1>1, <3>3
    <2>3. /\ packet \in FromJudgePacket /\ packet.id = grading[h]
          /\ packet.name \notin FinalPackets /\ packet.name # "supported-problems"
        <3>1. packet \in FromJudgePacket
            BY <1>1, <2>1, <2>2, ReplyType DEF MaybeSub
        <3>2. packet.id = grading[h] /\ packet.name = Script[stage[h] + 1]
            BY DEF Reply
        <3> QED  BY <2>2, <3>1, <3>2, NotFinal
    <2> HIDE DEF packet
    <2>4. Talk(toJudge[h], Append(fromJudge[h], packet), working[h], grading[h], sock[h])
        BY <1>1, <1>2, <2>1, <2>3, ProgressTalk
    <2>5. /\ fromJudge'[h] = Append(fromJudge[h], packet)
          /\ \A f \in Handler \ {h} : fromJudge'[f] = fromJudge[f]
        BY <1>1, <2>1
    <2>6. Talk(toJudge'[h], fromJudge'[h], working[h], grading'[h], sock'[h])
        BY <2>1, <2>4, <2>5
    <2> QED  BY <2>1, <2>5, <2>6, TalkStep
<1>5. CASE JudgeFinishes(h)
    <2>1. PICK v \in Verdicts : Send(h, Reply(v, grading[h], {}, 0))
        BY <1>5 DEF JudgeFinishes
    <2> DEFINE packet == Reply(v, grading[h], {}, 0)
    <2>2. /\ grading[h] # NoSub
          /\ fromJudge' = [fromJudge EXCEPT ![h] = Append(@, packet)]
          /\ grading' = [grading EXCEPT ![h] = NoSub]
          /\ UNCHANGED <<rows, listVars, working, wanted, problems, phase, row, sock, toJudge>>
        BY <1>5, <2>1 DEF JudgeFinishes, Send, handlerVars, historyVars
    <2>3. packet \in FromJudgePacket /\ packet.id = grading[h] /\ packet.name \in FinalPackets
        <3>1. packet \in FromJudgePacket
            BY <1>1, <2>2, ReplyType DEF MaybeSub
        <3> QED  BY <3>1 DEF Reply, FinalPackets
    <2> HIDE DEF packet
    <2>4. Talk(toJudge[h], Append(fromJudge[h], packet), working[h], NoSub, sock[h])
        BY <1>1, <1>2, <2>2, <2>3, FinishTalk
    <2>5. /\ fromJudge'[h] = Append(fromJudge[h], packet) /\ grading'[h] = NoSub
          /\ \A f \in Handler \ {h} : fromJudge'[f] = fromJudge[f] /\ grading'[f] = grading[f]
        BY <1>1, <2>2
    <2>6. Talk(toJudge'[h], fromJudge'[h], working[h], grading'[h], sock'[h])
        BY <2>2, <2>4, <2>5
    <2> QED  BY <2>2, <2>5, <2>6, TalkStep
<1>6. CASE JudgeTerminates(h)
    <2> DEFINE packet == Reply("submission-terminated", grading[h], {}, 0)
    <2>1. /\ toJudge[h] # <<>> /\ Head(toJudge[h]).name = "terminate-submission"
          /\ toJudge' = [toJudge EXCEPT ![h] = Tail(@)]
          /\ IF grading[h] = NoSub THEN UNCHANGED fromJudge
             ELSE fromJudge' = [fromJudge EXCEPT ![h] = Append(@, packet)]
          /\ grading' = [grading EXCEPT ![h] = NoSub]
          /\ UNCHANGED <<rows, listVars, working, wanted, problems, phase, row, sock>>
        BY <1>6 DEF JudgeTerminates, Received, Send, historyVars
    <2>2. grading[h] # NoSub =>
             packet \in FromJudgePacket /\ packet.id = grading[h] /\ packet.name \in FinalPackets
        <3>1. grading[h] # NoSub => packet \in FromJudgePacket
            BY <1>1, ReplyType DEF MaybeSub
        <3> QED  BY <3>1 DEF Reply, FinalPackets
    <2> HIDE DEF packet
    <2>3. Talk(Tail(toJudge[h]), fromJudge[h], working[h], grading[h], sock[h])
        BY <1>1, <1>2, <2>1, OtherTalk
    <2>4. Talk(Tail(toJudge[h]), fromJudge'[h], working[h], NoSub, sock[h])
        <3>1. CASE grading[h] = NoSub
            BY <2>1, <2>3, <3>1
        <3>2. CASE grading[h] # NoSub
            <4>1. fromJudge'[h] = Append(fromJudge[h], packet)
                BY <1>1, <2>1, <3>2
            <4> QED  BY <1>1, <2>2, <2>3, <3>2, <4>1, FinishTalk
        <3> QED  BY <3>1, <3>2
    <2>5. /\ toJudge'[h] = Tail(toJudge[h]) /\ grading'[h] = NoSub
          /\ \A f \in Handler \ {h} : /\ toJudge'[f] = toJudge[f] /\ fromJudge'[f] = fromJudge[f]
                                      /\ grading'[f] = grading[f]
        BY <1>1, <2>1
    <2>6. Talk(toJudge'[h], fromJudge'[h], working[h], grading'[h], sock'[h])
        BY <2>1, <2>4, <2>5
    <2> QED  BY <2>1, <2>5, <2>6, TalkStep
<1>7. CASE JudgeLeaves(h)
    BY <1>7, BreakStep DEF JudgeLeaves, historyVars
<1> QED  BY <1>3, <1>4, <1>5, <1>6, <1>7 DEF ExternalJudge

\* terminate-submission: to the judge that has it, or out of the queue.
LEMMA TerminationClean ==
    ASSUME CleanInv, BridgeInv', NEW s \in Submission, TerminationRequest(s)
    PROVE  CleanInv'
<1>1. /\ BridgeInv /\ MapsAgree /\ IdleInv /\ NoLostSubmission
      /\ \A f \in Handler : ThreadInv(f) /\ TalkInv(f)
    BY DEF CleanInv
<1>2. /\ toJudge \in [Handler -> Seq(ToJudgePacket)] /\ submissionMap \in Map
      /\ nodeMap \in [Submission -> JudgeId \cup {NoNode}]
    BY <1>1 DEF BridgeInv, ListInv, ListTypeOK
<1>3. /\ UNCHANGED <<submissionMap, judges, working, problems, sock, rows, phase, row, fromJudge,
                     grading>>
      /\ wanted' = IF submissionMap[s] = NoJudge /\ nodeMap[s] # NoNode THEN wanted \ {s} ELSE wanted
      /\ Abort(s)
    BY DEF TerminationRequest, Abort, listExternals, judgeVars
<1>4. CASE /\ submissionMap[s] # NoJudge
           /\ toJudge' = Deliver(submissionMap[s], Packet("terminate-submission", s))
           /\ UNCHANGED <<queue, nodeMap>>
    <2>1. PICK h \in Handler : h = submissionMap[s] /\ working[h] = s
        BY <1>1, <1>2, <1>4 DEF Map, MapsAgree
    <2> DEFINE packet == Packet("terminate-submission", s)
    <2>2. /\ packet \in ToJudgePacket /\ packet.name = "terminate-submission" /\ packet.id = s
        BY DEF Packet, ToJudgePacket
    <2>3. toJudge' = IF sock[h] = "open" THEN [toJudge EXCEPT ![h] = Append(@, packet)] ELSE toJudge
        BY <1>4, <2>1 DEF Deliver
    <2> HIDE DEF packet
    <2>4. Talk(toJudge[h], fromJudge[h], working[h], grading[h], sock[h])
        BY <1>1 DEF TalkInv
    <2>5. Talk(toJudge'[h], fromJudge[h], working[h], grading[h], sock[h])
        <3>1. CASE sock[h] = "open"
            <4>1. toJudge'[h] = Append(toJudge[h], packet) /\ toJudge[h] \in Seq(ToJudgePacket)
                BY <1>2, <2>3, <3>1
            <4>2. packet.name # "submission-request" /\ packet.id = working[h]
                BY <2>1, <2>2
            <4>3. Talk(Append(toJudge[h], packet), fromJudge[h], working[h], grading[h], sock[h])
                BY <2>2, <2>4, <3>1, <4>1, <4>2, AskTalk
            <4> QED  BY <4>1, <4>3
        <3>2. CASE sock[h] # "open"
            BY <2>3, <2>4, <3>2
        <3> QED  BY <3>1, <3>2
    <2>6. \A f \in Handler \ {h} : toJudge'[f] = toJudge[f]
        BY <1>2, <2>3
    <2>7. UNCHANGED <<rows, listVars, working, wanted, problems, phase, row>>
        BY <1>3, <1>4 DEF listVars
    <2> QED  BY <1>3, <2>5, <2>6, <2>7, TalkStep
<1>5. CASE /\ submissionMap[s] = NoJudge /\ nodeMap[s] # NoNode
           /\ nodeMap' = [nodeMap EXCEPT ![s] = NoNode]
           /\ UNCHANGED toJudge
    <2>1. Waiting' = Waiting \ {s} /\ wanted' = wanted \ {s}
        BY <1>2, <1>3, <1>5 DEF Waiting
    <2>2. MapsAgree'
        BY <1>1, <1>3, <2>1 DEF MapsAgree
    <2>3. IdleInv'
        <3> SUFFICES ASSUME NEW f \in judges, NEW t \in Submission, working[f] = NoSub
                     PROVE  ~CanJudge(f, t, nodeMap[t])'
            BY <1>3 DEF IdleInv
        <3>1. ~CanJudge(f, t, nodeMap[t])
            BY <1>1 DEF IdleInv
        <3>2. nodeMap'[t] = IF t = s THEN NoNode ELSE nodeMap[t]
            BY <1>2, <1>5
        <3>3. NoNode \notin {AnyJudge, NameOf[f]}
            <4>1. f \in Handler
                BY <1>1 DEF BridgeInv, ListInv, ListTypeOK
            <4> QED  BY <4>1, ConstantsAssumption DEF JudgeId
        <3> QED  BY <1>3, <3>1, <3>2, <3>3 DEF CanJudge
    <2>4. NoLostSubmission'
        BY <1>1, <1>3, <2>1 DEF NoLostSubmission
    <2>5. ASSUME NEW f \in Handler PROVE ThreadInv(f)' /\ TalkInv(f)'
        BY <1>3, <1>5, OthersKept
    <2> QED  BY <1>3, <2>2, <2>3, <2>4, <2>5 DEF CleanInv, NoFailures
<1>6. CASE ~Known(s) /\ UNCHANGED <<queue, nodeMap, toJudge>>
    <2>1. wanted' = wanted
        BY <1>3, <1>6 DEF Known
    <2>2. MapsAgree' /\ IdleInv' /\ NoLostSubmission'
        <3>1. MapsAgree' /\ IdleInv'
            BY <1>1, <1>3, <1>6, MapsKept, IdleKept
        <3>2. NoLostSubmission'
            BY <1>1, <1>3, <1>6, <2>1 DEF NoLostSubmission, Waiting
        <3> QED  BY <3>1, <3>2
    <2>3. ASSUME NEW f \in Handler PROVE ThreadInv(f)' /\ TalkInv(f)'
        BY <1>3, <1>6, OthersKept
    <2> QED  BY <1>3, <2>2, <2>3 DEF CleanInv, NoFailures
<1> QED  BY <1>3, <1>4, <1>5, <1>6 DEF Abort

\* disconnect-judge without force: judges are asked to leave.
LEMMA DisconnectClean ==
    ASSUME CleanInv, BridgeInv', NEW n \in Name, NEW force \in Forces, DisconnectRequest(n, force)
    PROVE  CleanInv'
<1>1. /\ BridgeInv /\ MapsAgree /\ IdleInv /\ NoLostSubmission /\ force = FALSE
      /\ \A f \in Handler : ThreadInv(f) /\ TalkInv(f)
    BY DEF CleanInv, NoFailures
<1>2. /\ toJudge \in [Handler -> Seq(ToJudgePacket)]
      /\ sock \in [Handler -> {"open", "broken", "shut"}]
    BY <1>1 DEF BridgeInv, BridgeTypeOK, ListInv, ListTypeOK
<1>3. PICK done \in SUBSET Named(n) :
         /\ sock' = [h \in Handler |-> IF force /\ h \in done THEN "shut" ELSE sock[h]]
         /\ toJudge' = [h \in Handler |->
               CASE h \in done /\ force -> <<>>
                 [] h \in done /\ ~force /\ sock[h] = "open"
                        -> Append(toJudge[h], Packet("disconnect", NoSub))
                 [] OTHER -> toJudge[h]]
         /\ UNCHANGED <<listVars, working, problems, rows>>
    BY DEF DisconnectRequest, DisconnectJudges
<1>4. /\ grading' = [h \in Handler |-> IF sock'[h] = "open" THEN grading[h] ELSE NoSub]
      /\ UNCHANGED <<phase, row, fromJudge, wanted>>
      /\ UNCHANGED <<queue, nodeMap, submissionMap, judges>>
    BY <1>3 DEF DisconnectRequest, historyVars, listVars
<1>5. ASSUME NEW f \in Handler
      PROVE  ThreadInv(f)' /\ TalkInv(f)'
    <2>1. sock'[f] = sock[f]
        BY <1>1, <1>3
    <2>2. Talk(toJudge[f], fromJudge[f], working[f], grading[f], sock[f])
        BY <1>1 DEF TalkInv
    <2>3. grading'[f] = grading[f]
        BY <1>4, <2>1, <2>2 DEF Talk
    <2>4. ThreadInv(f)'
        BY <1>1, <1>3, <1>4, <2>1, ThreadKept
    <2> DEFINE packet == Packet("disconnect", NoSub)
    <2>5. packet \in ToJudgePacket /\ packet.name = "disconnect"
        BY DEF Packet, ToJudgePacket
    <2>6. \/ toJudge'[f] = toJudge[f]
          \/ toJudge'[f] = Append(toJudge[f], packet) /\ sock[f] = "open"
        BY <1>1, <1>3
    <2> HIDE DEF packet
    <2>7. Talk(toJudge'[f], fromJudge[f], working[f], grading[f], sock[f])
        <3>1. CASE toJudge'[f] = toJudge[f]
            BY <2>2, <3>1
        <3>2. CASE toJudge'[f] = Append(toJudge[f], packet) /\ sock[f] = "open"
            <4>1. toJudge[f] \in Seq(ToJudgePacket)
                BY <1>2
            <4>2. Talk(Append(toJudge[f], packet), fromJudge[f], working[f], grading[f], sock[f])
                BY <2>2, <2>5, <3>2, <4>1, AskTalk
            <4> QED  BY <3>2, <4>2
        <3> QED  BY <2>6, <3>1, <3>2
    <2>8. TalkInv(f)'
        BY <1>3, <1>4, <2>1, <2>3, <2>7 DEF TalkInv
    <2> QED  BY <2>4, <2>8
<1>6. MapsAgree' /\ IdleInv'
    BY <1>1, <1>3, <1>4, MapsKept, IdleKept
<1>7. NoLostSubmission'
    BY <1>1, <1>3, <1>4 DEF NoLostSubmission, Waiting
<1> QED  BY <1>3, <1>5, <1>6, <1>7 DEF CleanInv, NoFailures

\* Every step preserves the invariant.
LEMMA NextCleanInv == CleanInv /\ [Next]_vars => CleanInv'
<1> SUFFICES ASSUME CleanInv, [Next]_vars PROVE CleanInv'
    OBVIOUS
<1>1. BridgeInv'
    BY NextBridgeInv DEF CleanInv
<1>2. ASSUME NEW h \in Handler, HandlerThread(h) PROVE CleanInv'
    BY <1>1, <1>2, HandlerThreadClean
<1>3. ASSUME NEW h \in Handler, ExternalJudge(h) PROVE CleanInv'
    BY <1>1, <1>3, ExternalJudgeClean
<1>4. ASSUME NEW h \in Handler, ConnectionBreaks(h) PROVE CleanInv'
    BY <1>1, <1>4, BreakStep DEF ConnectionBreaks, historyVars
<1>5. ASSUME NEW h \in Handler, NEW ps \in ProblemLists, Handshake(h, ps) PROVE CleanInv'
    <2>1. /\ phase[h] = "new" /\ phase' = [phase EXCEPT ![h] = "named"]
          /\ problems' = [problems EXCEPT ![h] = ps]
          /\ UNCHANGED <<rows, listVars, working, sock, toJudge, row, fromJudge, grading, wanted>>
        BY <1>5 DEF Handshake, GoTo, judgeVars, historyVars
    <2>2. ThreadInv(h) /\ TalkInv(h) /\ phase \in [Handler -> Phases]
          /\ problems \in [Handler -> SUBSET Problem]
        BY DEF CleanInv, BridgeInv, BridgeTypeOK
    <2>3. /\ phase'[h] = "named" /\ \A f \in Handler \ {h} : phase'[f] = phase[f]
          /\ h \notin judges
        BY <2>1, <2>2 DEF ThreadInv
    <2>4. ThreadInv(h)'
        BY <2>1, <2>2, <2>3 DEF ThreadInv, listVars
    <2>5. TalkInv(h)'
        BY <2>1, <2>2, TalkKept
    <2>6. \A f \in judges : problems'[f] = problems[f]
        <3>1. judges \subseteq Handler
            BY DEF CleanInv, BridgeInv, ListInv, ListTypeOK
        <3> QED  BY <2>1, <2>2, <2>3, <3>1
    <2> QED  BY <1>1, <2>1, <2>3, <2>4, <2>5, <2>6, LocalStep
<1>6. ASSUME NEW h \in Handler, NEW ps \in ProblemLists, JudgeReloads(h, ps) PROVE CleanInv'
    BY <1>6 DEF JudgeReloads, CleanInv, NoFailures
<1>7. ASSUME NEW r \in Requests, SubmissionRequest(r) PROVE CleanInv'
    <2>1. r.id \in Submission /\ r.judge \in JudgeId /\ r.priority \in Priority
        BY BridgeAssumption
    <2>2. /\ Judge(r.id, r.judge, r.priority) /\ UNCHANGED <<phase, row, fromJudge, grading>>
          /\ wanted' \subseteq wanted \cup {r.id}
        BY <1>7 DEF SubmissionRequest, judgeVars
    <2> QED  BY <1>1, <2>1, <2>2, JudgeStep
<1>8. ASSUME NEW s \in Submission, TerminationRequest(s) PROVE CleanInv'
    BY <1>1, <1>8, TerminationClean
<1>9. ASSUME NEW s \in Submission, DeleteRow(s) PROVE CleanInv'
    BY <1>9 DEF DeleteRow, CleanInv, NoFailures
<1>10. ASSUME NEW n \in Name, NEW force \in Forces, DisconnectRequest(n, force) PROVE CleanInv'
    BY <1>1, <1>10, DisconnectClean
<1>11. ASSUME UNCHANGED vars PROVE CleanInv'
    <2>1. UNCHANGED <<rows, nodeMap, submissionMap, judges, working, problems, sock, toJudge,
                      phase, row, fromJudge, grading, wanted>>
        BY <1>11 DEF vars, listVars, handlerVars, judgeVars, historyVars
    <2>2. MapsAgree' /\ IdleInv'
        BY <2>1, MapsKept, IdleKept DEF CleanInv
    <2>3. NoLostSubmission'
        BY <2>1 DEF CleanInv, NoLostSubmission, Waiting
    <2>4. ASSUME NEW f \in Handler PROVE ThreadInv(f)' /\ TalkInv(f)'
        BY <2>1, OthersKept
    <2> QED  BY <1>1, <2>1, <2>2, <2>3, <2>4 DEF CleanInv, NoFailures
<1> QED  BY <1>2, <1>3, <1>4, <1>5, <1>6, <1>7, <1>8, <1>9, <1>10, <1>11 DEF Next

-----------------------------------------------------------------------------
LEMMA AlwaysClean == NoFailures /\ Spec => []CleanInv
BY InitCleanInv, NextCleanInv, PTL DEF Spec

\* submission_map and the judges' own notion of their work always agree.
THEOREM MapsAlwaysAgree == NoFailures /\ Spec => []MapsAgree
BY AlwaysClean, CleanInvImplies, PTL

\* No two judges grade one submission at the same time.
THEOREM NeverTwoJudges == NoFailures /\ Spec => []OneJudge
BY AlwaysClean, CleanInvImplies, PTL

\* The bare terminate-submission packet never stops another submission.
THEOREM AbortAlwaysHits == NoFailures /\ Spec => []AbortHitsTarget
BY AlwaysClean, CleanInvImplies, PTL

\* A submission the bridge accepted is waiting, at a judge, or about to be put back.
THEOREM NothingLost == NoFailures /\ Spec => []NoLostSubmission
BY AlwaysClean, CleanInvImplies, PTL

\* A judge that is working will be heard of, or its connection is known to be lost.
THEOREM WorkAlwaysInFlight == NoFailures /\ Spec => []WorkInFlight
BY AlwaysClean, CleanInvImplies, PTL
=============================================================================
