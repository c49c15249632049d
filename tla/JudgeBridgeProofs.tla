-------------------------- MODULE JudgeBridgeProofs --------------------------
(***************************************************************************)
(* What TLAPS proves of JudgeBridge, for every set of submissions,         *)
(* handlers and problems, any number of priorities, and with every failure *)
(* the model has: the types, the agreement of the queue with node_map, and *)
(* that no idle judge leaves work in the queue.                            *)
(***************************************************************************)
EXTENDS JudgeBridge, SequenceTheorems, TLAPS

-----------------------------------------------------------------------------
(* What InsertAt and RemoveAt do to a sequence: the dllist of judge_list.py. *)

\* queue.insert(value, node): the entries before the position keep theirs, the others move up.
LEMMA InsertAtProperties ==
    ASSUME NEW S, NEW q \in Seq(S), NEW i \in 1 .. Len(q), NEW e \in S
    PROVE  /\ InsertAt(q, i, e) \in Seq(S)
           /\ Len(InsertAt(q, i, e)) = Len(q) + 1
           /\ DOMAIN InsertAt(q, i, e) = 1 .. Len(q) + 1
           /\ \A k \in 1 .. Len(q) + 1 : InsertAt(q, i, e)[k] =
                 IF k < i THEN q[k] ELSE IF k = i THEN e ELSE q[k - 1]
<1> DEFINE a == SubSeq(q, 1, i - 1)
           b == SubSeq(q, i, Len(q))
           ae == a \o <<e>>
<1>1. /\ a \in Seq(S) /\ Len(a) = i - 1
      /\ \A k \in 1 .. i - 1 : a[k] = q[k]
    <2>1. \A k \in 1 .. i - 1 : q[k] \in S
        BY ElementOfSeq
    <2>2. i - 1 - 1 + 1 = i - 1 /\ \A k \in Int : 1 + k - 1 = k
        OBVIOUS
    <2> QED  BY <2>1, <2>2, SubSeqProperties
<1>2. /\ b \in Seq(S) /\ Len(b) = Len(q) - i + 1
      /\ \A k \in 1 .. Len(q) - i + 1 : b[k] = q[i + k - 1]
    <2>1. \A k \in i .. Len(q) : q[k] \in S
        BY ElementOfSeq
    <2>2. Len(q) \in Nat
        BY LenProperties
    <2> QED  BY <2>1, <2>2, SubSeqProperties
<1>3. /\ <<e>> \in Seq(S) /\ Len(<<e>>) = 1 /\ <<e>>[1] = e
    OBVIOUS
<1>4. /\ ae \in Seq(S) /\ Len(ae) = i
      /\ \A k \in 1 .. i : ae[k] = IF k < i THEN q[k] ELSE e
    <2>1. /\ ae \in Seq(S) /\ Len(ae) = Len(a) + Len(<<e>>)
          /\ \A k \in 1 .. Len(a) + Len(<<e>>) :
                ae[k] = IF k <= Len(a) THEN a[k] ELSE <<e>>[k - Len(a)]
        BY <1>1, <1>3, ConcatProperties
    <2> HIDE DEF ae, a
    <2> QED  BY <2>1, <1>1, <1>3
<1>5. InsertAt(q, i, e) = ae \o b
    BY DEF InsertAt
<1>6. /\ ae \o b \in Seq(S) /\ Len(ae \o b) = Len(ae) + Len(b)
      /\ \A k \in 1 .. Len(ae) + Len(b) :
            (ae \o b)[k] = IF k <= Len(ae) THEN ae[k] ELSE b[k - Len(ae)]
    BY <1>2, <1>4, ConcatProperties
<1>7. Len(q) \in Nat
    BY LenProperties
<1> HIDE DEF ae, a, b
<1>8. Len(ae \o b) = Len(q) + 1
    BY <1>2, <1>4, <1>6, <1>7
<1>9. DOMAIN (ae \o b) = 1 .. Len(q) + 1
    BY <1>6, <1>8, LenProperties
<1>10. ASSUME NEW k \in 1 .. Len(q) + 1
       PROVE  (ae \o b)[k] = IF k < i THEN q[k] ELSE IF k = i THEN e ELSE q[k - 1]
    BY <1>2, <1>4, <1>6, <1>7
<1> QED  BY <1>5, <1>6, <1>8, <1>9, <1>10

\* queue.remove(node): the entries after the node move down.
LEMMA RemoveAtProperties ==
    ASSUME NEW S, NEW q \in Seq(S), NEW i \in 1 .. Len(q)
    PROVE  /\ RemoveAt(q, i) \in Seq(S)
           /\ Len(RemoveAt(q, i)) = Len(q) - 1
           /\ DOMAIN RemoveAt(q, i) = 1 .. Len(q) - 1
           /\ \A k \in 1 .. Len(q) - 1 : RemoveAt(q, i)[k] = IF k < i THEN q[k] ELSE q[k + 1]
<1> DEFINE a == SubSeq(q, 1, i - 1)
           b == SubSeq(q, i + 1, Len(q))
<1>1. /\ a \in Seq(S) /\ Len(a) = i - 1
      /\ \A k \in 1 .. i - 1 : a[k] = q[k]
    <2>1. \A k \in 1 .. i - 1 : q[k] \in S
        BY ElementOfSeq
    <2>2. i - 1 - 1 + 1 = i - 1 /\ \A k \in Int : 1 + k - 1 = k
        OBVIOUS
    <2> QED  BY <2>1, <2>2, SubSeqProperties
<1>2. /\ b \in Seq(S) /\ Len(b) = Len(q) - i
      /\ \A k \in 1 .. Len(q) - i : b[k] = q[i + k]
    <2>1. \A k \in i + 1 .. Len(q) : q[k] \in S
        BY ElementOfSeq
    <2>2. Len(q) \in Nat
        BY LenProperties
    <2>3. /\ b \in Seq(S)
          /\ Len(b) = IF i + 1 <= Len(q) THEN Len(q) - (i + 1) + 1 ELSE 0
          /\ \A k \in 1 .. Len(q) - (i + 1) + 1 : b[k] = q[i + 1 + k - 1]
        <3>1. i + 1 \in Int /\ Len(q) \in Int
            BY <2>2
        <3> QED  BY <2>1, <3>1, SubSeqProperties
    <2> HIDE DEF b
    <2>4. Len(b) = Len(q) - i
        BY <2>2, <2>3
    <2>5. ASSUME NEW k \in 1 .. Len(q) - i
          PROVE  b[k] = q[i + k]
        <3>1. i + 1 + k - 1 = i + k /\ k \in 1 .. Len(q) - (i + 1) + 1
            BY <2>2
        <3> QED  BY <2>3, <3>1
    <2> QED  BY <2>3, <2>4, <2>5
<1>3. RemoveAt(q, i) = a \o b
    BY DEF RemoveAt
<1>4. /\ a \o b \in Seq(S) /\ Len(a \o b) = Len(a) + Len(b)
      /\ \A k \in 1 .. Len(a) + Len(b) :
            (a \o b)[k] = IF k <= Len(a) THEN a[k] ELSE b[k - Len(a)]
    BY <1>1, <1>2, ConcatProperties
<1>5. Len(q) \in Nat
    BY LenProperties
<1> HIDE DEF a, b
<1>6. Len(a \o b) = Len(q) - 1
    BY <1>1, <1>2, <1>4, <1>5
<1>7. DOMAIN (a \o b) = 1 .. Len(q) - 1
    BY <1>4, <1>6, LenProperties
<1>8. ASSUME NEW k \in 1 .. Len(q) - 1
      PROVE  (a \o b)[k] = IF k < i THEN q[k] ELSE q[k + 1]
    <2>1. k \in 1 .. Len(a) + Len(b)
        BY <1>1, <1>2, <1>5
    <2>2. CASE k < i
        <3>1. k <= Len(a) /\ k \in 1 .. i - 1
            BY <1>1, <2>2
        <3> QED  BY <1>1, <1>4, <2>1, <2>2, <3>1
    <2>3. CASE ~(k < i)
        <3>1. ~(k <= Len(a)) /\ k - Len(a) \in 1 .. Len(q) - i /\ i + (k - Len(a)) = k + 1
            BY <1>1, <1>5, <2>3
        <3> QED  BY <1>2, <1>4, <2>1, <2>3, <3>1
    <2> QED  BY <2>2, <2>3
<1> QED  BY <1>3, <1>4, <1>6, <1>7, <1>8

-----------------------------------------------------------------------------
(* What they do to a queue.                                                *)

QueueItem == Submission \cup Priority

\* judge() puts a submission that is not waiting before a marker.
LEMMA InsertKeepsQueue ==
    ASSUME NEW q \in Seq(QueueItem), NEW w \in SUBSET Submission, IsQueueOf(q, w),
           NEW i \in 1 .. Len(q), q[i] \in Priority, NEW s \in QueueItem, s \in Submission \ w
    PROVE  InsertAt(q, i, s) \in Seq(QueueItem) /\ IsQueueOf(InsertAt(q, i, s), w \cup {s})
<1> DEFINE r == InsertAt(q, i, s)
           n == Len(q)
<1>1. n \in Nat /\ DOMAIN q = 1 .. n /\ i \in 1 .. n
    BY LenProperties
<1>2. /\ r \in Seq(QueueItem) /\ Len(r) = n + 1 /\ DOMAIN r = 1 .. n + 1
      /\ \A k \in 1 .. n + 1 : r[k] = IF k < i THEN q[k] ELSE IF k = i THEN s ELSE q[k - 1]
    <2> HIDE DEF r, n
    <2>1. /\ InsertAt(q, i, s) \in Seq(QueueItem)
          /\ Len(InsertAt(q, i, s)) = Len(q) + 1
          /\ DOMAIN InsertAt(q, i, s) = 1 .. Len(q) + 1
          /\ \A k \in 1 .. Len(q) + 1 : InsertAt(q, i, s)[k] =
                IF k < i THEN q[k] ELSE IF k = i THEN s ELSE q[k - 1]
        BY InsertAtProperties
    <2> QED  BY <2>1 DEF r, n
<1>3. s \notin Priority /\ s \notin {q[k] : k \in DOMAIN q}
    BY ConstantsAssumption DEF IsQueueOf
<1> HIDE DEF r, n
<1>4. ASSUME NEW j \in 1 .. n + 1, NEW k \in 1 .. n + 1, r[j] = r[k]
      PROVE  j = k
    <2>1. \A l \in 1 .. n : q[l] # s
        BY <1>1, <1>3
    <2>2. \A l, m \in 1 .. n : q[l] = q[m] => l = m
        BY <1>1 DEF IsQueueOf
    <2> QED  BY <1>1, <1>2, <1>4, <2>1, <2>2
<1>5. ASSUME NEW j \in 1 .. n + 1, NEW k \in 1 .. n + 1,
             r[j] \in Priority, r[k] \in Priority, j < k
      PROVE  r[j] < r[k]
    <2>1. \A l, m \in 1 .. n : q[l] \in Priority /\ q[m] \in Priority /\ l < m => q[l] < q[m]
        BY <1>1 DEF IsQueueOf
    <2>2. j # i /\ k # i
        BY <1>2, <1>3, <1>5
    <2> DEFINE l == IF j < i THEN j ELSE j - 1
               m == IF k < i THEN k ELSE k - 1
    <2>3. l \in 1 .. n /\ m \in 1 .. n /\ l < m
        BY <1>1, <1>5, <2>2
    <2>4. r[j] = q[l] /\ r[k] = q[m]
        BY <1>2, <2>2
    <2> QED  BY <1>5, <2>1, <2>3, <2>4
<1>6. {r[k] : k \in 1 .. n + 1} = Priority \cup (w \cup {s})
    <2>1. {q[k] : k \in 1 .. n} = Priority \cup w
        BY <1>1 DEF IsQueueOf
    <2>2. ASSUME NEW k \in 1 .. n + 1
          PROVE  r[k] \in Priority \cup (w \cup {s})
        BY <1>1, <1>2, <2>1
    <2>3. ASSUME NEW x \in Priority \cup w
          PROVE  \E k \in 1 .. n + 1 : r[k] = x
        <3>1. PICK l \in 1 .. n : q[l] = x
            BY <2>1
        <3>2. CASE l < i
            BY <1>1, <1>2, <3>1, <3>2
        <3>3. CASE ~(l < i)
            <4>1. l + 1 \in 1 .. n + 1 /\ ~(l + 1 < i) /\ l + 1 # i /\ l + 1 - 1 = l
                BY <1>1, <3>3
            <4> QED  BY <1>2, <3>1, <4>1
        <3> QED  BY <3>2, <3>3
    <2>4. r[i] = s /\ i \in 1 .. n + 1
        BY <1>1, <1>2
    <2> QED  BY <2>2, <2>3, <2>4
<1>7. r[n + 1] = Priorities - 1
    <2>1. q[n] = Priorities - 1
        BY DEF IsQueueOf, n
    <2> DEFINE m == n + 1
    <2>2. m \in 1 .. n + 1 /\ ~(m < i) /\ m # i /\ m - 1 = n
        BY <1>1
    <2>3. r[m] = IF m < i THEN q[m] ELSE IF m = i THEN s ELSE q[m - 1]
        BY <1>2, <2>2
    <2> HIDE DEF m
    <2>4. r[m] = q[m - 1]
        BY <2>2, <2>3
    <2>5. r[m] = Priorities - 1
        BY <2>1, <2>2, <2>4
    <2> QED  BY <2>5 DEF m
<1>8. IsQueueOf(r, w \cup {s})
    BY <1>2, <1>4, <1>5, <1>6, <1>7 DEF IsQueueOf
<1> QED  BY <1>2, <1>8 DEF r

\* abort() and _handle_free_judge take the node of a waiting submission out.
LEMMA RemoveKeepsQueue ==
    ASSUME NEW q \in Seq(QueueItem), NEW w \in SUBSET Submission, IsQueueOf(q, w),
           NEW i \in DOMAIN q, q[i] \in Submission
    PROVE  RemoveAt(q, i) \in Seq(QueueItem) /\ IsQueueOf(RemoveAt(q, i), w \ {q[i]})
<1> DEFINE r == RemoveAt(q, i)
           n == Len(q)
<1>1. n \in Nat /\ DOMAIN q = 1 .. n /\ i \in 1 .. n
    BY LenProperties
<1>2. /\ r \in Seq(QueueItem) /\ Len(r) = n - 1 /\ DOMAIN r = 1 .. n - 1
      /\ \A k \in 1 .. n - 1 : r[k] = IF k < i THEN q[k] ELSE q[k + 1]
    BY <1>1, RemoveAtProperties
<1>3. q[i] \notin Priority /\ q[n] \in Priority
    <2>1. q[i] \notin Priority
        BY ConstantsAssumption
    <2>2. Priorities - 1 \in Priority
        BY ConstantsAssumption DEF Priority
    <2> QED  BY <2>1, <2>2 DEF IsQueueOf
<1>4. \A l, m \in 1 .. n : q[l] = q[m] => l = m
    BY <1>1 DEF IsQueueOf
<1> HIDE DEF r, n
<1>5. ASSUME NEW j \in 1 .. n - 1, NEW k \in 1 .. n - 1, r[j] = r[k]
      PROVE  j = k
    BY <1>1, <1>2, <1>4, <1>5
<1>6. ASSUME NEW j \in 1 .. n - 1, NEW k \in 1 .. n - 1,
             r[j] \in Priority, r[k] \in Priority, j < k
      PROVE  r[j] < r[k]
    <2>1. \A l, m \in 1 .. n : q[l] \in Priority /\ q[m] \in Priority /\ l < m => q[l] < q[m]
        BY <1>1 DEF IsQueueOf
    <2> DEFINE l == IF j < i THEN j ELSE j + 1
               m == IF k < i THEN k ELSE k + 1
    <2>3. l \in 1 .. n /\ m \in 1 .. n /\ l < m
        BY <1>1, <1>6
    <2>4. r[j] = q[l] /\ r[k] = q[m]
        BY <1>2
    <2> QED  BY <1>6, <2>1, <2>3, <2>4
<1>7. {r[k] : k \in 1 .. n - 1} = Priority \cup (w \ {q[i]})
    <2>1. {q[k] : k \in 1 .. n} = Priority \cup w
        BY <1>1 DEF IsQueueOf
    <2>2. ASSUME NEW k \in 1 .. n - 1
          PROVE  r[k] \in Priority \cup (w \ {q[i]})
        <3> DEFINE l == IF k < i THEN k ELSE k + 1
        <3>1. l \in 1 .. n /\ l # i /\ r[k] = q[l]
            BY <1>1, <1>2
        <3> QED  BY <1>1, <1>4, <2>1, <3>1
    <2>3. ASSUME NEW x \in Priority \cup (w \ {q[i]})
          PROVE  \E k \in 1 .. n - 1 : r[k] = x
        <3>1. PICK l \in 1 .. n : q[l] = x
            BY <2>1
        <3>2. l # i
            BY <1>3, <3>1
        <3>3. CASE l < i
            <4>1. l \in 1 .. n - 1
                BY <1>1, <3>3
            <4> QED  BY <1>2, <3>1, <3>3, <4>1
        <3>4. CASE i < l
            <4>1. l - 1 \in 1 .. n - 1 /\ ~(l - 1 < i) /\ l - 1 + 1 = l
                BY <1>1, <3>4
            <4> QED  BY <1>2, <3>1, <4>1
        <3> QED  BY <1>1, <3>2, <3>3, <3>4
    <2> QED  BY <2>2, <2>3
<1>8. r[n - 1] = Priorities - 1
    <2>1. q[n] = Priorities - 1
        BY DEF IsQueueOf, n
    <2>2. i # n
        BY <1>3
    <2>3. n - 1 \in 1 .. n - 1 /\ ~(n - 1 < i) /\ n - 1 + 1 = n
        BY <1>1, <2>2
    <2> QED  BY <1>2, <2>1, <2>3
<1>9. IsQueueOf(r, w \ {q[i]})
    BY <1>2, <1>5, <1>6, <1>7, <1>8 DEF IsQueueOf
<1> QED  BY <1>2, <1>9 DEF r

-----------------------------------------------------------------------------
(* What the methods of JudgeList preserve.                                 *)

Map == [Submission -> Handler \cup {NoJudge}]
Work == [Handler -> Submission \cup {NoSub}]

ListTypeOK ==
    /\ queue \in Seq(QueueItem)
    /\ nodeMap \in [Submission -> JudgeId \cup {NoNode}]
    /\ submissionMap \in Map
    /\ judges \in SUBSET Handler
    /\ working \in Work
    /\ toJudge \in [Handler -> Seq(ToJudgePacket)]

ListInv == ListTypeOK /\ QueueConsistent

\* A marker, and a submission that is in node_map, has a place in the queue.
LEMMA PositionExists ==
    ASSUME QueueConsistent, NEW x \in Priority \cup Waiting
    PROVE  PositionOf(x) \in DOMAIN queue /\ queue[PositionOf(x)] = x
<1>1. \E i \in DOMAIN queue : queue[i] = x
    BY DEF QueueConsistent, IsQueueOf
<1> QED  BY <1>1 DEF PositionOf

\* What is sent to a judge is a packet.
LEMMA DeliverType ==
    ASSUME toJudge \in [Handler -> Seq(ToJudgePacket)], NEW h \in Handler,
           NEW packet \in ToJudgePacket
    PROVE  Deliver(h, packet) \in [Handler -> Seq(ToJudgePacket)]
<1>1. Append(toJudge[h], packet) \in Seq(ToJudgePacket)
    OBVIOUS
<1> QED  BY <1>1 DEF Deliver

\* submit() keeps the types, whatever its outcome.
LEMMA SubmitType ==
    ASSUME toJudge \in [Handler -> Seq(ToJudgePacket)], NEW h \in Handler,
           NEW s \in Submission, NEW outcome, NEW w \in Work, Submit(h, s, outcome, w)
    PROVE  working' \in Work /\ toJudge' \in [Handler -> Seq(ToJudgePacket)]
<1>1. Packet("submission-request", s) \in ToJudgePacket
    BY DEF Packet, ToJudgePacket
<1>2. Deliver(h, Packet("submission-request", s)) \in [Handler -> Seq(ToJudgePacket)]
    BY <1>1, DeliverType
<1>3. toJudge' \in [Handler -> Seq(ToJudgePacket)]
    BY <1>2 DEF Submit
<1>4. working' \in Work
    BY DEF Submit, Work
<1> QED  BY <1>3, <1>4

\* Taking the node at i out of the queue and its key out of node_map keeps the two in agreement.
LEMMA TakeOutOfQueue ==
    ASSUME ListInv, NEW i \in DOMAIN queue, queue[i] \in Submission,
           queue' = RemoveAt(queue, i), nodeMap' = [nodeMap EXCEPT ![queue[i]] = NoNode]
    PROVE  /\ queue' \in Seq(QueueItem)
           /\ nodeMap' \in [Submission -> JudgeId \cup {NoNode}]
           /\ QueueConsistent'
<1>1. queue \in Seq(QueueItem) /\ Waiting \in SUBSET Submission /\ IsQueueOf(queue, Waiting)
    BY DEF ListInv, ListTypeOK, QueueConsistent, Waiting
<1>2. /\ RemoveAt(queue, i) \in Seq(QueueItem)
      /\ IsQueueOf(RemoveAt(queue, i), Waiting \ {queue[i]})
    BY <1>1, RemoveKeepsQueue
<1>3. nodeMap' \in [Submission -> JudgeId \cup {NoNode}]
    BY DEF ListInv, ListTypeOK
<1>4. Waiting' = Waiting \ {queue[i]}
    BY DEF ListInv, ListTypeOK, Waiting
<1> QED  BY <1>2, <1>3, <1>4 DEF QueueConsistent

\* Nothing that happens outside the queue and node_map disturbs their agreement.
LEMMA QueueUntouched ==
    ASSUME QueueConsistent, UNCHANGED <<queue, nodeMap>>
    PROVE  QueueConsistent'
<1>1. Waiting' = Waiting
    BY DEF Waiting
<1> QED  BY <1>1 DEF QueueConsistent

\* _handle_free_judge
LEMMA HandleFreeJudgeInv ==
    ASSUME ListInv, NEW h \in Handler, NEW sm \in Map, NEW js \in SUBSET Handler,
           NEW w \in Work, HandleFreeJudge(h, sm, js, w)
    PROVE  ListInv'
<1>1. CASE /\ submissionMap' = sm /\ judges' = js /\ working' = w
           /\ UNCHANGED <<queue, nodeMap, toJudge>>
    <2>1. QueueConsistent'
        BY <1>1, QueueUntouched DEF ListInv
    <2> QED  BY <1>1, <2>1 DEF ListInv, ListTypeOK
<1>2. ASSUME NEW i \in Eligible(h), NEW outcome \in Outcomes(h, queue[i]),
             submissionMap' = [sm EXCEPT ![queue[i]] = h],
             Submit(h, queue[i], outcome, w),
             TakeOut(h, i, outcome, js)
      PROVE  ListInv'
    <2>1. i \in DOMAIN queue /\ queue[i] \in Submission
        BY DEF Eligible
    <2>2. submissionMap' \in Map /\ judges' \in SUBSET Handler
        BY <1>2, <2>1 DEF Map, TakeOut
    <2>3. working' \in Work /\ toJudge' \in [Handler -> Seq(ToJudgePacket)]
        BY <1>2, <2>1, SubmitType DEF ListInv, ListTypeOK
    <2>4. /\ queue' \in Seq(QueueItem)
          /\ nodeMap' \in [Submission -> JudgeId \cup {NoNode}]
          /\ QueueConsistent'
        <3>1. CASE outcome \in {"sent", "vanished"}
            BY <1>2, <2>1, <3>1, TakeOutOfQueue DEF TakeOut
        <3>2. CASE outcome \notin {"sent", "vanished"}
            <4>1. UNCHANGED <<queue, nodeMap>>
                BY <1>2, <3>2 DEF TakeOut
            <4> QED  BY <4>1, QueueUntouched DEF ListInv, ListTypeOK
        <3> QED  BY <3>1, <3>2
    <2> QED  BY <2>2, <2>3, <2>4 DEF ListInv, ListTypeOK
<1> QED  BY <1>1, <1>2 DEF HandleFreeJudge

\* judge: the submission is known, is queued before the marker of its priority, or dispatched.
LEMMA JudgeInv ==
    ASSUME ListInv, NEW s \in Submission, NEW id \in JudgeId, NEW p \in Priority,
           Judge(s, id, p)
    PROVE  ListInv'
<1>1. CASE UNCHANGED <<listVars, working, toJudge>>
    <2>1. QueueConsistent'
        BY <1>1, QueueUntouched DEF ListInv, listVars
    <2> QED  BY <1>1, <2>1 DEF ListInv, ListTypeOK, listVars
<1>2. CASE /\ ~Known(s)
           /\ queue' = InsertBefore(p, s)
           /\ nodeMap' = [nodeMap EXCEPT ![s] = id]
           /\ UNCHANGED <<submissionMap, judges, working, toJudge>>
    <2>1. /\ queue \in Seq(QueueItem) /\ IsQueueOf(queue, Waiting)
          /\ Waiting \in SUBSET Submission /\ s \in Submission \ Waiting /\ s \in QueueItem
        BY <1>2 DEF ListInv, ListTypeOK, QueueConsistent, Waiting, Known, QueueItem
    <2>2. PositionOf(p) \in 1 .. Len(queue) /\ queue[PositionOf(p)] = p
        BY <2>1, PositionExists, LenProperties DEF ListInv
    <2>3. queue' \in Seq(QueueItem) /\ IsQueueOf(queue', Waiting \cup {s})
        BY <1>2, <2>1, <2>2, InsertKeepsQueue DEF InsertBefore
    <2>4. nodeMap' \in [Submission -> JudgeId \cup {NoNode}]
        BY <1>2 DEF ListInv, ListTypeOK
    <2>5. Waiting' = Waiting \cup {s}
        <3>1. id # NoNode
            BY ConstantsAssumption
        <3> QED  BY <1>2, <3>1 DEF ListInv, ListTypeOK, Waiting
    <2> QED  BY <1>2, <2>3, <2>4, <2>5 DEF ListInv, ListTypeOK, QueueConsistent
<1>3. ASSUME NEW h \in Candidates(s, id), NEW outcome \in Outcomes(h, s),
             submissionMap' = [submissionMap EXCEPT ![s] = h],
             Submit(h, s, outcome, working),
             judges' = IF outcome = "sent" THEN judges ELSE judges \ {h},
             UNCHANGED <<queue, nodeMap>>
      PROVE  ListInv'
    <2>1. h \in Handler
        BY DEF Candidates, ListInv, ListTypeOK
    <2>2. working' \in Work /\ toJudge' \in [Handler -> Seq(ToJudgePacket)]
        BY <1>3, <2>1, SubmitType DEF ListInv, ListTypeOK
    <2>3. submissionMap' \in Map /\ judges' \in SUBSET Handler
        BY <1>3, <2>1 DEF ListInv, ListTypeOK, Map
    <2>4. QueueConsistent'
        BY <1>3, QueueUntouched DEF ListInv
    <2> QED  BY <1>3, <2>2, <2>3, <2>4 DEF ListInv, ListTypeOK
<1> QED  BY <1>1, <1>2, <1>3 DEF Judge

\* on_judge_free: the key leaves submission_map and the judge looks at the queue.
LEMMA OnJudgeFreeInv ==
    ASSUME ListInv, NEW h \in Handler, NEW s, OnJudgeFree(h, s)
    PROVE  ListInv'
<1>1. CASE UNCHANGED <<listVars, working, toJudge>>
    <2>1. QueueConsistent'
        BY <1>1, QueueUntouched DEF ListInv, listVars
    <2> QED  BY <1>1, <2>1 DEF ListInv, ListTypeOK, listVars
<1>2. CASE HandleFreeJudge(h, [submissionMap EXCEPT ![s] = NoJudge], judges,
                           [working EXCEPT ![h] = NoSub])
    <2>1. [submissionMap EXCEPT ![s] = NoJudge] \in Map
        BY DEF ListInv, ListTypeOK, Map
    <2>2. [working EXCEPT ![h] = NoSub] \in Work
        BY DEF ListInv, ListTypeOK, Work
    <2>3. judges \in SUBSET Handler
        BY DEF ListInv, ListTypeOK
    <2> QED  BY <1>2, <2>1, <2>2, <2>3, HandleFreeJudgeInv
<1> QED  BY <1>1, <1>2 DEF OnJudgeFree

\* abort: terminate-submission for the judge that has it, or out of the queue.
LEMMA AbortInv ==
    ASSUME ListInv, NEW s \in Submission, Abort(s)
    PROVE  ListInv'
<1>1. UNCHANGED <<submissionMap, judges, working>>
    BY DEF Abort
<1>2. CASE /\ submissionMap[s] # NoJudge
           /\ toJudge' = Deliver(submissionMap[s], Packet("terminate-submission", s))
           /\ UNCHANGED <<queue, nodeMap>>
    <2>1. submissionMap[s] \in Handler
        BY <1>2 DEF ListInv, ListTypeOK, Map
    <2>2. Packet("terminate-submission", s) \in ToJudgePacket
        BY DEF Packet, ToJudgePacket
    <2>3. toJudge' \in [Handler -> Seq(ToJudgePacket)]
        BY <1>2, <2>1, <2>2, DeliverType DEF ListInv, ListTypeOK
    <2>4. QueueConsistent'
        BY <1>2, QueueUntouched DEF ListInv
    <2> QED  BY <1>1, <1>2, <2>3, <2>4 DEF ListInv, ListTypeOK
<1>3. CASE /\ nodeMap[s] # NoNode
           /\ queue' = Unlink(s)
           /\ nodeMap' = [nodeMap EXCEPT ![s] = NoNode]
           /\ UNCHANGED toJudge
    <2>1. PositionOf(s) \in DOMAIN queue /\ queue[PositionOf(s)] = s
        BY <1>3, PositionExists DEF ListInv, Waiting
    <2>2. /\ queue' \in Seq(QueueItem)
          /\ nodeMap' \in [Submission -> JudgeId \cup {NoNode}]
          /\ QueueConsistent'
        BY <1>3, <2>1, TakeOutOfQueue DEF Unlink
    <2> QED  BY <1>1, <1>3, <2>2 DEF ListInv, ListTypeOK
<1>4. CASE UNCHANGED <<queue, nodeMap, toJudge>>
    <2>1. QueueConsistent'
        BY <1>4, QueueUntouched DEF ListInv
    <2> QED  BY <1>1, <1>4, <2>1 DEF ListInv, ListTypeOK
<1> QED  BY <1>2, <1>3, <1>4 DEF Abort

\* An action that leaves the list, the judges' work and their packets alone.
LEMMA ListUntouched ==
    ASSUME ListInv, UNCHANGED <<listVars, working, toJudge>>
    PROVE  ListInv'
<1>1. QueueConsistent'
    BY QueueUntouched DEF ListInv, listVars
<1> QED  BY <1>1 DEF ListInv, ListTypeOK, listVars

\* An action that leaves the list alone and keeps the packets to the judges packets.
LEMMA OnlyPackets ==
    ASSUME ListInv, UNCHANGED <<listVars, working>>,
           toJudge' \in [Handler -> Seq(ToJudgePacket)]
    PROVE  ListInv'
<1>1. QueueConsistent'
    BY QueueUntouched DEF ListInv, listVars
<1> QED  BY <1>1 DEF ListInv, ListTypeOK, listVars

-----------------------------------------------------------------------------
(* What the threads and the judges preserve.                               *)

BridgeTypeOK ==
    /\ problems \in [Handler -> SUBSET Problem]
    /\ sock \in [Handler -> {"open", "broken", "shut"}]
    /\ phase \in [Handler -> Phases]
    /\ row \in [Handler -> BOOLEAN]
    /\ fromJudge \in [Handler -> Seq(FromJudgePacket)]
    /\ grading \in [Handler -> Submission \cup {NoSub}]
    /\ stage \in [Handler -> Nat]
    /\ requests \in Nat
    /\ rows \in SUBSET Submission
    /\ wanted \in SUBSET Submission

\* The inductive invariant.
BridgeInv == ListInv /\ BridgeTypeOK

LEMMA BridgeInvImplies == BridgeInv => TypeOK /\ QueueConsistent
BY DEF BridgeInv, ListInv, ListTypeOK, BridgeTypeOK, TypeOK, QueueItem, Map, Work

\* The markers alone are a queue without submissions.
LEMMA MarkersQueue == Markers \in Seq(QueueItem) /\ IsQueueOf(Markers, {})
<1>1. Priorities \in Nat \ {0}
    BY ConstantsAssumption
<1>2. /\ Len(Markers) = Priorities /\ DOMAIN Markers = 1 .. Priorities
      /\ \A i \in 1 .. Priorities : Markers[i] = i - 1
    BY <1>1 DEF Markers
<1>3. Markers \in Seq(QueueItem)
    <2>1. \A i \in 1 .. Priorities : i - 1 \in QueueItem
        BY <1>1 DEF QueueItem, Priority
    <2> QED  BY <1>1, <2>1 DEF Markers
<1>4. IsQueueOf(Markers, {})
    <2>1. \A i, j \in 1 .. Priorities : Markers[i] = Markers[j] => i = j
        BY <1>2
    <2>2. \A i, j \in 1 .. Priorities : i < j => Markers[i] < Markers[j]
        BY <1>1, <1>2
    <2>3. {Markers[i] : i \in 1 .. Priorities} = Priority
        <3>1. \A i \in 1 .. Priorities : Markers[i] \in Priority
            BY <1>1, <1>2 DEF Priority
        <3>2. ASSUME NEW p \in Priority
              PROVE  \E i \in 1 .. Priorities : Markers[i] = p
            <4> DEFINE i == p + 1
            <4>1. i \in 1 .. Priorities /\ i - 1 = p
                BY <1>1 DEF Priority
            <4>2. Markers[i] = i - 1
                BY <1>2, <4>1
            <4> QED  BY <4>1, <4>2
        <3> QED  BY <3>1, <3>2
    <2>4. Markers[Len(Markers)] = Priorities - 1
        BY <1>1, <1>2
    <2> QED  BY <1>2, <2>1, <2>2, <2>3, <2>4 DEF IsQueueOf
<1> QED  BY <1>3, <1>4

\* At the start the queue holds the markers alone.
LEMMA InitBridgeInv == Init => BridgeInv
<1> SUFFICES ASSUME Init PROVE BridgeInv
    OBVIOUS
<1>1. Waiting = {}
    BY DEF Init, ListInit, Waiting
<1>2. QueueConsistent
    BY <1>1, MarkersQueue DEF QueueConsistent, Init, ListInit
<1>3. ListTypeOK
    BY MarkersQueue DEF Init, ListInit, ListTypeOK, Map, Work
<1>4. BridgeTypeOK
    BY DEF Init, BridgeTypeOK, Phases
<1> QED  BY <1>2, <1>3, <1>4 DEF BridgeInv, ListInv

\* What a judge says of a submission, and of its problems, is a packet.
LEMMA ReplyType ==
    ASSUME NEW s \in Submission, NEW n \in Nat,
           NEW name \in {"submission-acknowledged", "grading-begin", "test-case-status",
                         "submission-terminated"} \cup Verdicts
    PROVE  Reply(name, s, {}, n) \in FromJudgePacket
BY DEF Reply, FromJudgePacket

LEMMA ReloadType ==
    ASSUME NEW ps \in SUBSET Problem
    PROVE  Reply("supported-problems", NoSub, ps, 0) \in FromJudgePacket
BY DEF Reply, FromJudgePacket

\* Sending a packet and reading one keep the packets of the judges.
LEMMA SendType ==
    ASSUME BridgeTypeOK, NEW h \in Handler, NEW packet \in FromJudgePacket, Send(h, packet)
    PROVE  fromJudge' \in [Handler -> Seq(FromJudgePacket)]
<1>1. Append(fromJudge[h], packet) \in Seq(FromJudgePacket)
    BY DEF BridgeTypeOK
<1> QED  BY <1>1 DEF Send, BridgeTypeOK

LEMMA IncomingType ==
    ASSUME BridgeTypeOK, NEW h \in Handler, NEW names, Incoming(h, names)
    PROVE  /\ fromJudge' \in [Handler -> Seq(FromJudgePacket)]
           /\ Head(fromJudge[h]) \in FromJudgePacket
<1>1. fromJudge[h] \in Seq(FromJudgePacket) /\ fromJudge[h] # <<>>
    BY DEF BridgeTypeOK, Incoming
<1>2. /\ Tail(fromJudge[h]) \in Seq(FromJudgePacket)
      /\ Head(fromJudge[h]) \in FromJudgePacket
    BY <1>1, HeadTailProperties
<1> QED  BY <1>2 DEF Incoming, BridgeTypeOK

\* A judge reading a packet keeps those that are left.
LEMMA ReceivedType ==
    ASSUME ListInv, NEW h \in Handler, NEW name, Received(h, name)
    PROVE  /\ toJudge' \in [Handler -> Seq(ToJudgePacket)]
           /\ Head(toJudge[h]) \in ToJudgePacket
<1>1. toJudge[h] \in Seq(ToJudgePacket) /\ toJudge[h] # <<>>
    BY DEF ListInv, ListTypeOK, Received
<1>2. Tail(toJudge[h]) \in Seq(ToJudgePacket) /\ Head(toJudge[h]) \in ToJudgePacket
    BY <1>1, HeadTailProperties
<1> QED  BY <1>2 DEF Received, ListInv, ListTypeOK

\* A connection that is cut loses the packets on their way.
LEMMA CutOffType ==
    ASSUME ListInv, NEW h \in Handler
    PROVE  [toJudge EXCEPT ![h] = <<>>] \in [Handler -> Seq(ToJudgePacket)]
<1>1. <<>> \in Seq(ToJudgePacket)
    OBVIOUS
<1> QED  BY <1>1 DEF ListInv, ListTypeOK

\* The steps of a handler's thread.
LEMMA HandlerThreadInv ==
    ASSUME BridgeInv, NEW h \in Handler, HandlerThread(h)
    PROVE  BridgeInv'
<1> USE DEF BridgeInv
<1>1. CASE Register(h)
    <2>1. /\ submissionMap \in Map /\ judges \cup {h} \in SUBSET Handler /\ working \in Work
        BY DEF ListInv, ListTypeOK
    <2>2. ListInv'
        BY <1>1, <2>1, HandleFreeJudgeInv DEF Register, RegisterJudge
    <2>3. BridgeTypeOK'
        BY <1>1 DEF Register, RegisterJudge, GoTo, Phases, listExternals, judgeVars,
                    historyVars, BridgeTypeOK
    <2> QED  BY <2>2, <2>3
<1>2. CASE HandshakeFails(h)
    <2>1. ListInv'
        BY <1>2, ListUntouched DEF HandshakeFails, handlerVars
    <2>2. BridgeTypeOK'
        BY <1>2 DEF HandshakeFails, GoTo, Phases, handlerVars, judgeVars, historyVars, BridgeTypeOK
    <2> QED  BY <2>1, <2>2
<1>3. CASE Connected(h)
    <2>1. ListInv'
        BY <1>3, ListUntouched DEF Connected, handlerVars
    <2>2. BridgeTypeOK'
        BY <1>3 DEF Connected, GoTo, Phases, handlerVars, judgeVars, historyVars, BridgeTypeOK
    <2> QED  BY <2>1, <2>2
<1>4. CASE HandleAcknowledged(h)
    <2>1. fromJudge' \in [Handler -> Seq(FromJudgePacket)]
        BY <1>4, IncomingType DEF HandleAcknowledged
    <2>2. toJudge' \in [Handler -> Seq(ToJudgePacket)]
        BY <1>4, CutOffType DEF HandleAcknowledged, Close, ListInv, ListTypeOK
    <2>3. ListInv'
        BY <1>4, <2>2, OnlyPackets DEF HandleAcknowledged
    <2>4. BridgeTypeOK'
        BY <1>4, <2>1 DEF HandleAcknowledged, Close, historyVars, BridgeTypeOK
    <2> QED  BY <2>3, <2>4
<1>5. CASE HandleProgress(h)
    <2>1. fromJudge' \in [Handler -> Seq(FromJudgePacket)]
        BY <1>5, IncomingType DEF HandleProgress
    <2>2. ListInv'
        BY <1>5, ListUntouched DEF HandleProgress, handlerVars
    <2>3. BridgeTypeOK'
        BY <1>5, <2>1 DEF HandleProgress, handlerVars, historyVars, BridgeTypeOK
    <2> QED  BY <2>2, <2>3
<1>6. CASE HandleFinal(h)
    <2>1. fromJudge' \in [Handler -> Seq(FromJudgePacket)]
        BY <1>6, IncomingType DEF HandleFinal
    <2>2. ListInv'
        BY <1>6, OnJudgeFreeInv DEF HandleFinal
    <2>3. BridgeTypeOK'
        BY <1>6, <2>1 DEF HandleFinal, OnJudgeFree, listExternals, BridgeTypeOK
    <2> QED  BY <2>2, <2>3
<1>7. CASE HandleSupportedProblems(h)
    <2>1. /\ fromJudge' \in [Handler -> Seq(FromJudgePacket)]
          /\ Head(fromJudge[h]).problems \in SUBSET Problem
        BY <1>7, IncomingType DEF HandleSupportedProblems, FromJudgePacket
    <2>2. ListInv'
        BY <1>7, ListUntouched DEF HandleSupportedProblems
    <2>3. BridgeTypeOK'
        BY <1>7, <2>1 DEF HandleSupportedProblems, Phases, historyVars, BridgeTypeOK
    <2> QED  BY <2>2, <2>3
<1>8. CASE HandleUpdateProblems(h)
    <2>1. /\ submissionMap \in Map /\ judges \in SUBSET Handler /\ working \in Work
        BY DEF ListInv, ListTypeOK
    <2>2. ListInv'
        BY <1>8, <2>1, HandleFreeJudgeInv DEF HandleUpdateProblems, UpdateProblems
    <2>3. BridgeTypeOK'
        BY <1>8 DEF HandleUpdateProblems, UpdateProblems, GoTo, Phases, listExternals,
                    judgeVars, historyVars, BridgeTypeOK
    <2> QED  BY <2>2, <2>3
<1>9. CASE EndOfStream(h)
    <2>1. ListInv'
        BY <1>9, ListUntouched DEF EndOfStream, handlerVars
    <2>2. BridgeTypeOK'
        BY <1>9 DEF EndOfStream, GoTo, Phases, handlerVars, historyVars, BridgeTypeOK
    <2> QED  BY <2>1, <2>2
<1>10. CASE Unregister(h)
    <2>1. QueueConsistent'
        BY <1>10, QueueUntouched DEF Unregister, RemoveJudge, ListInv
    <2>2. ListTypeOK'
        BY <1>10 DEF Unregister, RemoveJudge, handlerVars, ListInv, ListTypeOK, Map
    <2>3. BridgeTypeOK'
        BY <1>10 DEF Unregister, RemoveJudge, GoTo, Phases, handlerVars, judgeVars,
                     historyVars, BridgeTypeOK
    <2> QED  BY <2>1, <2>2, <2>3 DEF ListInv
<1>11. CASE Disconnected(h)
    <2>1. ListInv'
        BY <1>11, ListUntouched DEF Disconnected, handlerVars
    <2>2. BridgeTypeOK'
        BY <1>11 DEF Disconnected, GoTo, Phases, handlerVars, judgeVars, historyVars, BridgeTypeOK
    <2> QED  BY <2>1, <2>2
<1>12. CASE Requeue(h)
    <2>1. ListInv'
        <3>1. CASE working[h] = NoSub
            BY <1>12, <3>1, ListUntouched DEF Requeue, handlerVars
        <3>2. CASE working[h] # NoSub
            <4>1. working[h] \in Submission
                BY <3>2 DEF ListInv, ListTypeOK, Work
            <4>2. AnyJudge \in JudgeId /\ 0 \in Priority
                BY ConstantsAssumption DEF JudgeId, Priority
            <4>3. Judge(working[h], AnyJudge, 0)
                BY <1>12, <3>2 DEF Requeue
            <4> QED  BY <4>1, <4>2, <4>3, JudgeInv
        <3> QED  BY <3>1, <3>2
    <2>2. UNCHANGED <<problems, sock, rows>>
        BY <1>12 DEF Requeue, Judge, handlerVars, listExternals
    <2>3. BridgeTypeOK'
        BY <1>12, <2>2 DEF Requeue, GoTo, Phases, judgeVars, historyVars, BridgeTypeOK
    <2> QED  BY <2>1, <2>3
<1> QED  BY <1>1, <1>2, <1>3, <1>4, <1>5, <1>6, <1>7, <1>8, <1>9, <1>10, <1>11, <1>12
         DEF HandlerThread

\* The steps of a judge at the other end.
LEMMA ExternalJudgeInv ==
    ASSUME BridgeInv, NEW h \in Handler, ExternalJudge(h)
    PROVE  BridgeInv'
<1> USE DEF BridgeInv
<1>1. CASE JudgeStarts(h)
    <2>1. /\ toJudge' \in [Handler -> Seq(ToJudgePacket)]
          /\ Head(toJudge[h]).id \in Submission
        <3>1. /\ toJudge' \in [Handler -> Seq(ToJudgePacket)]
              /\ Head(toJudge[h]) \in ToJudgePacket
              /\ Head(toJudge[h]).name = "submission-request"
            BY <1>1, ReceivedType DEF JudgeStarts, Received
        <3> QED  BY <3>1 DEF ToJudgePacket, Packet
    <2>2. Reply("submission-acknowledged", Head(toJudge[h]).id, {}, 0) \in FromJudgePacket
        BY <2>1, ReplyType
    <2>3. fromJudge' \in [Handler -> Seq(FromJudgePacket)]
        BY <1>1, <2>2, SendType DEF JudgeStarts
    <2>4. ListInv'
        BY <1>1, <2>1, OnlyPackets DEF JudgeStarts
    <2>5. BridgeTypeOK'
        BY <1>1, <2>1, <2>3 DEF JudgeStarts, historyVars, BridgeTypeOK
    <2> QED  BY <2>4, <2>5
<1>2. CASE JudgeProgresses(h)
    <2>1. /\ Script[stage[h] + 1] \in {"grading-begin", "test-case-status"}
          /\ grading[h] \in Submission /\ stage[h] + 1 \in Nat
        <3>1. Script \in Seq({"grading-begin", "test-case-status"}) /\ Len(Script) \in Nat
            BY BridgeAssumption, LenProperties
        <3>2. stage[h] + 1 \in 1 .. Len(Script)
            BY <1>2, <3>1 DEF JudgeProgresses, BridgeTypeOK
        <3>3. Script[stage[h] + 1] \in {"grading-begin", "test-case-status"}
            BY <3>1, <3>2, ElementOfSeq
        <3> QED  BY <1>2, <3>2, <3>3 DEF JudgeProgresses, BridgeTypeOK
    <2>2. Reply(Script[stage[h] + 1], grading[h], {}, stage[h] + 1) \in FromJudgePacket
        BY <2>1, ReplyType
    <2>3. fromJudge' \in [Handler -> Seq(FromJudgePacket)]
        BY <1>2, <2>2, SendType DEF JudgeProgresses
    <2>4. ListInv'
        BY <1>2, ListUntouched DEF JudgeProgresses, handlerVars
    <2>5. stage' \in [Handler -> Nat]
        BY <1>2, <2>1 DEF JudgeProgresses, BridgeTypeOK
    <2>6. UNCHANGED <<problems, sock, rows, phase, row, grading, requests, wanted>>
        BY <1>2 DEF JudgeProgresses, handlerVars, historyVars
    <2>7. BridgeTypeOK'
        BY <2>3, <2>5, <2>6 DEF BridgeTypeOK
    <2> QED  BY <2>4, <2>7
<1>3. CASE JudgeFinishes(h)
    <2>1. PICK v \in Verdicts : Send(h, Reply(v, grading[h], {}, 0))
        BY <1>3 DEF JudgeFinishes
    <2>2. Reply(v, grading[h], {}, 0) \in FromJudgePacket
        <3>1. grading[h] \in Submission
            BY <1>3 DEF JudgeFinishes, BridgeTypeOK
        <3> QED  BY <3>1, ReplyType
    <2>3. fromJudge' \in [Handler -> Seq(FromJudgePacket)]
        BY <2>1, <2>2, SendType
    <2>4. ListInv'
        BY <1>3, ListUntouched DEF JudgeFinishes, handlerVars
    <2>5. BridgeTypeOK'
        BY <1>3, <2>3 DEF JudgeFinishes, handlerVars, historyVars, BridgeTypeOK
    <2> QED  BY <2>4, <2>5
<1>4. CASE JudgeTerminates(h)
    <2>1. toJudge' \in [Handler -> Seq(ToJudgePacket)]
        BY <1>4, ReceivedType DEF JudgeTerminates
    <2>2. fromJudge' \in [Handler -> Seq(FromJudgePacket)]
        <3>1. CASE grading[h] = NoSub
            BY <1>4, <3>1 DEF JudgeTerminates, BridgeTypeOK
        <3>2. CASE grading[h] # NoSub
            <4>1. Send(h, Reply("submission-terminated", grading[h], {}, 0))
                BY <1>4, <3>2 DEF JudgeTerminates
            <4>2. Reply("submission-terminated", grading[h], {}, 0) \in FromJudgePacket
                <5>1. grading[h] \in Submission
                    BY <3>2 DEF BridgeTypeOK
                <5> QED  BY <5>1, ReplyType
            <4> QED  BY <4>1, <4>2, SendType
        <3> QED  BY <3>1, <3>2
    <2>3. ListInv'
        BY <1>4, <2>1, OnlyPackets DEF JudgeTerminates
    <2>4. BridgeTypeOK'
        BY <1>4, <2>2 DEF JudgeTerminates, historyVars, BridgeTypeOK
    <2> QED  BY <2>3, <2>4
<1>5. CASE JudgeLeaves(h)
    <2>1. ListInv'
        BY <1>5, CutOffType, OnlyPackets DEF JudgeLeaves, Break
    <2>2. BridgeTypeOK'
        BY <1>5 DEF JudgeLeaves, Break, historyVars, BridgeTypeOK
    <2> QED  BY <2>1, <2>2
<1> QED  BY <1>1, <1>2, <1>3, <1>4, <1>5 DEF ExternalJudge

\* Every step preserves the invariant.
LEMMA NextBridgeInv == BridgeInv /\ [Next]_vars => BridgeInv'
<1> SUFFICES ASSUME BridgeInv, [Next]_vars PROVE BridgeInv'
    OBVIOUS
<1> USE DEF BridgeInv
<1>1. ASSUME NEW h \in Handler, HandlerThread(h) PROVE BridgeInv'
    BY <1>1, HandlerThreadInv
<1>2. ASSUME NEW h \in Handler, ExternalJudge(h) PROVE BridgeInv'
    BY <1>2, ExternalJudgeInv
<1>3. ASSUME NEW h \in Handler, ConnectionBreaks(h) PROVE BridgeInv'
    <2>1. ListInv'
        BY <1>3, CutOffType, OnlyPackets DEF ConnectionBreaks, Break
    <2>2. BridgeTypeOK'
        BY <1>3 DEF ConnectionBreaks, Break, historyVars, BridgeTypeOK
    <2> QED  BY <2>1, <2>2
<1>4. ASSUME NEW h \in Handler, NEW ps \in ProblemLists, Handshake(h, ps) PROVE BridgeInv'
    <2>1. ps \in SUBSET Problem
        BY BridgeAssumption
    <2>2. ListInv'
        BY <1>4, ListUntouched DEF Handshake
    <2>3. BridgeTypeOK'
        BY <1>4, <2>1 DEF Handshake, GoTo, Phases, judgeVars, historyVars, BridgeTypeOK
    <2> QED  BY <2>2, <2>3
<1>5. ASSUME NEW h \in Handler, NEW ps \in ProblemLists, JudgeReloads(h, ps) PROVE BridgeInv'
    <2>1. Reply("supported-problems", NoSub, ps, 0) \in FromJudgePacket
        BY BridgeAssumption, ReloadType
    <2>2. fromJudge' \in [Handler -> Seq(FromJudgePacket)]
        BY <1>5, <2>1, SendType DEF JudgeReloads
    <2>3. ListInv'
        BY <1>5, ListUntouched DEF JudgeReloads, handlerVars
    <2>4. BridgeTypeOK'
        BY <1>5, <2>2 DEF JudgeReloads, handlerVars, historyVars, BridgeTypeOK
    <2> QED  BY <2>3, <2>4
<1>6. ASSUME NEW r \in Requests, SubmissionRequest(r) PROVE BridgeInv'
    <2>1. r.id \in Submission /\ r.judge \in JudgeId /\ r.priority \in Priority
        BY BridgeAssumption
    <2>2. ListInv'
        BY <1>6, <2>1, JudgeInv DEF SubmissionRequest
    <2>3. BridgeTypeOK'
        BY <1>6, <2>1 DEF SubmissionRequest, Judge, listExternals, judgeVars, BridgeTypeOK
    <2> QED  BY <2>2, <2>3
<1>7. ASSUME NEW s \in Submission, TerminationRequest(s) PROVE BridgeInv'
    <2>1. ListInv'
        BY <1>7, AbortInv DEF TerminationRequest
    <2>2. BridgeTypeOK'
        BY <1>7 DEF TerminationRequest, Abort, listExternals, judgeVars, BridgeTypeOK
    <2> QED  BY <2>1, <2>2
<1>8. ASSUME NEW s \in Submission, DeleteRow(s) PROVE BridgeInv'
    <2>1. ListInv'
        BY <1>8, ListUntouched DEF DeleteRow, handlerVars
    <2>2. BridgeTypeOK'
        BY <1>8 DEF DeleteRow, handlerVars, judgeVars, historyVars, BridgeTypeOK
    <2> QED  BY <2>1, <2>2
<1>9. ASSUME NEW n \in Name, NEW force \in Forces, DisconnectRequest(n, force)
      PROVE  BridgeInv'
    <2>1. PICK done \in SUBSET Named(n) :
             /\ sock' = [h \in Handler |-> IF force /\ h \in done THEN "shut" ELSE sock[h]]
             /\ toJudge' = [h \in Handler |->
                   CASE h \in done /\ force -> <<>>
                     [] h \in done /\ ~force /\ sock[h] = "open"
                            -> Append(toJudge[h], Packet("disconnect", NoSub))
                     [] OTHER -> toJudge[h]]
             /\ UNCHANGED <<listVars, working, problems, rows>>
        BY <1>9 DEF DisconnectRequest, DisconnectJudges
    <2>2. toJudge' \in [Handler -> Seq(ToJudgePacket)]
        <3>1. Packet("disconnect", NoSub) \in ToJudgePacket
            BY DEF Packet, ToJudgePacket
        <3>2. ASSUME NEW h \in Handler
              PROVE  toJudge'[h] \in Seq(ToJudgePacket)
            <4>1. toJudge[h] \in Seq(ToJudgePacket) /\ <<>> \in Seq(ToJudgePacket)
                BY DEF ListInv, ListTypeOK
            <4>2. Append(toJudge[h], Packet("disconnect", NoSub)) \in Seq(ToJudgePacket)
                BY <3>1, <4>1, AppendProperties
            <4> QED  BY <2>1, <4>1, <4>2
        <3> QED  BY <2>1, <3>2
    <2>3. ListInv'
        BY <2>1, <2>2, OnlyPackets
    <2>4. sock' \in [Handler -> {"open", "broken", "shut"}]
        BY <2>1 DEF BridgeTypeOK
    <2>5. BridgeTypeOK'
        BY <1>9, <2>1, <2>4 DEF DisconnectRequest, historyVars, BridgeTypeOK
    <2> QED  BY <2>3, <2>5
<1>10. ASSUME UNCHANGED vars PROVE BridgeInv'
    <2>1. ListInv'
        BY <1>10, ListUntouched DEF vars, handlerVars
    <2>2. BridgeTypeOK'
        BY <1>10 DEF vars, handlerVars, judgeVars, historyVars, BridgeTypeOK
    <2> QED  BY <2>1, <2>2
<1> QED  BY <1>1, <1>2, <1>3, <1>4, <1>5, <1>6, <1>7, <1>8, <1>9, <1>10 DEF Next

-----------------------------------------------------------------------------
\* Every variable of the bridge keeps its type.
THEOREM TypeCorrect == Spec => []TypeOK
<1>1. Spec => []BridgeInv
    BY InitBridgeInv, NextBridgeInv, PTL DEF Spec
<1> QED  BY <1>1, BridgeInvImplies, PTL

\* The queue and node_map of judge_list.py always agree, whatever fails in between.
THEOREM QueueAlwaysConsistent == Spec => []QueueConsistent
<1>1. Spec => []BridgeInv
    BY InitBridgeInv, NextBridgeInv, PTL DEF Spec
<1> QED  BY <1>1, BridgeInvImplies, PTL

-----------------------------------------------------------------------------
(* No idle judge leaves work it could do, whatever fails.                  *)

\* A judge that could take a submission finds it in the queue.
LEMMA NothingEligible ==
    ASSUME QueueConsistent, NEW h \in Handler, Eligible(h) = {}, NEW s \in Submission
    PROVE  ~CanJudge(h, s, nodeMap[s])
<1> SUFFICES ASSUME CanJudge(h, s, nodeMap[s]) PROVE FALSE
    OBVIOUS
<1>1. nodeMap[s] # NoNode
    BY ConstantsAssumption DEF CanJudge, JudgeId
<1>2. PositionOf(s) \in DOMAIN queue /\ queue[PositionOf(s)] = s
    BY <1>1, PositionExists DEF Waiting
<1>3. PositionOf(s) \in Eligible(h)
    BY <1>2 DEF Eligible
<1> QED  BY <1>3

\* What h could take if its problems were ps and the nodes were nodes.
NoWork(h, ps, nodes) ==
    \A s \in Submission : ~(ProblemOf[s] \in ps /\ nodes[s] \in {AnyJudge, NameOf[h]})

\* A thread registers its judge after the handshake; a registered idle judge has looked
\* through the queue since the queue last grew.
LookInv ==
    /\ \A h \in judges : phase[h] # "new"
    /\ rows = Submission =>
          \A h \in judges :
             working[h] = NoSub /\ phase[h] # "updating" => NoWork(h, problems[h], nodeMap)

LEMMA LookInvImplies == BridgeInv /\ LookInv => WorkConserved
<1> SUFFICES ASSUME BridgeInv, LookInv, rows = Submission, NEW h \in judges, working[h] = NoSub,
                    phase[h] # "updating", NEW i \in Eligible(h)
             PROVE  FALSE
    BY DEF WorkConserved
<1>1. queue[i] \in Submission /\ CanJudge(h, queue[i], nodeMap[queue[i]])
    BY DEF Eligible
<1>2. NoWork(h, problems[h], nodeMap)
    BY DEF LookInv
<1> QED  BY <1>1, <1>2 DEF NoWork, CanJudge

\* Nodes only leave, and the judges in js that are idle by w had no work.
LEMMA FewerNodes ==
    ASSUME NEW h, NEW ps, NEW nodes, NEW less, NoWork(h, ps, nodes), h \in Handler,
           \A s \in Submission : less[s] \in {nodes[s], NoNode}
    PROVE  NoWork(h, ps, less)
<1>1. NoNode \notin {AnyJudge, NameOf[h]}
    BY ConstantsAssumption DEF JudgeId
<1> QED  BY <1>1 DEF NoWork

\* _handle_free_judge: h has nothing to look for afterwards, and the others have no more
\* than before.
LEMMA FreeLooks ==
    ASSUME ListInv, rows = Submission, NEW h \in Handler, NEW sm \in Map, NEW js \in SUBSET Handler,
           NEW w \in Work, HandleFreeJudge(h, sm, js, w)
    PROVE  /\ \A s \in Submission : nodeMap'[s] \in {nodeMap[s], NoNode}
           /\ judges' \subseteq js
           /\ \A f \in Handler \ {h} : working'[f] = w[f]
           /\ h \in judges' => working'[h] # NoSub \/ NoWork(h, problems[h], nodeMap)
<1>1. CASE /\ Eligible(h) = {} /\ judges' = js /\ working' = w /\ nodeMap' = nodeMap
    <2>1. NoWork(h, problems[h], nodeMap)
        BY <1>1, NothingEligible DEF ListInv, NoWork, CanJudge
    <2> QED  BY <1>1, <2>1
<1>2. ASSUME NEW i \in Eligible(h), NEW outcome \in Outcomes(h, queue[i]),
             Submit(h, queue[i], outcome, w), TakeOut(h, i, outcome, js)
      PROVE  /\ \A s \in Submission : nodeMap'[s] \in {nodeMap[s], NoNode}
             /\ judges' \subseteq js
             /\ \A f \in Handler \ {h} : working'[f] = w[f]
             /\ h \in judges' => working'[h] # NoSub
    <2>1. queue[i] \in Submission
        BY DEF Eligible
    <2>2. working' = w \/ working' = [w EXCEPT ![h] = queue[i]]
        BY <1>2 DEF Submit
    <2>3. \A f \in Handler \ {h} : working'[f] = w[f]
        BY <2>2 DEF Work
    <2>4. CASE outcome = "sent"
        <3>1. nodeMap' = [nodeMap EXCEPT ![queue[i]] = NoNode] /\ judges' = js
            BY <1>2, <2>4 DEF TakeOut
        <3>2. working' = [w EXCEPT ![h] = queue[i]]
            BY <1>2, <2>4 DEF Submit
        <3>3. working'[h] # NoSub
            BY <2>1, <3>2, ConstantsAssumption DEF Work
        <3>4. \A s \in Submission : nodeMap'[s] \in {nodeMap[s], NoNode}
            BY <3>1 DEF ListInv, ListTypeOK
        <3> QED  BY <2>3, <3>1, <3>3, <3>4
    <2>5. CASE outcome # "sent"
        <3>1. outcome # "vanished"
            BY <1>2, <2>1 DEF Outcomes
        <3>2. judges' = js \ {h} /\ nodeMap' = nodeMap
            BY <1>2, <2>5, <3>1 DEF TakeOut
        <3> QED  BY <2>3, <3>2
    <2> QED  BY <2>4, <2>5
<1> QED  BY <1>1, <1>2 DEF HandleFreeJudge

\* The steps in which one judge looks through the queue.
LEMMA OneLooks ==
    ASSUME BridgeInv, LookInv, NEW h \in Handler, phase[h] # "new", NEW sm \in Map,
           NEW js \in SUBSET Handler, NEW w \in Work, HandleFreeJudge(h, sm, js, w),
           \A f \in Handler \ {h} : w[f] = working[f] /\ (f \in js => f \in judges),
           \A f \in Handler \ {h} : phase'[f] = phase[f],
           phase'[h] # "new", UNCHANGED <<problems, rows>>
    PROVE  LookInv'
<1>0. judges' \subseteq js
    BY DEF HandleFreeJudge, TakeOut
<1>1. \A f \in judges' : phase'[f] # "new"
    <2> TAKE f \in judges'
    <2>1. f \in Handler /\ (f # h => f \in judges)
        BY <1>0
    <2> QED  BY <2>1 DEF LookInv
<1>2. ASSUME rows = Submission, NEW f \in judges', working'[f] = NoSub, phase'[f] # "updating"
      PROVE  NoWork(f, problems[f], nodeMap')
    <2>1. /\ \A s \in Submission : nodeMap'[s] \in {nodeMap[s], NoNode}
          /\ \A g \in Handler \ {h} : working'[g] = w[g]
          /\ h \in judges' => working'[h] # NoSub \/ NoWork(h, problems[h], nodeMap)
        <3>1. ListInv /\ rows = Submission
            BY <1>2 DEF BridgeInv
        <3> QED  BY <3>1, FreeLooks, h \in Handler, sm \in Map, js \in SUBSET Handler,
                         w \in Work, HandleFreeJudge(h, sm, js, w)
    <2>2. f \in Handler
        BY <1>0
    <2>3. NoWork(f, problems[f], nodeMap)
        <3>1. CASE f = h
            BY <1>2, <2>1, <3>1
        <3>2. CASE f # h
            <4>1. f \in judges /\ working[f] = NoSub /\ phase[f] # "updating"
                BY <1>0, <1>2, <2>1, <2>2, <3>2
            <4> QED  BY <1>2, <4>1 DEF LookInv
        <3> QED  BY <3>1, <3>2
    <2> QED  BY <2>1, <2>2, <2>3, FewerNodes
<1> QED  BY <1>1, <1>2 DEF LookInv

\* judge: a submission waits only if no idle judge can take it.
LEMMA JudgeLooks ==
    ASSUME BridgeInv, LookInv, NEW s \in Submission, NEW id \in JudgeId, NEW p \in Priority,
           Judge(s, id, p), \A f \in Handler : phase'[f] = phase[f] \/ phase'[f] = "gone",
           \A f \in Handler : phase[f] = "updating" => phase'[f] = "updating"
    PROVE  LookInv'
<1>0. UNCHANGED <<problems, rows>>
    BY DEF Judge, listExternals
<1>1. CASE Known(s) /\ UNCHANGED <<listVars, working, toJudge>>
    <2>1. UNCHANGED <<nodeMap, judges, working>>
        BY <1>1 DEF listVars
    <2>2. judges \subseteq Handler
        BY DEF BridgeInv, ListInv, ListTypeOK
    <2> QED  BY <1>0, <2>1, <2>2 DEF LookInv
<1>2. CASE /\ Candidates(s, id) = {}
           /\ nodeMap' = [nodeMap EXCEPT ![s] = id]
           /\ UNCHANGED <<judges, working>>
    <2>1. judges \subseteq Handler /\ nodeMap \in [Submission -> JudgeId \cup {NoNode}]
        BY DEF BridgeInv, ListInv, ListTypeOK
    <2>2. ASSUME rows = Submission, NEW f \in judges, working[f] = NoSub, phase[f] # "updating"
          PROVE  NoWork(f, problems[f], nodeMap')
        <3>1. ~CanJudge(f, s, id)
            BY <1>2, <2>2 DEF Candidates
        <3>2. NoWork(f, problems[f], nodeMap)
            BY <2>2 DEF LookInv
        <3>3. \A t \in Submission : nodeMap'[t] = IF t = s THEN id ELSE nodeMap[t]
            BY <1>2, <2>1
        <3> QED  BY <3>1, <3>2, <3>3 DEF NoWork, CanJudge
    <2> QED  BY <1>0, <1>2, <2>1, <2>2 DEF LookInv
<1>3. ASSUME NEW h \in Candidates(s, id), NEW outcome,
             Submit(h, s, outcome, working),
             judges' = IF outcome = "sent" THEN judges ELSE judges \ {h},
             nodeMap' = nodeMap
      PROVE  LookInv'
    <2>1. judges \subseteq Handler /\ working \in Work /\ h \in Handler
        BY DEF BridgeInv, ListInv, ListTypeOK, Candidates
    <2>2. working' = working \/ working' = [working EXCEPT ![h] = s]
        BY <1>3 DEF Submit
    <2>3. \A f \in judges' : f \in judges /\ (working'[f] = NoSub => working[f] = NoSub)
        <3> TAKE f \in judges'
        <3>1. f \in judges /\ f \in Handler
            BY <1>3, <2>1
        <3>2. s # NoSub
            BY ConstantsAssumption
        <3> QED  BY <2>1, <2>2, <3>1, <3>2 DEF Work
    <2> QED  BY <1>0, <1>3, <2>1, <2>3 DEF LookInv
<1> QED  BY <1>1, <1>2, <1>3 DEF Judge

\* The other steps: judges leave the set, nodes leave the queue, rows are deleted.
LEMMA QuietLooks ==
    ASSUME BridgeInv, LookInv, judges' \subseteq judges, rows' \subseteq rows,
           UNCHANGED <<working, nodeMap>>,
           \A f \in judges' : problems'[f] = problems[f] /\ phase'[f] # "new",
           \A f \in judges' : phase[f] = "updating" => phase'[f] = "updating"
    PROVE  LookInv'
<1>1. rows \subseteq Submission
    BY DEF BridgeInv, BridgeTypeOK
<1>2. ASSUME rows' = Submission, NEW f \in judges', working[f] = NoSub, phase'[f] # "updating"
      PROVE  NoWork(f, problems'[f], nodeMap)
    <2>1. rows = Submission /\ f \in judges /\ phase[f] # "updating" /\ problems'[f] = problems[f]
        BY <1>1, <1>2
    <2> QED  BY <1>2, <2>1 DEF LookInv
<1> QED  BY <1>2 DEF LookInv

\* The phase of one thread changes, to something that is neither "new" nor looked past.
LEMMA OneThread ==
    ASSUME BridgeTypeOK, NEW h \in Handler, NEW from, NEW to, from # "updating", to # "new",
           GoTo(h, from, to)
    PROVE  /\ \A f \in Handler : phase[f] # "new" => phase'[f] # "new"
           /\ \A f \in Handler : phase[f] = "updating" => phase'[f] = "updating"
BY DEF GoTo, BridgeTypeOK

LEMMA HandlerThreadLooks ==
    ASSUME BridgeInv, LookInv, NEW h \in Handler, HandlerThread(h)
    PROVE  LookInv'
<1>0. /\ BridgeTypeOK /\ ListInv /\ judges \in SUBSET Handler /\ working \in Work
      /\ submissionMap \in Map /\ phase \in [Handler -> Phases]
    BY DEF BridgeInv, BridgeTypeOK, ListInv, ListTypeOK
<1>1. ASSUME judges' \subseteq judges, UNCHANGED <<problems, rows, working, nodeMap>>,
             \A f \in Handler : phase[f] # "new" => phase'[f] # "new",
             \A f \in Handler : phase[f] = "updating" => phase'[f] = "updating"
      PROVE  LookInv'
    <2>1. /\ \A f \in judges' : problems'[f] = problems[f] /\ phase'[f] # "new"
          /\ \A f \in judges' : phase[f] = "updating" => phase'[f] = "updating"
        BY <1>0, <1>1 DEF LookInv
    <2> QED  BY <1>1, <2>1, QuietLooks
<1>2. CASE Register(h)
    <2>1. /\ phase[h] = "named" /\ phase' = [phase EXCEPT ![h] = "registered"]
          /\ HandleFreeJudge(h, submissionMap, judges \cup {h}, working)
          /\ UNCHANGED <<problems, rows>>
        BY <1>2 DEF Register, GoTo, RegisterJudge, listExternals
    <2>2. phase'[h] = "registered" /\ \A f \in Handler \ {h} : phase'[f] = phase[f]
        BY <1>0, <2>1
    <2>3. judges \cup {h} \in SUBSET Handler
        BY <1>0
    <2> QED  BY <1>0, <2>1, <2>2, <2>3, OneLooks
<1>3. CASE HandshakeFails(h)
    <2>1. GoTo(h, "named", "dropped") /\ UNCHANGED <<problems, rows, working, nodeMap, judges>>
        BY <1>3 DEF HandshakeFails, listVars, handlerVars
    <2> QED  BY <1>0, <1>1, <2>1, OneThread
<1>4. CASE Connected(h)
    <2>1. GoTo(h, "registered", "up") /\ UNCHANGED <<problems, rows, working, nodeMap, judges>>
        BY <1>4 DEF Connected, listVars, handlerVars
    <2> QED  BY <1>0, <1>1, <2>1, OneThread
<1>5. CASE HandleAcknowledged(h) \/ HandleProgress(h)
    <2>1. UNCHANGED <<problems, rows, working, nodeMap, judges, phase>>
        BY <1>5 DEF HandleAcknowledged, HandleProgress, listVars, handlerVars
    <2> QED  BY <1>1, <2>1
<1>6. CASE HandleFinal(h)
    <2> DEFINE s == Head(fromJudge[h]).id
               sm == [submissionMap EXCEPT ![s] = NoJudge]
               w == [working EXCEPT ![h] = NoSub]
    <2>1. phase[h] = "up" /\ phase' = phase /\ OnJudgeFree(h, s)
        BY <1>6 DEF HandleFinal
    <2>2. CASE UNCHANGED <<listVars, working, toJudge>>
        <3>1. UNCHANGED <<problems, rows, working, nodeMap, judges, phase>>
            BY <2>1, <2>2 DEF OnJudgeFree, listVars, listExternals
        <3> QED  BY <1>1, <3>1
    <2>3. CASE HandleFreeJudge(h, sm, judges, w)
        <3>1. sm \in Map /\ w \in Work /\ \A f \in Handler \ {h} : w[f] = working[f]
            BY <1>0 DEF Map, Work
        <3>2. UNCHANGED <<problems, rows>>
            BY <2>1 DEF OnJudgeFree, listExternals
        <3> HIDE DEF sm, w
        <3> QED  BY <1>0, <2>1, <2>3, <3>1, <3>2, OneLooks
    <2> QED  BY <2>1, <2>2, <2>3 DEF OnJudgeFree
<1>7. CASE HandleSupportedProblems(h)
    <2>1. /\ phase[h] = "up" /\ problems' = [problems EXCEPT ![h] = Head(fromJudge[h]).problems]
          /\ phase' = IF working[h] = NoSub THEN [phase EXCEPT ![h] = "updating"] ELSE phase
          /\ UNCHANGED <<rows, nodeMap, judges, working>>
        BY <1>7 DEF HandleSupportedProblems, listVars
    <2>2. \A f \in Handler \ {h} : problems'[f] = problems[f] /\ phase'[f] = phase[f]
        BY <1>0, <2>1 DEF BridgeTypeOK
    <2>3. phase'[h] # "new" /\ (working[h] = NoSub => phase'[h] = "updating")
        BY <1>0, <2>1
    <2>4. \A f \in judges : phase'[f] # "new"
        BY <1>0, <2>2, <2>3 DEF LookInv
    <2>5. ASSUME rows = Submission, NEW f \in judges, working[f] = NoSub, phase'[f] # "updating"
          PROVE  NoWork(f, problems'[f], nodeMap)
        <3>1. f # h /\ f \in Handler
            BY <1>0, <2>3, <2>5
        <3>2. phase[f] # "updating" /\ problems'[f] = problems[f]
            BY <2>2, <2>5, <3>1
        <3> QED  BY <2>5, <3>2 DEF LookInv
    <2> QED  BY <2>1, <2>4, <2>5 DEF LookInv
<1>8. CASE HandleUpdateProblems(h)
    <2>1. /\ phase[h] = "updating" /\ phase' = [phase EXCEPT ![h] = "up"]
          /\ HandleFreeJudge(h, submissionMap, judges, working)
          /\ UNCHANGED <<problems, rows>>
        BY <1>8 DEF HandleUpdateProblems, GoTo, UpdateProblems, listExternals
    <2>2. phase'[h] = "up" /\ \A f \in Handler \ {h} : phase'[f] = phase[f]
        BY <1>0, <2>1
    <2> QED  BY <1>0, <2>1, <2>2, OneLooks
<1>9. CASE EndOfStream(h)
    <2>1. GoTo(h, "up", "dropped") /\ UNCHANGED <<problems, rows, working, nodeMap, judges>>
        BY <1>9 DEF EndOfStream, listVars, handlerVars
    <2> QED  BY <1>0, <1>1, <2>1, OneThread
<1>10. CASE Unregister(h)
    <2>1. GoTo(h, "dropped", "removed") /\ UNCHANGED <<problems, rows, working, nodeMap>>
          /\ judges' = judges \ {h}
        BY <1>10 DEF Unregister, RemoveJudge, handlerVars
    <2> QED  BY <1>0, <1>1, <2>1, OneThread
<1>11. CASE Disconnected(h)
    <2>1. PICK to \in {"offline", "gone"} : GoTo(h, "removed", to)
        BY <1>11 DEF Disconnected
    <2>2. UNCHANGED <<problems, rows, working, nodeMap, judges>>
        BY <1>11 DEF Disconnected, listVars, handlerVars
    <2> QED  BY <1>0, <1>1, <2>1, <2>2, OneThread
<1>12. CASE Requeue(h)
    <2>1. GoTo(h, "offline", "gone")
        BY <1>12 DEF Requeue
    <2>2. /\ \A f \in Handler : phase'[f] = phase[f] \/ phase'[f] = "gone"
          /\ \A f \in Handler : phase[f] = "updating" => phase'[f] = "updating"
        BY <1>0, <2>1 DEF GoTo
    <2>3. CASE working[h] = NoSub
        <3>1. UNCHANGED <<problems, rows, working, nodeMap, judges>>
            BY <1>12, <2>3 DEF Requeue, listVars, handlerVars
        <3> QED  BY <1>0, <1>1, <2>1, <3>1, OneThread
    <2>4. CASE working[h] # NoSub
        <3>1. Judge(working[h], AnyJudge, 0) /\ working[h] \in Submission
            BY <1>0, <1>12, <2>4 DEF Requeue, Work
        <3>2. AnyJudge \in JudgeId /\ 0 \in Priority
            BY ConstantsAssumption DEF JudgeId, Priority
        <3> QED  BY <2>2, <3>1, <3>2, JudgeLooks
    <2> QED  BY <2>3, <2>4
<1> QED  BY <1>2, <1>3, <1>4, <1>5, <1>6, <1>7, <1>8, <1>9, <1>10, <1>11, <1>12 DEF HandlerThread

\* Every step preserves LookInv.
LEMMA NextLookInv == BridgeInv /\ LookInv /\ [Next]_vars => LookInv'
<1> SUFFICES ASSUME BridgeInv, LookInv, [Next]_vars PROVE LookInv'
    OBVIOUS
<1>0. /\ BridgeTypeOK /\ judges \in SUBSET Handler /\ phase \in [Handler -> Phases]
      /\ problems \in [Handler -> SUBSET Problem] /\ rows \in SUBSET Submission
      /\ nodeMap \in [Submission -> JudgeId \cup {NoNode}]
    BY DEF BridgeInv, BridgeTypeOK, ListInv, ListTypeOK
<1>1. ASSUME UNCHANGED <<problems, working, nodeMap, judges, phase>>, rows' \subseteq rows
      PROVE  LookInv'
    <2>1. \A f \in judges' : problems'[f] = problems[f] /\ phase'[f] # "new"
        BY <1>1 DEF LookInv
    <2> QED  BY <1>1, <2>1, QuietLooks
<1>2. ASSUME NEW h \in Handler, ExternalJudge(h) \/ ConnectionBreaks(h) PROVE LookInv'
    <2>1. UNCHANGED <<problems, working, nodeMap, judges, phase, rows>>
        BY <1>2 DEF ExternalJudge, JudgeStarts, JudgeProgresses, JudgeFinishes, JudgeTerminates,
                    JudgeLeaves, ConnectionBreaks, Break, Received, listVars, handlerVars
    <2> QED  BY <1>1, <2>1
<1>3. ASSUME NEW h \in Handler, NEW ps \in ProblemLists, Handshake(h, ps) PROVE LookInv'
    <2>1. /\ phase[h] = "new" /\ phase' = [phase EXCEPT ![h] = "named"]
          /\ problems' = [problems EXCEPT ![h] = ps]
          /\ UNCHANGED <<rows, nodeMap, judges, working>>
        BY <1>3 DEF Handshake, GoTo, listVars
    <2>2. \A f \in judges : f # h /\ f \in Handler /\ phase[f] # "new"
        BY <1>0, <2>1 DEF LookInv
    <2>3. \A f \in Handler \ {h} : problems'[f] = problems[f] /\ phase'[f] = phase[f]
        BY <1>0, <2>1
    <2> QED  BY <2>1, <2>2, <2>3, QuietLooks
<1>4. ASSUME NEW h \in Handler, NEW ps \in ProblemLists, JudgeReloads(h, ps) PROVE LookInv'
    <2>1. UNCHANGED <<problems, working, nodeMap, judges, phase, rows>>
        BY <1>4 DEF JudgeReloads, listVars, handlerVars
    <2> QED  BY <1>1, <2>1
<1>5. ASSUME NEW r \in Requests, SubmissionRequest(r) PROVE LookInv'
    <2>1. r.id \in Submission /\ r.judge \in JudgeId /\ r.priority \in Priority
        BY BridgeAssumption
    <2>2. Judge(r.id, r.judge, r.priority) /\ phase' = phase
        BY <1>5 DEF SubmissionRequest
    <2> QED  BY <2>1, <2>2, JudgeLooks
<1>6. ASSUME NEW s \in Submission, TerminationRequest(s) PROVE LookInv'
    <2>1. Abort(s) /\ phase' = phase
        BY <1>6 DEF TerminationRequest
    <2>2. /\ UNCHANGED <<problems, rows, working, judges>>
          /\ nodeMap' = nodeMap \/ nodeMap' = [nodeMap EXCEPT ![s] = NoNode]
        BY <2>1 DEF Abort, listExternals
    <2>3. \A t \in Submission : nodeMap'[t] \in {nodeMap[t], NoNode}
        BY <1>0, <2>2
    <2>4. \A f \in judges : f \in Handler
        BY <1>0
    <2>5. ASSUME rows = Submission, NEW f \in judges, working[f] = NoSub, phase[f] # "updating"
          PROVE  NoWork(f, problems[f], nodeMap')
        <3>1. NoWork(f, problems[f], nodeMap)
            BY <2>5 DEF LookInv
        <3> QED  BY <2>3, <2>4, <3>1, FewerNodes
    <2> QED  BY <2>1, <2>2, <2>5 DEF LookInv
<1>7. ASSUME NEW s \in Submission, DeleteRow(s) PROVE LookInv'
    <2>1. UNCHANGED <<problems, working, nodeMap, judges, phase>> /\ rows' \subseteq rows
        BY <1>7 DEF DeleteRow, listVars, handlerVars
    <2> QED  BY <1>1, <2>1
<1>8. ASSUME NEW n \in Name, NEW force \in Forces, DisconnectRequest(n, force) PROVE LookInv'
    <2>1. UNCHANGED <<problems, working, nodeMap, judges, phase, rows>>
        BY <1>8 DEF DisconnectRequest, DisconnectJudges, listVars
    <2> QED  BY <1>1, <2>1
<1>9. ASSUME UNCHANGED vars PROVE LookInv'
    <2>1. UNCHANGED <<problems, working, nodeMap, judges, phase, rows>>
        BY <1>9 DEF vars, listVars, handlerVars
    <2> QED  BY <1>1, <2>1
<1> QED  BY <1>2, <1>3, <1>4, <1>5, <1>6, <1>7, <1>8, <1>9, HandlerThreadLooks DEF Next

\* As long as no submission whose row has vanished was dispatched, no registered idle judge
\* leaves work it could do in the queue, whatever else fails: a dispatch that fails takes
\* the judge out of the set.
THEOREM WorkAlwaysConserved == Spec => []WorkConserved
<1>1. Init => BridgeInv /\ LookInv
    BY InitBridgeInv DEF Init, ListInit, LookInv
<1>2. BridgeInv /\ LookInv /\ [Next]_vars => (BridgeInv /\ LookInv)'
    BY NextBridgeInv, NextLookInv
<1>3. BridgeInv /\ LookInv => WorkConserved
    BY LookInvImplies
<1> QED  BY <1>1, <1>2, <1>3, PTL DEF Spec
=============================================================================
