--------------------------- MODULE DispatcherProofs ---------------------------
(***************************************************************************)
(* What TLAPS proves of DispatcherRefinement: as long as no call fails,    *)
(* the bridge implements the abstract dispatcher, whatever the judges and  *)
(* the connections do.                                                     *)
(***************************************************************************)
EXTENDS DispatcherRefinement, NoFailureProofs, WellFoundedInduction

-----------------------------------------------------------------------------
(* The lines of a queue.                                                   *)

\* Every marker has its place, and the places are ordered as the priorities are.
LEMMA MarkerPlaces ==
    ASSUME NEW q \in Seq(QueueItem), NEW w \in SUBSET Submission, IsQueueOf(q, w)
    PROVE  /\ Len(q) \in Nat /\ DOMAIN q = 1 .. Len(q)
           /\ \A p \in Priority : PositionIn(q, p) \in 1 .. Len(q) /\ q[PositionIn(q, p)] = p
           /\ \A i \in 1 .. Len(q) : q[i] \in Priority => PositionIn(q, q[i]) = i
           /\ \A p, r \in Priority : p < r => PositionIn(q, p) < PositionIn(q, r)
           /\ Priorities - 1 \in Priority /\ PositionIn(q, Priorities - 1) = Len(q)
<1>1. Len(q) \in Nat /\ DOMAIN q = 1 .. Len(q)
    BY LenProperties
<1>2. ASSUME NEW p \in Priority
      PROVE  PositionIn(q, p) \in 1 .. Len(q) /\ q[PositionIn(q, p)] = p
    <2>1. \E i \in DOMAIN q : q[i] = p
        BY DEF IsQueueOf
    <2>2. PositionIn(q, p) \in DOMAIN q /\ q[PositionIn(q, p)] = p
        BY <2>1 DEF PositionIn
    <2> QED  BY <1>1, <2>2
<1>3. ASSUME NEW i \in 1 .. Len(q), q[i] \in Priority
      PROVE  PositionIn(q, q[i]) = i
    <2>1. q[PositionIn(q, q[i])] = q[i] /\ PositionIn(q, q[i]) \in DOMAIN q /\ i \in DOMAIN q
        BY <1>1, <1>2, <1>3
    <2> QED  BY <2>1 DEF IsQueueOf
<1>4. ASSUME NEW p \in Priority, NEW r \in Priority, p < r
      PROVE  PositionIn(q, p) < PositionIn(q, r)
    <2> DEFINE i == PositionIn(q, p)
               j == PositionIn(q, r)
    <2>1. i \in 1 .. Len(q) /\ j \in 1 .. Len(q) /\ q[i] = p /\ q[j] = r
        BY <1>2
    <2> HIDE DEF i, j
    <2>2. p \in Int /\ r \in Int
        BY ConstantsAssumption DEF Priority
    <2>3. i # j
        BY <1>4, <2>1, <2>2
    <2>4. ~(j < i)
        <3> SUFFICES ASSUME j < i PROVE FALSE
            OBVIOUS
        <3>1. i \in DOMAIN q /\ j \in DOMAIN q /\ q[i] \in Priority /\ q[j] \in Priority
            BY <1>1, <2>1
        <3>2. q[j] < q[i]
            BY <3>1 DEF IsQueueOf
        <3> QED  BY <1>4, <2>1, <2>2, <3>2
    <2>5. i < j
        BY <1>1, <2>1, <2>3, <2>4
    <2> QED  BY <2>5 DEF i, j
<1>5. Priorities - 1 \in Priority
    BY ConstantsAssumption DEF Priority
<1>6. q[Len(q)] = Priorities - 1 /\ Len(q) \in 1 .. Len(q)
    BY <1>1, <1>2, <1>5 DEF IsQueueOf
<1>7. PositionIn(q, Priorities - 1) = Len(q)
    BY <1>3, <1>5, <1>6
<1> QED  BY <1>1, <1>2, <1>3, <1>4, <1>5, <1>7

\* A line begins after the marker of the priority before it.
LEMMA LineStarts ==
    ASSUME NEW q \in Seq(QueueItem), NEW w \in SUBSET Submission, IsQueueOf(q, w)
    PROVE  /\ \A p \in Priority : StartOf(q, p) \in Nat /\ StartOf(q, p) < PositionIn(q, p)
           /\ \A p, r \in Priority : p < r => PositionIn(q, p) <= StartOf(q, r)
<1>0. /\ \A p \in Priority : PositionIn(q, p) \in 1 .. Len(q)
      /\ \A p, r \in Priority : p < r => PositionIn(q, p) < PositionIn(q, r)
      /\ Len(q) \in Nat
    BY MarkerPlaces
<1>1. \A p \in Priority : p \in Nat /\ p < Priorities /\ (p # 0 => p - 1 \in Priority)
    BY ConstantsAssumption DEF Priority
<1>2. ASSUME NEW p \in Priority
      PROVE  StartOf(q, p) \in Nat /\ StartOf(q, p) < PositionIn(q, p)
    <2>1. CASE p = 0
        <3>1. StartOf(q, p) = 0
            BY <2>1 DEF StartOf
        <3> QED  BY <1>0, <3>1
    <2>2. CASE p # 0
        <3>1. StartOf(q, p) = PositionIn(q, p - 1)
            BY <2>2 DEF StartOf
        <3>2. p - 1 \in Priority /\ p - 1 < p
            BY <1>1, <2>2
        <3>3. PositionIn(q, p - 1) \in 1 .. Len(q) /\ PositionIn(q, p - 1) < PositionIn(q, p)
            BY <1>0, <3>2
        <3> QED  BY <1>0, <3>1, <3>3
    <2> QED  BY <2>1, <2>2
<1>3. ASSUME NEW p \in Priority, NEW r \in Priority, p < r
      PROVE  PositionIn(q, p) <= StartOf(q, r)
    <2>1. r # 0 /\ r - 1 \in Priority /\ (p = r - 1 \/ p < r - 1)
        BY <1>1, <1>3
    <2>2. StartOf(q, r) = PositionIn(q, r - 1)
        BY <2>1 DEF StartOf
    <2>3. p < r - 1 => PositionIn(q, p) < PositionIn(q, r - 1)
        BY <1>0, <2>1
    <2>4. PositionIn(q, p) \in Nat /\ PositionIn(q, r - 1) \in Nat
        BY <1>0, <2>1
    <2> QED  BY <2>1, <2>2, <2>3, <2>4
<1> QED  BY <1>2, <1>3

\* No marker stands between the first and the last of a line.
LEMMA LineEntries ==
    ASSUME NEW q \in Seq(QueueItem), NEW w \in SUBSET Submission, IsQueueOf(q, w),
           NEW p \in Priority
    PROVE  /\ LineOf(q, p) \in Seq(Submission)
           /\ Len(LineOf(q, p)) = PositionIn(q, p) - 1 - StartOf(q, p)
           /\ DOMAIN LineOf(q, p) = 1 .. PositionIn(q, p) - 1 - StartOf(q, p)
           /\ \A k \in 1 .. PositionIn(q, p) - 1 - StartOf(q, p) :
                 /\ LineOf(q, p)[k] = q[StartOf(q, p) + k] /\ LineOf(q, p)[k] \in w
                 /\ StartOf(q, p) + k \in 1 .. Len(q)
<1> DEFINE a == StartOf(q, p)
           b == PositionIn(q, p)
<1>1. /\ Len(q) \in Nat /\ DOMAIN q = 1 .. Len(q)
      /\ a \in Nat /\ b \in 1 .. Len(q) /\ a < b
    BY MarkerPlaces, LineStarts
<1>2. ASSUME NEW i \in a + 1 .. b - 1
      PROVE  i \in 1 .. Len(q) /\ q[i] \in w
    <2>1. i \in 1 .. Len(q) /\ a < i /\ i < b
        BY <1>1
    <2>2. q[i] \notin Priority
        <3> SUFFICES ASSUME NEW r \in Priority, r = q[i] PROVE FALSE
            OBVIOUS
        <3>1. PositionIn(q, r) = i
            BY <2>1, MarkerPlaces
        <3>2. p \in Int /\ r \in Int
            BY ConstantsAssumption DEF Priority
        <3>3. ~(p < r)
            <4>1. p < r => b < i
                BY <3>1, MarkerPlaces
            <4> QED  BY <1>1, <2>1, <4>1
        <3>4. ~(r < p)
            <4>1. r < p => i <= a
                BY <3>1, LineStarts
            <4> QED  BY <1>1, <2>1, <4>1
        <3>5. r = p
            BY <3>2, <3>3, <3>4
        <3> QED  BY <1>1, <2>1, <3>1, <3>5
    <2>3. q[i] \in Priority \cup w
        BY <1>1, <2>1 DEF IsQueueOf
    <2> QED  BY <2>1, <2>2, <2>3
<1> HIDE DEF a, b
<1>3. /\ SubSeq(q, a + 1, b - 1) \in Seq(Submission)
      /\ Len(SubSeq(q, a + 1, b - 1)) = b - 1 - a
      /\ \A k \in 1 .. b - 1 - a : SubSeq(q, a + 1, b - 1)[k] = q[a + k]
    <2>1. a + 1 \in Int /\ b - 1 \in Int
        BY <1>1
    <2>2. \A i \in a + 1 .. b - 1 : q[i] \in Submission
        BY <1>2
    <2>3. /\ SubSeq(q, a + 1, b - 1) \in Seq(Submission)
          /\ Len(SubSeq(q, a + 1, b - 1)) =
                IF a + 1 <= b - 1 THEN b - 1 - (a + 1) + 1 ELSE 0
          /\ \A k \in 1 .. b - 1 - (a + 1) + 1 :
                SubSeq(q, a + 1, b - 1)[k] = q[a + 1 + k - 1]
        BY <2>1, <2>2, SubSeqProperties
    <2>5. Len(SubSeq(q, a + 1, b - 1)) = b - 1 - a
        BY <1>1, <2>3
    <2>6. ASSUME NEW k \in 1 .. b - 1 - a
          PROVE  SubSeq(q, a + 1, b - 1)[k] = q[a + k]
        <3>1. k \in 1 .. b - 1 - (a + 1) + 1 /\ a + 1 + k - 1 = a + k
            BY <1>1
        <3>2. SubSeq(q, a + 1, b - 1)[k] = q[a + 1 + k - 1]
            BY <2>3, <3>1
        <3> QED  BY <3>1, <3>2
    <2> QED  BY <2>3, <2>5, <2>6
<1>4. LineOf(q, p) = SubSeq(q, a + 1, b - 1)
    BY DEF LineOf, a, b
<1>5. DOMAIN SubSeq(q, a + 1, b - 1) = 1 .. b - 1 - a
    BY <1>3, LenProperties
<1>6. ASSUME NEW k \in 1 .. b - 1 - a
      PROVE  a + k \in 1 .. Len(q) /\ q[a + k] \in w
    <2>1. a + k \in a + 1 .. b - 1
        BY <1>1
    <2> QED  BY <1>2, <2>1
<1> QED  BY <1>3, <1>4, <1>5, <1>6 DEF a, b

\* Every submission that waits stands in a line.
LEMMA StandsInLine ==
    ASSUME NEW q \in Seq(QueueItem), NEW w \in SUBSET Submission, IsQueueOf(q, w),
           NEW i \in DOMAIN q, q[i] \in Submission
    PROVE  \E p \in Priority : \E k \in DOMAIN LineOf(q, p) :
              i = StartOf(q, p) + k /\ LineOf(q, p)[k] = q[i]
<1>1. /\ Len(q) \in Nat /\ DOMAIN q = 1 .. Len(q) /\ i \in 1 .. Len(q)
      /\ \A p \in Priority : PositionIn(q, p) \in 1 .. Len(q) /\ q[PositionIn(q, p)] = p
      /\ Priorities - 1 \in Priority /\ PositionIn(q, Priorities - 1) = Len(q)
    BY MarkerPlaces
<1>2. \A p \in Priority : PositionIn(q, p) # i /\ p \in Nat
    BY <1>1, ConstantsAssumption DEF Priority
<1> DEFINE T == {p \in Priority : i < PositionIn(q, p)}
<1>3. Priorities - 1 \in T /\ T \subseteq Nat
    <2>1. i # Len(q)
        BY <1>1, <1>2
    <2> QED  BY <1>1, <1>2, <2>1
<1>4. PICK p \in T : \A r \in T : ~(r < p)
    <2> HIDE DEF T
    <2>1. \E x \in T : \A y \in T : <<y, x>> \notin OpToRel(<, Nat)
        BY <1>3, NatLessThanWellFounded, WFMin
    <2> QED  BY <1>3, <2>1 DEF OpToRel
<1>5. StartOf(q, p) < i
    <2>1. CASE p = 0
        BY <1>1, <2>1 DEF StartOf
    <2>2. CASE p # 0
        <3>1. p - 1 \in Priority /\ p - 1 < p
            BY <2>2, ConstantsAssumption DEF Priority
        <3>2. p - 1 \notin T
            BY <1>4, <3>1
        <3>3. ~(i < PositionIn(q, p - 1)) /\ PositionIn(q, p - 1) # i
            BY <1>2, <3>1, <3>2
        <3>4. PositionIn(q, p - 1) < i
            BY <1>1, <3>1, <3>3
        <3> QED  BY <2>2, <3>4 DEF StartOf
    <2> QED  BY <2>1, <2>2
<1> DEFINE k == i - StartOf(q, p)
<1>6. StartOf(q, p) \in Nat /\ PositionIn(q, p) \in Nat /\ i < PositionIn(q, p)
    BY <1>1, LineStarts
<1>7. k \in 1 .. PositionIn(q, p) - 1 - StartOf(q, p) /\ i = StartOf(q, p) + k
    BY <1>1, <1>5, <1>6
<1> HIDE DEF k, T
<1>8. k \in DOMAIN LineOf(q, p) /\ LineOf(q, p)[k] = q[StartOf(q, p) + k]
    <2>1. p \in Priority
        BY <1>4 DEF T
    <2> QED  BY <1>7, <2>1, LineEntries
<1>9. p \in Priority
    BY <1>4 DEF T
<1> QED  BY <1>7, <1>8, <1>9

-----------------------------------------------------------------------------
(* What the list operations do to the lines.                               *)

\* A sequence that agrees with the queue between the two markers is the line.
LEMMA LineIs ==
    ASSUME NEW q \in Seq(QueueItem), NEW w \in SUBSET Submission, IsQueueOf(q, w),
           NEW p \in Priority, NEW l \in Seq(Submission),
           Len(l) = PositionIn(q, p) - 1 - StartOf(q, p),
           \A k \in 1 .. Len(l) : l[k] = q[StartOf(q, p) + k]
    PROVE  LineOf(q, p) = l
<1>1. /\ LineOf(q, p) \in Seq(Submission)
      /\ Len(LineOf(q, p)) = Len(l)
      /\ \A k \in 1 .. Len(l) : LineOf(q, p)[k] = l[k]
    BY LineEntries
<1> HIDE DEF LineOf
<1> QED  BY <1>1, SeqEqual

\* insert: the submission becomes the last of its line.
LEMMA InsertLine ==
    ASSUME NEW q \in Seq(QueueItem), NEW w \in SUBSET Submission, IsQueueOf(q, w),
           NEW p \in Priority, NEW s \in Submission \ w, NEW r \in Priority
    PROVE  LineOf(InsertAt(q, PositionIn(q, p), s), r) =
              IF r = p THEN Append(LineOf(q, p), s) ELSE LineOf(q, r)
<1> DEFINE n == Len(q)
           i == PositionIn(q, p)
           t == InsertAt(q, i, s)
<1>1. /\ n \in Nat /\ DOMAIN q = 1 .. n /\ i \in 1 .. n /\ q[i] = p /\ s \in QueueItem
      /\ \A x \in Priority : PositionIn(q, x) \in 1 .. n /\ q[PositionIn(q, x)] = x
    BY MarkerPlaces DEF QueueItem
<1>2. t \in Seq(QueueItem) /\ IsQueueOf(t, w \cup {s}) /\ w \cup {s} \in SUBSET Submission
    BY <1>1, InsertKeepsQueue
<1>3. /\ Len(t) = n + 1
      /\ \A k \in 1 .. n + 1 : t[k] = IF k < i THEN q[k] ELSE IF k = i THEN s ELSE q[k - 1]
    <2> HIDE DEF i
    <2>1. /\ Len(InsertAt(q, i, s)) = Len(q) + 1
          /\ \A k \in 1 .. Len(q) + 1 : InsertAt(q, i, s)[k] =
                IF k < i THEN q[k] ELSE IF k = i THEN s ELSE q[k - 1]
        <3> HIDE DEF n, t
        <3>1. i \in 1 .. Len(q)
            BY <1>1 DEF n
        <3>2. s \in QueueItem
            BY <1>1
        <3> QED  BY <3>1, <3>2, InsertAtProperties
    <2> QED  BY <2>1 DEF n, t
<1> HIDE DEF t, n, i
<1>4. ASSUME NEW x \in Priority
      PROVE  PositionIn(t, x) = IF x < p THEN PositionIn(q, x) ELSE PositionIn(q, x) + 1
    <2> DEFINE j == PositionIn(q, x)
               k == IF x < p THEN j ELSE j + 1
    <2>1. j \in 1 .. n /\ q[j] = x
        BY <1>1
    <2>2. x \in Int /\ p \in Int
        BY ConstantsAssumption DEF Priority
    <2>3. (x < p => j < i) /\ (p < x => i < j)
        BY MarkerPlaces DEF i
    <2>4. x = p => j = i
        BY DEF i
    <2> HIDE DEF j
    <2>5. k \in 1 .. n + 1 /\ t[k] = x
        <3>1. CASE x < p
            <4>1. j < i /\ k = j /\ k \in 1 .. n + 1 /\ k < i
                BY <1>1, <2>1, <2>3, <3>1
            <4> HIDE DEF k
            <4>2. t[k] = q[k]
                BY <1>3, <4>1
            <4> QED  BY <2>1, <4>1, <4>2
        <3>2. CASE ~(x < p)
            <4>1. /\ k = j + 1 /\ k \in 1 .. n + 1 /\ ~(k < i) /\ k # i /\ k - 1 = j
                BY <1>1, <2>1, <2>2, <2>3, <2>4, <3>2
            <4> HIDE DEF k
            <4>2. t[k] = q[k - 1]
                BY <1>3, <4>1
            <4> QED  BY <2>1, <4>1, <4>2
        <3> QED  BY <3>1, <3>2
    <2> HIDE DEF k
    <2>6. PositionIn(t, t[k]) = k
        BY <1>2, <1>3, <2>5, MarkerPlaces
    <2> QED  BY <2>5, <2>6 DEF k, j
<1>5. StartOf(t, r) = IF r <= p THEN StartOf(q, r) ELSE StartOf(q, r) + 1
    <2>1. r \in Nat /\ p \in Nat /\ (r # 0 => r - 1 \in Priority)
        BY ConstantsAssumption DEF Priority
    <2>2. CASE r = 0
        BY <2>1, <2>2 DEF StartOf
    <2>3. CASE r # 0
        <3>1. PositionIn(t, r - 1) =
                 IF r - 1 < p THEN PositionIn(q, r - 1) ELSE PositionIn(q, r - 1) + 1
            BY <1>4, <2>1, <2>3
        <3>2. r - 1 < p <=> r <= p
            BY <2>1
        <3> QED  BY <2>3, <3>1, <3>2 DEF StartOf
    <2> QED  BY <2>2, <2>3
<1>6. /\ StartOf(q, r) \in Nat /\ PositionIn(q, r) \in 1 .. n /\ StartOf(q, r) < PositionIn(q, r)
      /\ (r < p => PositionIn(q, r) < i) /\ (p < r => i <= StartOf(q, r))
      /\ r \in Int /\ p \in Int
    BY <1>1, MarkerPlaces, LineStarts, ConstantsAssumption DEF i, Priority
<1>7. /\ LineOf(q, r) \in Seq(Submission)
      /\ Len(LineOf(q, r)) = PositionIn(q, r) - 1 - StartOf(q, r)
      /\ \A k \in 1 .. PositionIn(q, r) - 1 - StartOf(q, r) :
            LineOf(q, r)[k] = q[StartOf(q, r) + k]
    BY LineEntries
<1>8. CASE r < p
    <2>1. PositionIn(t, r) = PositionIn(q, r) /\ StartOf(t, r) = StartOf(q, r) /\ r # p
        BY <1>4, <1>5, <1>6, <1>8
    <2>2. ASSUME NEW k \in 1 .. PositionIn(q, r) - 1 - StartOf(q, r)
          PROVE  t[StartOf(t, r) + k] = q[StartOf(q, r) + k]
        <3> DEFINE m == StartOf(q, r) + k
        <3>1. m \in 1 .. n + 1 /\ m < i
            BY <1>1, <1>6, <1>8
        <3> HIDE DEF m
        <3>2. t[m] = q[m]
            BY <1>3, <3>1
        <3> QED  BY <2>1, <3>2 DEF m
    <2>3. LineOf(t, r) = LineOf(q, r)
        BY <1>2, <1>7, <2>1, <2>2, LineIs
    <2> QED  BY <2>1, <2>3 DEF t, i
<1>9. CASE p < r
    <2>1. PositionIn(t, r) = PositionIn(q, r) + 1 /\ StartOf(t, r) = StartOf(q, r) + 1 /\ r # p
        BY <1>4, <1>5, <1>6, <1>9
    <2>2. ASSUME NEW k \in 1 .. PositionIn(q, r) - 1 - StartOf(q, r)
          PROVE  t[StartOf(t, r) + k] = q[StartOf(q, r) + k]
        <3> DEFINE m == StartOf(q, r) + 1 + k
        <3>1. m \in 1 .. n + 1 /\ ~(m < i) /\ m # i /\ m - 1 = StartOf(q, r) + k
            BY <1>1, <1>6, <1>9
        <3> HIDE DEF m
        <3>2. t[m] = q[m - 1]
            BY <1>3, <3>1
        <3> QED  BY <2>1, <3>1, <3>2 DEF m
    <2>3. PositionIn(t, r) - 1 - StartOf(t, r) = PositionIn(q, r) - 1 - StartOf(q, r)
        BY <1>6, <2>1
    <2>4. LineOf(t, r) = LineOf(q, r)
        BY <1>2, <1>7, <2>2, <2>3, LineIs
    <2> QED  BY <2>1, <2>4 DEF t, i
<1>10. CASE r = p
    <2> DEFINE a == StartOf(q, p)
               l == Append(LineOf(q, p), s)
    <2>1. /\ PositionIn(t, p) = i + 1 /\ StartOf(t, p) = a
          /\ a \in Nat /\ a < i
        BY <1>4, <1>5, <1>6, <1>10 DEF i
    <2>2. /\ l \in Seq(Submission) /\ Len(l) = i - a /\ l[i - a] = s
          /\ \A k \in 1 .. i - 1 - a : l[k] = q[a + k]
        <3> DEFINE m == LineOf(q, p)
        <3>1. /\ m \in Seq(Submission) /\ Len(m) = i - 1 - a
              /\ \A k \in 1 .. i - 1 - a : m[k] = q[a + k]
            BY <1>7, <1>10 DEF i
        <3> HIDE DEF m, a
        <3>2. /\ Len(Append(m, s)) = Len(m) + 1 /\ Append(m, s)[Len(m) + 1] = s
              /\ Append(m, s) \in Seq(Submission)
              /\ \A k \in 1 .. Len(m) : Append(m, s)[k] = m[k]
            BY <3>1, Appended
        <3>3. Len(m) + 1 = i - a
            BY <1>1, <2>1, <3>1
        <3>4. l = Append(m, s)
            BY DEF m
        <3> HIDE DEF l
        <3> QED  BY <3>1, <3>2, <3>3, <3>4
    <2> HIDE DEF a, l
    <2>3. ASSUME NEW k \in 1 .. i - a
          PROVE  l[k] = t[a + k]
        <3>1. a + k \in 1 .. n + 1 /\ a + k <= i /\ (k # i - a => a + k < i /\ k \in 1 .. i - 1 - a)
            BY <1>1, <2>1
        <3>2. CASE k = i - a
            <4>1. a + k = i /\ ~(i < i)
                BY <1>1, <2>1, <3>2
            <4> QED  BY <1>3, <2>2, <3>1, <3>2, <4>1
        <3>3. CASE k # i - a
            BY <1>3, <2>2, <3>1, <3>3
        <3> QED  BY <3>2, <3>3
    <2>4. PositionIn(t, p) - 1 - StartOf(t, p) = i - a
        BY <1>1, <2>1
    <2>5. LineOf(t, p) = l
        BY <1>2, <2>1, <2>2, <2>3, <2>4, LineIs
    <2> QED  BY <1>10, <2>5 DEF t, i, l
<1> QED  BY <1>6, <1>8, <1>9, <1>10

\* remove: the submissions behind it in its line move up.
LEMMA RemoveLine ==
    ASSUME NEW q \in Seq(QueueItem), NEW w \in SUBSET Submission, IsQueueOf(q, w),
           NEW p \in Priority, NEW c \in DOMAIN LineOf(q, p), NEW r \in Priority
    PROVE  LineOf(RemoveAt(q, StartOf(q, p) + c), r) =
              IF r = p THEN RemoveAt(LineOf(q, p), c) ELSE LineOf(q, r)
<1> DEFINE n == Len(q)
           a == StartOf(q, p)
           b == PositionIn(q, p)
           i == a + c
           t == RemoveAt(q, i)
<1>1. /\ n \in Nat /\ DOMAIN q = 1 .. n /\ b \in 1 .. n /\ a \in Nat
      /\ \A x \in Priority : PositionIn(q, x) \in 1 .. n /\ q[PositionIn(q, x)] = x
    BY MarkerPlaces, LineStarts
<1>2. c \in 1 .. b - 1 - a /\ i \in 1 .. n /\ a < i /\ i < b /\ q[i] \in w
    <2>1. c \in 1 .. b - 1 - a /\ i \in 1 .. n /\ q[i] \in w
        BY LineEntries
    <2> HIDE DEF a, b, n
    <2> QED  BY <1>1, <2>1
<1>3. t \in Seq(QueueItem) /\ IsQueueOf(t, w \ {q[i]}) /\ w \ {q[i]} \in SUBSET Submission
    <2> HIDE DEF i
    <2> QED  BY <1>1, <1>2, RemoveKeepsQueue
<1>4. /\ Len(t) = n - 1
      /\ \A k \in 1 .. n - 1 : t[k] = IF k < i THEN q[k] ELSE q[k + 1]
    <2> HIDE DEF i
    <2> QED  BY <1>2, RemoveAtProperties
<1> HIDE DEF t, n, i, b, a
<1>5. ASSUME NEW x \in Priority
      PROVE  PositionIn(t, x) = IF x < p THEN PositionIn(q, x) ELSE PositionIn(q, x) - 1
    <2> DEFINE j == PositionIn(q, x)
               k == IF x < p THEN j ELSE j - 1
    <2>1. j \in 1 .. n /\ q[j] = x
        BY <1>1
    <2>2. x \in Int /\ p \in Int
        BY ConstantsAssumption DEF Priority
    <2>3. (x < p => j <= a) /\ (p < x => b < j) /\ (x = p => j = b)
        BY MarkerPlaces, LineStarts DEF b, a
    <2> HIDE DEF j
    <2>4. k \in 1 .. n - 1 /\ t[k] = x
        <3>1. CASE x < p
            <4>1. k = j /\ k \in 1 .. n - 1 /\ k < i
                BY <1>1, <1>2, <2>1, <2>3, <3>1
            <4> HIDE DEF k
            <4>2. t[k] = q[k]
                BY <1>4, <4>1
            <4> QED  BY <2>1, <4>1, <4>2
        <3>2. CASE ~(x < p)
            <4>1. b <= j
                BY <1>1, <2>1, <2>2, <2>3, <3>2
            <4>2. k = j - 1 /\ k \in 1 .. n - 1 /\ ~(k < i) /\ k + 1 = j
                BY <1>1, <1>2, <2>1, <3>2, <4>1
            <4> HIDE DEF k
            <4>3. t[k] = q[k + 1]
                BY <1>4, <4>2
            <4> QED  BY <2>1, <4>2, <4>3
        <3> QED  BY <3>1, <3>2
    <2> HIDE DEF k
    <2>5. PositionIn(t, t[k]) = k
        BY <1>3, <1>4, <2>4, MarkerPlaces
    <2> QED  BY <2>4, <2>5 DEF k, j
<1>6. StartOf(t, r) = IF r <= p THEN StartOf(q, r) ELSE StartOf(q, r) - 1
    <2>1. r \in Nat /\ p \in Nat /\ (r # 0 => r - 1 \in Priority)
        BY ConstantsAssumption DEF Priority
    <2>2. CASE r = 0
        BY <2>1, <2>2 DEF StartOf
    <2>3. CASE r # 0
        <3>1. PositionIn(t, r - 1) =
                 IF r - 1 < p THEN PositionIn(q, r - 1) ELSE PositionIn(q, r - 1) - 1
            BY <1>5, <2>1, <2>3
        <3>2. r - 1 < p <=> r <= p
            BY <2>1
        <3> QED  BY <2>3, <3>1, <3>2 DEF StartOf
    <2> QED  BY <2>2, <2>3
<1>7. /\ StartOf(q, r) \in Nat /\ PositionIn(q, r) \in 1 .. n /\ StartOf(q, r) < PositionIn(q, r)
      /\ (r < p => PositionIn(q, r) <= a) /\ (p < r => b <= StartOf(q, r))
      /\ r \in Int /\ p \in Int
    BY <1>1, MarkerPlaces, LineStarts, ConstantsAssumption DEF a, b, Priority
<1>8. /\ LineOf(q, r) \in Seq(Submission)
      /\ Len(LineOf(q, r)) = PositionIn(q, r) - 1 - StartOf(q, r)
      /\ \A k \in 1 .. PositionIn(q, r) - 1 - StartOf(q, r) :
            LineOf(q, r)[k] = q[StartOf(q, r) + k]
    BY LineEntries
<1>9. CASE r < p
    <2>1. PositionIn(t, r) = PositionIn(q, r) /\ StartOf(t, r) = StartOf(q, r) /\ r # p
        BY <1>5, <1>6, <1>7, <1>9
    <2>2. ASSUME NEW k \in 1 .. PositionIn(q, r) - 1 - StartOf(q, r)
          PROVE  t[StartOf(t, r) + k] = q[StartOf(q, r) + k]
        <3> DEFINE m == StartOf(q, r) + k
        <3>1. m \in 1 .. n - 1 /\ m < i
            BY <1>1, <1>2, <1>7, <1>9
        <3> HIDE DEF m
        <3>2. t[m] = q[m]
            BY <1>4, <3>1
        <3> QED  BY <2>1, <3>2 DEF m
    <2>3. LineOf(t, r) = LineOf(q, r)
        BY <1>3, <1>8, <2>1, <2>2, LineIs
    <2> QED  BY <2>1, <2>3 DEF t, i, a
<1>10. CASE p < r
    <2>1. PositionIn(t, r) = PositionIn(q, r) - 1 /\ StartOf(t, r) = StartOf(q, r) - 1 /\ r # p
        BY <1>5, <1>6, <1>7, <1>10
    <2>2. ASSUME NEW k \in 1 .. PositionIn(q, r) - 1 - StartOf(q, r)
          PROVE  t[StartOf(t, r) + k] = q[StartOf(q, r) + k]
        <3> DEFINE m == StartOf(q, r) - 1 + k
        <3>1. m \in 1 .. n - 1 /\ ~(m < i) /\ m + 1 = StartOf(q, r) + k
            BY <1>1, <1>2, <1>7, <1>10
        <3> HIDE DEF m
        <3>2. t[m] = q[m + 1]
            BY <1>4, <3>1
        <3> QED  BY <2>1, <3>1, <3>2 DEF m
    <2>3. PositionIn(t, r) - 1 - StartOf(t, r) = PositionIn(q, r) - 1 - StartOf(q, r)
        BY <1>7, <2>1
    <2>4. LineOf(t, r) = LineOf(q, r)
        BY <1>3, <1>8, <2>2, <2>3, LineIs
    <2> QED  BY <2>1, <2>4 DEF t, i, a
<1>11. CASE r = p
    <2> DEFINE m == LineOf(q, p)
               l == RemoveAt(m, c)
    <2>1. PositionIn(t, p) = b - 1 /\ StartOf(t, p) = a
        BY <1>5, <1>6, <1>7, <1>11 DEF a, b
    <2>2. /\ m \in Seq(Submission) /\ Len(m) = b - 1 - a
          /\ \A k \in 1 .. b - 1 - a : m[k] = q[a + k]
        BY <1>8, <1>11 DEF a, b
    <2> HIDE DEF m
    <2>3. /\ l \in Seq(Submission) /\ Len(l) = b - 1 - a - 1
          /\ \A k \in 1 .. b - 1 - a - 1 : l[k] = IF k < c THEN m[k] ELSE m[k + 1]
        <3>1. c \in 1 .. Len(m)
            BY <1>2, <2>2
        <3>2. /\ l \in Seq(Submission) /\ Len(l) = Len(m) - 1
              /\ \A k \in 1 .. Len(m) - 1 : l[k] = IF k < c THEN m[k] ELSE m[k + 1]
            BY <2>2, <3>1, RemoveAtProperties
        <3> QED  BY <2>2, <3>2
    <2> HIDE DEF l
    <2>4. ASSUME NEW k \in 1 .. b - 1 - a - 1
          PROVE  l[k] = t[a + k]
        <3>1. a + k \in 1 .. n - 1 /\ (k < c <=> a + k < i) /\ a + k + 1 = a + (k + 1)
            BY <1>1, <1>2 DEF i
        <3>2. CASE k < c
            <4>1. k \in 1 .. b - 1 - a
                BY <1>1
            <4> QED  BY <1>4, <2>2, <2>3, <3>1, <3>2, <4>1
        <3>3. CASE ~(k < c)
            <4>1. k + 1 \in 1 .. b - 1 - a
                BY <1>1
            <4>2. l[k] = m[k + 1] /\ m[k + 1] = q[a + (k + 1)]
                BY <2>2, <2>3, <3>3, <4>1
            <4>3. t[a + k] = q[a + k + 1]
                BY <1>4, <3>1, <3>3
            <4> QED  BY <3>1, <4>2, <4>3
        <3> QED  BY <3>2, <3>3
    <2>5. PositionIn(t, p) - 1 - StartOf(t, p) = b - 1 - a - 1
        BY <1>1, <2>1
    <2>6. LineOf(t, p) = l
        BY <1>3, <2>1, <2>3, <2>4, <2>5, LineIs
    <2> QED  BY <1>11, <2>6 DEF t, i, l, m, a
<1> QED  BY <1>7, <1>9, <1>10, <1>11

-----------------------------------------------------------------------------
(* The list operations as steps of the abstract dispatcher.                *)

LEMMA QueueFacts ==
    ASSUME ListInv
    PROVE  /\ queue \in Seq(QueueItem) /\ Waiting \in SUBSET Submission /\ IsQueueOf(queue, Waiting)
           /\ \A p \in Priority : Lines[p] = LineOf(queue, p)
BY DEF ListInv, ListTypeOK, QueueConsistent, Waiting, Lines

\* What stands in a line is in node_map, at its place in the queue.
LEMMA LineMember ==
    ASSUME ListInv, NEW p \in Priority, NEW k \in DOMAIN Lines[p]
    PROVE  /\ Lines[p][k] \in Waiting /\ k \in Nat /\ k > 0
           /\ StartOf(queue, p) + k \in DOMAIN queue
           /\ queue[StartOf(queue, p) + k] = Lines[p][k]
<1>1. /\ Lines[p] = LineOf(queue, p) /\ StartOf(queue, p) \in Nat
      /\ PositionIn(queue, p) \in 1 .. Len(queue) /\ DOMAIN queue = 1 .. Len(queue)
    BY QueueFacts, MarkerPlaces, LineStarts
<1>2. k \in 1 .. PositionIn(queue, p) - 1 - StartOf(queue, p)
    BY <1>1, QueueFacts, LineEntries
<1>3. /\ LineOf(queue, p)[k] = queue[StartOf(queue, p) + k]
      /\ LineOf(queue, p)[k] \in Waiting
      /\ StartOf(queue, p) + k \in 1 .. Len(queue)
    BY <1>2, QueueFacts, LineEntries
<1> QED  BY <1>1, <1>2, <1>3

LEMMA KnownWaits ==
    ASSUME ListInv, NEW s \in Submission, nodeMap[s] = NoNode
    PROVE  ~Abstract!Waits(s)
<1>1. s \notin Waiting
    BY DEF Waiting
<1> QED  BY <1>1, LineMember DEF Abstract!Waits

LEMMA EnqueueStep ==
    ASSUME ListInv, NEW s \in Submission, NEW p \in Priority, ~Known(s),
           queue' = InsertBefore(p, s), UNCHANGED submissionMap
    PROVE  Abstract!Enqueue(s, p)
<1>1. submissionMap[s] = NoJudge /\ nodeMap[s] = NoNode /\ s \in Submission \ Waiting
    BY DEF Known, Waiting
<1>2. PositionOf(p) = PositionIn(queue, p)
    BY DEF PositionOf, PositionIn
<1>3. \A r \in Priority : LineOf(queue', r) =
         IF r = p THEN Append(LineOf(queue, p), s) ELSE LineOf(queue, r)
    BY <1>1, <1>2, QueueFacts, InsertLine DEF InsertBefore
<1>4. Lines' = [r \in Priority |-> LineOf(queue', r)]
    BY DEF Lines
<1>5. Lines' = [Lines EXCEPT ![p] = Append(@, s)]
    BY <1>3, <1>4 DEF Lines
<1> QED  BY <1>1, <1>5, KnownWaits DEF Abstract!Enqueue

LEMMA TakeFromStep ==
    ASSUME ListInv, NEW p \in Priority, NEW k \in DOMAIN Lines[p],
           queue' = RemoveAt(queue, StartOf(queue, p) + k)
    PROVE  Abstract!TakeFrom(p, k)
<1>1. k \in DOMAIN LineOf(queue, p)
    BY QueueFacts
<1>2. \A r \in Priority : LineOf(queue', r) =
         IF r = p THEN RemoveAt(LineOf(queue, p), k) ELSE LineOf(queue, r)
    BY <1>1, QueueFacts, RemoveLine
<1>3. Lines' = [r \in Priority |-> LineOf(queue', r)]
    BY DEF Lines
<1>4. Lines' = [Lines EXCEPT ![p] = RemoveAt(@, k)]
    BY <1>2, <1>3 DEF Lines
<1> QED  BY <1>4 DEF Abstract!TakeFrom, RemoveAt, Abstract!RemoveAt

\* The place of a waiting submission in its line.
LEMMA PlaceInLine ==
    ASSUME ListInv, NEW i \in DOMAIN queue, queue[i] \in Submission
    PROVE  \E p \in Priority : \E k \in DOMAIN Lines[p] :
              i = StartOf(queue, p) + k /\ Lines[p][k] = queue[i]
<1>1. PICK p \in Priority : \E k \in DOMAIN LineOf(queue, p) :
         i = StartOf(queue, p) + k /\ LineOf(queue, p)[k] = queue[i]
    BY QueueFacts, StandsInLine
<1>2. LineOf(queue, p) = Lines[p]
    BY QueueFacts
<1> QED  BY <1>1, <1>2

\* What stands before the i-th place of line p in the queue stands before it for the
\* dispatcher.
LEMMA QueueOrder ==
    ASSUME ListInv, NEW p \in Priority, NEW i \in DOMAIN Lines[p],
           NEW r \in Priority, NEW j \in DOMAIN Lines[r],
           StartOf(queue, p) + i <= StartOf(queue, r) + j
    PROVE  p < r \/ (p = r /\ i <= j)
<1>1. /\ p \in Int /\ r \in Int
      /\ StartOf(queue, p) \in Nat /\ StartOf(queue, r) \in Nat
      /\ PositionIn(queue, r) \in Nat
      /\ (r < p => PositionIn(queue, r) <= StartOf(queue, p))
    BY QueueFacts, MarkerPlaces, LineStarts, ConstantsAssumption DEF Priority
<1>2. i \in Nat /\ i > 0 /\ j \in Nat
    BY LineMember
<1>3. StartOf(queue, r) + j < PositionIn(queue, r)
    <2>1. j \in DOMAIN LineOf(queue, r)
        BY QueueFacts
    <2>2. j \in 1 .. PositionIn(queue, r) - 1 - StartOf(queue, r)
        BY <2>1, QueueFacts, LineEntries
    <2> QED  BY <1>1, <2>2
<1>4. ~(r < p)
    <2> SUFFICES ASSUME r < p PROVE FALSE
        OBVIOUS
    <2>1. PositionIn(queue, r) <= StartOf(queue, p)
        BY <1>1
    <2> QED  BY <1>1, <1>2, <1>3, <2>1
<1>5. p = r => i <= j
    BY <1>1, <1>2
<1> QED  BY <1>1, <1>4, <1>5

\* _handle_free_judge takes the first that fits, by priority and then by arrival.
LEMMA LookStep ==
    ASSUME ListInv, NoFailures, rows = Submission, NEW h \in Handler, sock[h] # "shut",
           NEW sm, NEW js, NEW w, HandleFreeJudge(h, sm, js, w)
    PROVE  Abstract!Look(h, sm)
<1>1. Fits[h] = {s \in Submission : CanJudge(h, s, nodeMap[s])}
    BY DEF Fits
<1>2. ASSUME NEW p \in Priority, NEW k \in DOMAIN Lines[p], Lines[p][k] \in Fits[h]
      PROVE  StartOf(queue, p) + k \in Eligible(h)
    <2>1. StartOf(queue, p) + k \in DOMAIN queue /\ queue[StartOf(queue, p) + k] = Lines[p][k]
        BY LineMember
    <2> QED  BY <1>1, <1>2, <2>1 DEF Eligible
<1>3. CASE Eligible(h) = {} /\ submissionMap' = sm /\ UNCHANGED queue
    <2>1. ~\E p \in Priority : \E k \in DOMAIN Lines[p] : Lines[p][k] \in Fits[h]
        BY <1>2, <1>3
    <2>2. UNCHANGED Lines
        BY <1>3 DEF Lines
    <2> QED  BY <1>3, <2>1, <2>2 DEF Abstract!Look
<1>4. ASSUME NEW i \in Eligible(h), NEW outcome \in Outcomes(h, queue[i]),
             IsFirst(i, Eligible(h)), submissionMap' = [sm EXCEPT ![queue[i]] = h],
             TakeOut(h, i, outcome, js)
      PROVE  Abstract!Look(h, sm)
    <2>1. /\ i \in DOMAIN queue /\ queue[i] \in Submission
          /\ CanJudge(h, queue[i], nodeMap[queue[i]])
        BY DEF Eligible
    <2>2. outcome = "sent"
        <3>1. PICK t \in Submission : t = queue[i]
            BY <2>1
        <3> QED  BY <3>1, AlwaysSent
    <2>3. PICK p \in Priority : \E k \in DOMAIN Lines[p] :
             i = StartOf(queue, p) + k /\ Lines[p][k] = queue[i]
        BY <2>1, PlaceInLine
    <2>4. PICK k \in DOMAIN Lines[p] : i = StartOf(queue, p) + k /\ Lines[p][k] = queue[i]
        BY <2>3
    <2>5. Abstract!TakeFrom(p, k)
        BY <1>4, <2>2, <2>4, TakeFromStep DEF TakeOut
    <2>6. Abstract!IsNext(h, p, k)
        <3>1. Lines[p][k] \in Fits[h]
            BY <1>1, <2>1, <2>4
        <3>2. ASSUME NEW r \in Priority, NEW j \in DOMAIN Lines[r], Lines[r][j] \in Fits[h]
              PROVE  p < r \/ (p = r /\ k <= j)
            <4>1. StartOf(queue, r) + j \in Eligible(h)
                BY <1>2, <3>2
            <4>2. StartOf(queue, p) + k <= StartOf(queue, r) + j
                BY <1>4, <2>4, <4>1 DEF IsFirst
            <4> QED  BY <4>2, QueueOrder
        <3> QED  BY <3>1, <3>2 DEF Abstract!IsNext
    <2> QED  BY <1>4, <2>4, <2>5, <2>6 DEF Abstract!Look
<1> QED  BY <1>3, <1>4 DEF HandleFreeJudge

-----------------------------------------------------------------------------
(* The steps of the bridge as steps of the abstract dispatcher.            *)

dispatcherVars == <<Lines, submissionMap>>

LEMMA Stutter == ASSUME UNCHANGED <<queue, submissionMap>> PROVE UNCHANGED dispatcherVars
BY DEF dispatcherVars, Lines

\* A judge without work has no submission in submission_map.
LEMMA IdleIsFree ==
    ASSUME CleanInv, NEW h \in Handler, working[h] = NoSub
    PROVE  Abstract!Free(h)
BY ConstantsAssumption DEF CleanInv, MapsAgree, Abstract!Free

\* judge: a submission that is already there, a new one in the queue, or one for an idle judge.
LEMMA JudgeSteps ==
    ASSUME CleanInv, NEW s \in Submission, NEW id \in JudgeId, NEW p \in Priority,
           Judge(s, id, p)
    PROVE  [Abstract!Next]_dispatcherVars
<1>1. ListInv /\ NoFailures /\ rows = Submission /\ judges \in SUBSET Handler
    BY DEF CleanInv, BridgeInv, ListInv, ListTypeOK
<1>2. CASE UNCHANGED <<listVars, working, toJudge>>
    BY <1>2, Stutter DEF listVars
<1>3. CASE ~Known(s) /\ queue' = InsertBefore(p, s) /\ UNCHANGED submissionMap
    <2>1. Abstract!Enqueue(s, p)
        BY <1>1, <1>3, EnqueueStep
    <2> QED  BY <2>1 DEF Abstract!Next
<1>4. ASSUME ~Known(s), NEW h \in Candidates(s, id),
             submissionMap' = [submissionMap EXCEPT ![s] = h], UNCHANGED queue
      PROVE  [Abstract!Next]_dispatcherVars
    <2>1. h \in Handler /\ working[h] = NoSub
        BY <1>1 DEF Candidates
    <2>2. submissionMap[s] = NoJudge /\ nodeMap[s] = NoNode
        BY <1>4 DEF Known
    <2>3. ~Abstract!Waits(s) /\ Abstract!Free(h)
        BY <1>1, <2>1, <2>2, KnownWaits, IdleIsFree
    <2>4. UNCHANGED Lines
        BY <1>4 DEF Lines
    <2>5. Abstract!Start(s, h)
        BY <1>4, <2>2, <2>3, <2>4 DEF Abstract!Start
    <2> QED  BY <2>1, <2>5 DEF Abstract!Next
<1> QED  BY <1>2, <1>3, <1>4 DEF Judge

\* The handler's thread: a judge joins, finishes its work, is lost, or its work is put back.
LEMMA HandlerThreadSteps ==
    ASSUME CleanInv, NEW h \in Handler, HandlerThread(h)
    PROVE  [Abstract!Next]_dispatcherVars
<1>1. /\ ListInv /\ NoFailures /\ rows = Submission /\ MapsAgree
      /\ ThreadInv(h) /\ TalkInv(h) /\ sock[h] # "shut"
      /\ fromJudge[h] \in Seq(FromJudgePacket)
      /\ submissionMap \in Map /\ working \in Work
    BY DEF CleanInv, BridgeInv, BridgeTypeOK, ListInv, ListTypeOK, ThreadInv
<1>2. CASE Register(h)
    <2>1. phase[h] = "named" /\ HandleFreeJudge(h, submissionMap, judges \cup {h}, working)
        BY <1>2 DEF Register, GoTo, RegisterJudge
    <2>2. Abstract!Free(h)
        BY <1>1, <2>1, IdleIsFree DEF ThreadInv
    <2>3. Abstract!Look(h, submissionMap)
        BY <1>1, <2>1, LookStep
    <2>4. Abstract!Join(h)
        BY <2>2, <2>3 DEF Abstract!Join
    <2> QED  BY <2>4 DEF Abstract!Next
<1>3. CASE HandleFinal(h)
    <2>1. /\ phase[h] = "up" /\ fromJudge[h] # <<>> /\ Head(fromJudge[h]).name \in FinalPackets
          /\ OnJudgeFree(h, Head(fromJudge[h]).id)
        BY <1>3 DEF HandleFinal, Incoming
    <2>2. Head(fromJudge[h]).id = working[h] /\ working[h] # NoSub
        BY <1>1, <2>1, EndTalk DEF TalkInv
    <2>3. PICK s \in Submission : s = working[h]
        BY <1>1, <2>2 DEF Work
    <2>4. submissionMap[s] = h /\ h # NoJudge
        BY <1>1, <2>1, <2>2, <2>3, ConstantsAssumption DEF ThreadInv, MapsAgree
    <2>5. HandleFreeJudge(h, [submissionMap EXCEPT ![s] = NoJudge], judges,
                          [working EXCEPT ![h] = NoSub])
        BY <2>1, <2>2, <2>3, <2>4 DEF OnJudgeFree
    <2>6. Abstract!Look(h, [submissionMap EXCEPT ![s] = NoJudge])
        BY <1>1, <2>5, LookStep
    <2>7. Abstract!Finish(s, h)
        BY <2>4, <2>6 DEF Abstract!Finish
    <2> QED  BY <2>7 DEF Abstract!Next
<1>4. CASE HandleUpdateProblems(h)
    BY <1>1, <1>4 DEF HandleUpdateProblems, GoTo, ThreadInv
<1>5. CASE Unregister(h)
    <2>1. phase[h] = "dropped" /\ RemoveJudge(h)
        BY <1>5 DEF Unregister, GoTo
    <2>2. CASE working[h] = NoSub
        BY <2>1, <2>2, Stutter DEF RemoveJudge
    <2>3. CASE working[h] # NoSub
        <3>1. PICK s \in Submission : s = working[h]
            BY <1>1, <2>3 DEF Work
        <3>2. submissionMap[s] = h
            BY <1>1, <2>1, <2>3, <3>1 DEF ThreadInv, MapsAgree
        <3>3. submissionMap' = [submissionMap EXCEPT ![s] = NoJudge] /\ UNCHANGED queue
            BY <2>1, <2>3, <3>1 DEF RemoveJudge
        <3>4. UNCHANGED Lines
            BY <3>3 DEF Lines
        <3>5. Abstract!Lose(s, h)
            BY <3>2, <3>3, <3>4 DEF Abstract!Lose
        <3> QED  BY <3>5 DEF Abstract!Next
    <2> QED  BY <2>2, <2>3
<1>6. CASE Requeue(h)
    <2>1. CASE working[h] = NoSub
        BY <1>6, <2>1, Stutter DEF Requeue, listVars
    <2>2. CASE working[h] # NoSub
        <3>1. PICK s \in Submission : s = working[h]
            BY <1>1, <2>2 DEF Work
        <3>2. Judge(s, AnyJudge, 0)
            BY <1>6, <2>2, <3>1 DEF Requeue
        <3>3. AnyJudge \in JudgeId /\ 0 \in Priority
            BY ConstantsAssumption DEF JudgeId, Priority
        <3> QED  BY <3>2, <3>3, JudgeSteps
    <2> QED  BY <2>1, <2>2
<1>7. CASE \/ HandshakeFails(h) \/ Connected(h) \/ HandleAcknowledged(h) \/ HandleProgress(h)
           \/ HandleSupportedProblems(h) \/ EndOfStream(h) \/ Disconnected(h)
    <2>1. UNCHANGED listVars
        BY <1>7 DEF HandshakeFails, Connected, HandleAcknowledged, HandleProgress,
                    HandleSupportedProblems, EndOfStream, Disconnected
    <2> QED  BY <2>1, Stutter DEF listVars
<1> QED  BY <1>2, <1>3, <1>4, <1>5, <1>6, <1>7 DEF HandlerThread

\* abort: out of the queue, or a packet for the judge.
LEMMA TerminationSteps ==
    ASSUME CleanInv, NEW s \in Submission, TerminationRequest(s)
    PROVE  [Abstract!Next]_dispatcherVars
<1>1. ListInv /\ QueueConsistent
    BY DEF CleanInv, BridgeInv, ListInv
<1>2. UNCHANGED submissionMap /\ Abort(s)
    BY DEF TerminationRequest, Abort
<1>3. CASE UNCHANGED queue
    BY <1>2, <1>3, Stutter
<1>4. CASE nodeMap[s] # NoNode /\ queue' = Unlink(s)
    <2>1. /\ PositionOf(s) \in DOMAIN queue /\ queue[PositionOf(s)] = s
          /\ queue' = RemoveAt(queue, PositionOf(s))
        BY <1>1, <1>4, PositionExists DEF Waiting, Unlink
    <2>2. PICK p \in Priority : \E k \in DOMAIN Lines[p] : PositionOf(s) = StartOf(queue, p) + k
        BY <1>1, <2>1, PlaceInLine
    <2>3. PICK k \in DOMAIN Lines[p] : PositionOf(s) = StartOf(queue, p) + k
        BY <2>2
    <2>4. Abstract!TakeFrom(p, k)
        BY <1>1, <2>1, <2>3, TakeFromStep
    <2>5. Abstract!Abort(p, k)
        BY <1>2, <2>4 DEF Abstract!Abort
    <2> QED  BY <2>3, <2>5 DEF Abstract!Next
<1> QED  BY <1>2, <1>3, <1>4 DEF Abort

\* Every step of the bridge is a step of the dispatcher or a stutter.
LEMMA NextSteps == CleanInv /\ [Next]_vars => [Abstract!Next]_dispatcherVars
<1> SUFFICES ASSUME CleanInv, [Next]_vars PROVE [Abstract!Next]_dispatcherVars
    OBVIOUS
<1>1. ASSUME UNCHANGED listVars PROVE [Abstract!Next]_dispatcherVars
    BY <1>1, Stutter DEF listVars
<1>2. ASSUME NEW h \in Handler, HandlerThread(h) PROVE [Abstract!Next]_dispatcherVars
    BY <1>2, HandlerThreadSteps
<1>3. ASSUME NEW h \in Handler, ExternalJudge(h) \/ ConnectionBreaks(h)
      PROVE  UNCHANGED listVars
    BY <1>3 DEF ExternalJudge, JudgeStarts, JudgeProgresses, JudgeFinishes, JudgeTerminates,
                JudgeLeaves, ConnectionBreaks
<1>4. ASSUME NEW h \in Handler, NEW ps \in ProblemLists, Handshake(h, ps) \/ JudgeReloads(h, ps)
      PROVE  UNCHANGED listVars
    BY <1>4 DEF Handshake, JudgeReloads
<1>5. ASSUME NEW r \in Requests, SubmissionRequest(r) PROVE [Abstract!Next]_dispatcherVars
    <2>1. r.id \in Submission /\ r.judge \in JudgeId /\ r.priority \in Priority
        BY BridgeAssumption
    <2>2. Judge(r.id, r.judge, r.priority)
        BY <1>5 DEF SubmissionRequest
    <2> QED  BY <2>1, <2>2, JudgeSteps
<1>6. ASSUME NEW s \in Submission, TerminationRequest(s) PROVE [Abstract!Next]_dispatcherVars
    BY <1>6, TerminationSteps
<1>7. ASSUME NEW s \in Submission, DeleteRow(s) PROVE UNCHANGED listVars
    BY <1>7 DEF DeleteRow
<1>8. ASSUME NEW n \in Name, NEW force \in Forces, DisconnectRequest(n, force)
      PROVE  UNCHANGED listVars
    BY <1>8 DEF DisconnectRequest, DisconnectJudges
<1>9. UNCHANGED vars => UNCHANGED listVars
    BY DEF vars
<1> QED  BY <1>1, <1>2, <1>3, <1>4, <1>5, <1>6, <1>7, <1>8, <1>9 DEF Next

\* At first there are only the markers.
LEMMA InitSteps == Init => Abstract!Init
<1> SUFFICES ASSUME Init PROVE Abstract!Init
    OBVIOUS
<1>1. queue = Markers /\ submissionMap = [s \in Submission |-> NoJudge]
    BY DEF Init, ListInit
<1>2. queue \in Seq(QueueItem) /\ IsQueueOf(queue, {})
    BY <1>1, MarkersQueue
<1>3. ASSUME NEW p \in Priority PROVE LineOf(queue, p) = <<>>
    <2> DEFINE l == LineOf(queue, p)
    <2>1. l \in Seq(Submission) /\ \A k \in DOMAIN l : l[k] \in {}
        <3>1. {} \in SUBSET Submission
            OBVIOUS
        <3> QED  BY <1>2, <3>1, LineEntries
    <2> HIDE DEF l
    <2>2. DOMAIN l = 1 .. Len(l) /\ Len(l) \in Nat /\ DOMAIN l = {}
        BY <2>1, LenProperties
    <2>3. Len(l) = 0
        BY <2>2
    <2>4. l = <<>>
        BY <2>1, <2>3, EmptySeq
    <2> QED  BY <2>4 DEF l
<1> QED  BY <1>1, <1>3 DEF Abstract!Init, Lines

-----------------------------------------------------------------------------
\* As long as no call fails, the marker list, the two maps and the judges' set of
\* judge_list.py behave as one line for each priority.
THEOREM DispatcherImplemented == NoFailures /\ Spec => ImplementsDispatcher
<1>1. Init => Abstract!Init
    BY InitSteps
<1>2. CleanInv /\ [Next]_vars => [Abstract!Next]_<<Lines, submissionMap>>
    BY NextSteps DEF dispatcherVars
<1> QED  BY <1>1, <1>2, AlwaysClean, PTL DEF Spec, ImplementsDispatcher, Abstract!Spec
=============================================================================
