------------------------- MODULE StatusPageProofs --------------------------
(***************************************************************************)
(* Theorems of EventDaemon and StatusPage, for any number of pages,        *)
(* posters, channels and scripts, any length of the queue and any number   *)
(* of faults: the types, what the daemon still has is not skipped,         *)
(* receivers go forward, and a page that was told of the verdict comes to  *)
(* show it.  The invariant of the daemon comes first.                      *)
(***************************************************************************)
EXTENDS StatusPage, FiniteSetTheorems, TLAPS

-----------------------------------------------------------------------------
(* The steps and the invariant.                                            *)

\* Steps after which every receiver has been told what it had been told before.
Quiet ==
    \/ \E p \in Poster : Deliver(p)
    \/ \E c \in Client :
          \/ Connect(c) \/ StartMsg(c) \/ SetFilter(c)
          \/ Ask(c) \/ Poll(c) \/ PollTimeout(c) \/ Break(c)
    \/ Restart

EventStep ==
    \/ Quiet
    \/ \E p \in Poster, ch \in Channel, t \in Type : Post(p, ch, t)
    \/ \E c \in Client : Open(c, clock) \/ Receive(c)

\* Ids that are anywhere have arrived, and none is from the future.
PlaceAt(c) ==
    /\ \A k \in DOMAIN wire[c] : wire[c][k].id \in arrived
    /\ lastMsg[c] \in arrived \cup {start[c]}
    /\ seen[c] \subseteq arrived

PlaceInv ==
    /\ \A i \in DOMAIN messages : messages[i].id \in arrived
    /\ \A c \in Client : PlaceAt(c)

ClockInv ==
    /\ \A c \in Client : start[c] <= clock
    /\ \A i \in arrived : i <= clock

\* Ids are given once.
SendingInv ==
    /\ \A p \in Poster : \A i \in DOMAIN sending[p] :
          sending[p][i].id <= clock /\ sending[p][i].id \notin arrived
    /\ \A p, q \in Poster : \A i \in DOMAIN sending[p], j \in DOMAIN sending[q] :
          sending[p][i].id = sending[q][j].id => p = q /\ i = j
    /\ source = "daemon" => \A p \in Poster : sending[p] = <<>>

\* A message that was not overtaken stands behind smaller ids only.
QueueInv ==
    \A i, j \in DOMAIN messages :
        i < j /\ messages[j].id \notin late => messages[i].id < messages[j].id

\* Which stages there are, and where something is on its way.
StageAt(c) ==
    /\ mode[c] = "ws" => conn[c] \in {"absent", "connecting", "open", "started", "following"}
    /\ mode[c] = "poll" => conn[c] \in {"absent", "idle", "asked", "parked", "answered"}
    /\ conn[c] = "absent" => seen[c] = {}
    /\ conn[c] \notin {"following", "answered"} => wire[c] = <<>>
    /\ conn[c] = "answered" => Len(wire[c]) = 1

\* What c has still to be told.
Due(c, m) ==
    /\ conn[c] # "absent"
    /\ Wants(c, m) /\ m.id > start[c] /\ m.id \notin late \cup seen[c]
DueAt(c, i) == Due(c, messages[i])

\* What NotSkipped says of c.
SkipAt(c) ==
    \A i \in DOMAIN messages : DueAt(c, i) =>
        \/ messages[i].id \in Ids(wire[c])
        \/ mode[c] = "ws" /\ conn[c] # "following"
        \/ mode[c] = "poll" /\ conn[c] # "parked" /\ messages[i].id > lastMsg[c]

\* The answer of a poll passes over nothing.
AnswerAt(c) ==
    \A i \in DOMAIN messages :
        conn[c] = "answered" /\ DueAt(c, i)
        => messages[i].id > lastMsg[c] /\ messages[i].id >= wire[c][1].id

Excepted(c) == late # {} \/ (mode[c] = "ws" /\ breaks[c] > 0)

\* What is on its way to c is in order, and not older than what c has.
ForwardAt(c) ==
    ~Excepted(c) =>
        /\ \A j, k \in DOMAIN wire[c] : j < k => wire[c][j].id < wire[c][k].id
        /\ \A k \in DOMAIN wire[c] : \/ wire[c][k].id >= lastMsg[c]
                                     \/ source = "publisher" /\ wire[c][k].id < start[c]
        /\ mode[c] = "ws" /\ conn[c] # "following" =>
              \A i \in DOMAIN messages : messages[i].id > start[c] => messages[i].id >= lastMsg[c]

ClientInv(c) == StageAt(c) /\ SkipAt(c) /\ AnswerAt(c) /\ ForwardAt(c)

EventInv ==
    /\ EventTypeOK /\ PlaceInv /\ ClockInv /\ SendingInv /\ QueueInv
    /\ \A c \in Client : ClientInv(c)

-----------------------------------------------------------------------------
(* A message reaches the daemon.                                           *)

\* The queue ends with the message; before it stands what stood there, without the
\* oldest if there were too many.
LEMMA QueueAfter ==
    ASSUME EventTypeOK, NEW m \in Message, Reached(m)
    PROVE  /\ messages' \in Seq(Message)
           /\ Len(messages') \in 1 .. MaxQueue
           /\ messages'[Len(messages')] = m
           /\ \A i \in DOMAIN messages' : i < Len(messages') =>
                 \E j \in DOMAIN messages : messages'[i] = messages[j]
           /\ \A i, k \in DOMAIN messages' : i < k /\ k < Len(messages') =>
                 \E j, n \in DOMAIN messages :
                     j < n /\ messages'[i] = messages[j] /\ messages'[k] = messages[n]
<1>0. messages \in Seq(Message) /\ Len(messages) \in Nat /\ Len(messages) <= MaxQueue
      /\ MaxQueue \in Nat \ {0}
    BY DaemonAssumption DEF EventTypeOK
<1>1. CASE Len(messages) >= MaxQueue
    <2>1. messages' = Append(Tail(messages), m)
        BY <1>1 DEF Reached
    <2>2. Tail(messages) \in Seq(Message) /\ Len(Tail(messages)) = Len(messages) - 1
        BY <1>0, <1>1
    <2>3. \A i \in 1 .. Len(messages) - 1 : Tail(messages)[i] = messages[i + 1]
        BY <1>0, <1>1
    <2>4. /\ messages' \in Seq(Message) /\ Len(messages') = Len(messages)
          /\ messages'[Len(messages)] = m
          /\ \A i \in 1 .. Len(messages) - 1 : messages'[i] = messages[i + 1]
        BY <1>0, <2>1, <2>2, <2>3
    <2>5. ASSUME NEW i \in DOMAIN messages', i < Len(messages')
          PROVE  i \in Int /\ i + 1 \in DOMAIN messages /\ messages'[i] = messages[i + 1]
        BY <1>0, <2>4, <2>5
    <2>6. Len(messages') \in 1 .. MaxQueue /\ messages'[Len(messages')] = m
        BY <1>0, <1>1, <2>4
    <2>7. \A i, k \in DOMAIN messages' : i < k /\ k < Len(messages') =>
              /\ i + 1 \in DOMAIN messages /\ k + 1 \in DOMAIN messages /\ i + 1 < k + 1
              /\ messages'[i] = messages[i + 1] /\ messages'[k] = messages[k + 1]
        BY <1>0, <2>4
    <2> QED  BY <2>4, <2>5, <2>6, <2>7
<1>2. CASE Len(messages) < MaxQueue
    <2>1. messages' = Append(messages, m)
        BY <1>0, <1>2 DEF Reached
    <2>2. /\ messages' \in Seq(Message) /\ Len(messages') = Len(messages) + 1
          /\ messages'[Len(messages) + 1] = m
          /\ \A i \in 1 .. Len(messages) : messages'[i] = messages[i]
        BY <1>0, <2>1
    <2> QED  BY <1>0, <1>2, <2>2
<1> QED  BY <1>0, <1>1, <1>2

\* Who is told of it.
Told(c, m) == conn[c] \in {"following", "parked"} /\ Wants(c, m)

LEMMA WireAfter ==
    ASSUME EventTypeOK, NEW m \in Message, Reached(m)
    PROVE  /\ wire' \in [Client -> Seq(Message)] /\ conn' \in [Client -> Stages]
           /\ \A c \in Client :
                 /\ Told(c, m) =>
                       /\ Len(wire'[c]) = Len(wire[c]) + 1
                       /\ wire'[c][Len(wire[c]) + 1] = m
                       /\ \A k \in DOMAIN wire[c] : wire'[c][k] = wire[c][k]
                 /\ ~Told(c, m) => wire'[c] = wire[c] /\ conn'[c] = conn[c]
                 /\ conn[c] # "parked" => conn'[c] = conn[c]
                 /\ conn[c] = "parked" /\ Told(c, m) => conn'[c] = "answered"
<1>1. wire \in [Client -> Seq(Message)] /\ conn \in [Client -> Stages]
    BY DEF EventTypeOK
<1>2. \A c \in Client : Append(wire[c], m) \in Seq(Message)
    BY <1>1
<1>3. wire' \in [Client -> Seq(Message)]
    BY <1>1, <1>2 DEF Reached
<1>4. conn' \in [Client -> Stages]
    BY <1>1 DEF Reached, Stages
<1>5. ASSUME NEW c \in Client PROVE
                 /\ Told(c, m) =>
                       /\ Len(wire'[c]) = Len(wire[c]) + 1
                       /\ wire'[c][Len(wire[c]) + 1] = m
                       /\ \A k \in DOMAIN wire[c] : wire'[c][k] = wire[c][k]
                 /\ ~Told(c, m) => wire'[c] = wire[c] /\ conn'[c] = conn[c]
                 /\ conn[c] # "parked" => conn'[c] = conn[c]
                 /\ conn[c] = "parked" /\ Told(c, m) => conn'[c] = "answered"
    <2>1. Told(c, m) => wire'[c] = Append(wire[c], m)
        BY DEF Reached, Told
    <2>2. wire[c] \in Seq(Message)
        BY <1>1
    <2> QED  BY <2>1, <2>2 DEF Reached, Told
<1> QED  BY <1>3, <1>4, <1>5

\* What a message with a new id does when it arrives.
LEMMA ArriveKeeps ==
    ASSUME EventInv, NEW m \in Message, m.id \notin arrived,
           source = "daemon" => \A c \in Client : start[c] < m.id,
           Arrive(m),
           UNCHANGED <<source, mode, start, lastMsg, seen, breaks>>
    PROVE  /\ messages' \in Seq(Message) /\ Len(messages') <= MaxQueue
           /\ wire' \in [Client -> Seq(Message)] /\ conn' \in [Client -> Stages]
           /\ arrived' \in SUBSET Nat /\ late' \in SUBSET arrived'
           /\ PlaceInv' /\ QueueInv' /\ \A c \in Client : ClientInv(c)'
<1> USE DEF EventInv
<1>1. EventTypeOK /\ Reached(m) /\ m.id \in Nat
    BY DEF Arrive, Message
<1>2. /\ messages \in Seq(Message) /\ wire \in [Client -> Seq(Message)]
      /\ conn \in [Client -> Stages] /\ start \in [Client -> Nat] /\ lastMsg \in [Client -> Nat]
      /\ arrived \in SUBSET Nat /\ late \in SUBSET arrived
    BY DEF EventTypeOK
<1>3. /\ arrived' = arrived \cup {m.id}
      /\ late \subseteq late' /\ late' \subseteq late \cup {m.id}
      /\ m.id \notin late' => \A i \in arrived : i < m.id
    <2>1. \A i \in arrived : i \in Nat /\ i # m.id
        BY <1>2
    <2> QED  BY <1>1, <2>1 DEF Arrive
<1>4. /\ messages' \in Seq(Message)
      /\ Len(messages') \in 1 .. MaxQueue
      /\ messages'[Len(messages')] = m
      /\ \A i \in DOMAIN messages' : i < Len(messages') =>
            \E j \in DOMAIN messages : messages'[i] = messages[j]
      /\ \A i, k \in DOMAIN messages' : i < k /\ k < Len(messages') =>
            \E j, n \in DOMAIN messages :
                j < n /\ messages'[i] = messages[j] /\ messages'[k] = messages[n]
    BY <1>1, QueueAfter
<1>5. /\ wire' \in [Client -> Seq(Message)] /\ conn' \in [Client -> Stages]
      /\ \A c \in Client :
            /\ Told(c, m) =>
                  /\ Len(wire'[c]) = Len(wire[c]) + 1
                  /\ wire'[c][Len(wire[c]) + 1] = m
                  /\ \A k \in DOMAIN wire[c] : wire'[c][k] = wire[c][k]
            /\ ~Told(c, m) => wire'[c] = wire[c] /\ conn'[c] = conn[c]
            /\ conn[c] # "parked" => conn'[c] = conn[c]
            /\ conn[c] = "parked" /\ Told(c, m) => conn'[c] = "answered"
    BY <1>1, WireAfter
\* Where an element of a sequence on its way comes from.
<1>6. \A c \in Client : \A k \in DOMAIN wire'[c] :
          \/ k \in DOMAIN wire[c] /\ wire'[c][k] = wire[c][k]
          \/ Told(c, m) /\ k = Len(wire[c]) + 1 /\ wire'[c][k] = m
    <2> TAKE c \in Client
    <2>1. wire[c] \in Seq(Message) /\ wire'[c] \in Seq(Message)
        BY <1>2, <1>5
    <2> QED  BY <1>5, <2>1
<1>7. \A i \in DOMAIN messages' : \/ i = Len(messages') /\ messages'[i] = m
                                  \/ i < Len(messages') /\ \E j \in DOMAIN messages : messages'[i] = messages[j]
    <2> TAKE i \in DOMAIN messages'
    <2>1. i \in 1 .. Len(messages') /\ Len(messages') \in Nat
        BY <1>4
    <2> QED  BY <1>4, <2>1
<1>8. PlaceInv'
    <2>1. \A i \in DOMAIN messages' : messages'[i].id \in arrived'
        BY <1>3, <1>7 DEF PlaceInv, PlaceAt
    <2>2. \A c \in Client : \A k \in DOMAIN wire'[c] : wire'[c][k].id \in arrived'
        BY <1>3, <1>6 DEF PlaceInv, PlaceAt
    <2>3. \A c \in Client : lastMsg'[c] \in arrived' \cup {start'[c]}
        BY <1>3 DEF PlaceInv, PlaceAt
    <2>4. \A c \in Client : seen'[c] \subseteq arrived'
        BY <1>3 DEF PlaceInv, PlaceAt
    <2> QED  BY <2>1, <2>2, <2>3, <2>4 DEF PlaceInv, PlaceAt
<1>9. \A c \in Client : StageAt(c)'
    <2> SUFFICES ASSUME NEW c \in Client
        PROVE  /\ mode[c] = "ws" => conn'[c] \in {"absent", "connecting", "open", "started", "following"}
               /\ mode[c] = "poll" => conn'[c] \in {"absent", "idle", "asked", "parked", "answered"}
               /\ conn'[c] = "absent" => seen[c] = {}
               /\ conn'[c] \notin {"following", "answered"} => wire'[c] = <<>>
               /\ conn'[c] = "answered" => Len(wire'[c]) = 1
        BY DEF StageAt
    <2>1. CASE ~Told(c, m)
        BY <1>5, <2>1 DEF ClientInv, StageAt
    <2>2. CASE Told(c, m) /\ conn[c] = "parked"
        <3>1. Len(wire[c]) = 0 /\ conn[c] # "following" /\ mode[c] # "ws"
            BY <2>2 DEF ClientInv, StageAt
        <3>2. Len(wire'[c]) = 0 + 1 /\ conn'[c] = "answered"
            BY <1>5, <2>2, <3>1
        <3> QED  BY <3>1, <3>2
    <2>3. CASE Told(c, m) /\ conn[c] = "following"
        BY <1>5, <2>3 DEF ClientInv, StageAt
    <2> QED  BY <2>1, <2>2, <2>3 DEF Told
<1>10. QueueInv'
    <2> SUFFICES ASSUME NEW i \in DOMAIN messages', NEW j \in DOMAIN messages',
                        i < j, messages'[j].id \notin late'
                 PROVE  messages'[i].id < messages'[j].id
        BY DEF QueueInv
    <2>1. i < Len(messages')
        BY <1>4
    <2>2. PICK n \in DOMAIN messages : messages'[i] = messages[n]
        BY <1>4, <2>1
    <2>3. CASE j = Len(messages')
        <3>1. messages'[i].id \in arrived
            BY <2>2 DEF PlaceInv, PlaceAt
        <3> QED  BY <1>3, <1>4, <2>3, <3>1
    <2>4. CASE j # Len(messages')
        <3>1. j < Len(messages')
            BY <1>4, <2>4
        <3>2. PICK a, b \in DOMAIN messages :
                  a < b /\ messages'[i] = messages[a] /\ messages'[j] = messages[b]
            BY <1>4, <3>1
        <3> QED  BY <1>3, <3>2 DEF QueueInv
    <2> QED  BY <2>3, <2>4
\* A message that is due is the new one, or was due before.
<1>11. ASSUME NEW c \in Client, NEW i \in DOMAIN messages', DueAt(c, i)'
       PROVE  /\ Due(c, messages'[i])
              /\ \/ i = Len(messages') /\ messages'[i] = m /\ \A n \in arrived : n < m.id
                 \/ \E j \in DOMAIN messages : messages'[i] = messages[j]
    <2>1. conn[c] # "absent" /\ messages'[i].id \notin late'
        BY <1>5, <1>11 DEF Due, DueAt
    <2>2. Due(c, messages'[i])
        BY <1>3, <1>11, <2>1 DEF Due, DueAt, Wants
    <2> QED  BY <1>3, <1>7, <2>1, <2>2
\* The new message is newer than what c has.
<1>12. ASSUME NEW c \in Client, \A n \in arrived : n < m.id, m.id > start[c]
       PROVE  m.id > lastMsg[c]
    BY <1>12 DEF PlaceInv, PlaceAt
<1>13. \A c \in Client : SkipAt(c)'
    <2> SUFFICES ASSUME NEW c \in Client, NEW i \in DOMAIN messages', DueAt(c, i)'
                 PROVE  \/ messages'[i].id \in Ids(wire'[c])
                        \/ mode[c] = "ws" /\ conn'[c] # "following"
                        \/ mode[c] = "poll" /\ conn'[c] # "parked" /\ messages'[i].id > lastMsg[c]
        BY DEF SkipAt
    <2>0. Due(c, messages'[i])
        BY <1>11
    <2>1. CASE i = Len(messages') /\ messages'[i] = m /\ \A n \in arrived : n < m.id
        <3>1. CASE Told(c, m)
            <4>1. Len(wire[c]) + 1 \in DOMAIN wire'[c]
                <5>1. wire[c] \in Seq(Message) /\ wire'[c] \in Seq(Message)
                    BY <1>2, <1>5
                <5> QED  BY <1>5, <3>1, <5>1
            <4> QED  BY <1>5, <2>1, <3>1, <4>1 DEF Ids, Range
        <3>2. CASE ~Told(c, m)
            <4>1. conn[c] \notin {"absent", "following", "parked"} /\ conn'[c] = conn[c]
                BY <1>5, <2>0, <2>1, <3>2 DEF Told, Due
            <4>2. m.id > lastMsg[c]
                BY <1>12, <2>0, <2>1 DEF Due
            <4>3. mode[c] \in {"ws", "poll"}
                BY <1>1 DEF EventTypeOK
            <4> QED  BY <2>1, <4>1, <4>2, <4>3
        <3> QED  BY <3>1, <3>2
    <2>2. ASSUME NEW j \in DOMAIN messages, messages'[i] = messages[j]
          PROVE  \/ messages'[i].id \in Ids(wire'[c])
                 \/ mode[c] = "ws" /\ conn'[c] # "following"
                 \/ mode[c] = "poll" /\ conn'[c] # "parked" /\ messages'[i].id > lastMsg[c]
        <3>1. \/ messages[j].id \in Ids(wire[c])
              \/ mode[c] = "ws" /\ conn[c] # "following"
              \/ mode[c] = "poll" /\ conn[c] # "parked" /\ messages[j].id > lastMsg[c]
            BY <2>0, <2>2 DEF ClientInv, SkipAt, DueAt
        <3>2. CASE messages[j].id \in Ids(wire[c])
            <4>1. PICK k \in DOMAIN wire[c] : messages[j].id = wire[c][k].id
                BY <3>2 DEF Ids, Range
            <4>2. k \in DOMAIN wire'[c] /\ wire'[c][k] = wire[c][k]
                <5>1. wire[c] \in Seq(Message) /\ wire'[c] \in Seq(Message)
                    BY <1>2, <1>5
                <5> QED  BY <1>5, <5>1
            <4> QED  BY <2>2, <4>1, <4>2 DEF Ids, Range
        <3>3. CASE mode[c] = "ws" /\ conn[c] # "following"
            <4>1. conn[c] # "parked"
                BY <3>3 DEF ClientInv, StageAt
            <4> QED  BY <1>5, <3>3, <4>1
        <3>4. CASE mode[c] = "poll" /\ conn[c] # "parked" /\ messages[j].id > lastMsg[c]
            BY <1>5, <2>2, <3>4
        <3> QED  BY <3>1, <3>2, <3>3, <3>4
    <2> QED  BY <1>11, <2>1, <2>2
<1>14. \A c \in Client : AnswerAt(c)'
    <2> SUFFICES ASSUME NEW c \in Client, NEW i \in DOMAIN messages',
                        conn'[c] = "answered", DueAt(c, i)'
                 PROVE  messages'[i].id > lastMsg[c] /\ messages'[i].id >= wire'[c][1].id
        BY DEF AnswerAt
    <2>0. Due(c, messages'[i])
        BY <1>11
    <2>1. wire[c] \in Seq(Message)
        BY <1>2
    <2>2. CASE conn[c] = "parked"
        <3>1. Told(c, m) /\ wire'[c][1] = m /\ wire[c] = <<>>
            BY <1>5, <2>2 DEF ClientInv, StageAt
        <3>2. Ids(wire[c]) = {}
            BY <3>1 DEF Ids, Range
        <3>3. mode[c] = "poll"
            BY <1>1, <2>2 DEF ClientInv, StageAt, EventTypeOK
        <3>4. ~ \E j \in DOMAIN messages : messages'[i] = messages[j]
            BY <2>0, <2>2, <3>2, <3>3 DEF ClientInv, SkipAt, DueAt
        <3>5. messages'[i] = m /\ \A n \in arrived : n < m.id
            BY <1>11, <3>4
        <3> QED  BY <1>1, <1>12, <2>0, <3>1, <3>5 DEF Due
    <2>3. CASE conn[c] # "parked"
        <3>1. conn[c] = "answered" /\ wire'[c] = wire[c]
            BY <1>5, <2>3 DEF Told
        <3>2. 1 \in DOMAIN wire[c]
            BY <2>1, <3>1 DEF ClientInv, StageAt
        <3>3. wire[c][1].id \in arrived
            BY <3>2 DEF PlaceInv, PlaceAt
        <3>4. CASE messages'[i] = m /\ \A n \in arrived : n < m.id
            <4>1. m.id > lastMsg[c]
                BY <1>12, <2>0, <3>4 DEF Due
            <4>2. wire[c][1].id < m.id /\ wire[c][1].id \in Nat
                BY <1>2, <3>3, <3>4
            <4> QED  BY <1>1, <3>1, <3>4, <4>1, <4>2
        <3>5. ASSUME NEW j \in DOMAIN messages, messages'[i] = messages[j]
              PROVE  messages'[i].id > lastMsg[c] /\ messages'[i].id >= wire'[c][1].id
            BY <2>0, <3>1, <3>5 DEF ClientInv, AnswerAt, DueAt
        <3> QED  BY <1>11, <3>4, <3>5
    <2> QED  BY <2>2, <2>3
<1>15. \A c \in Client : ForwardAt(c)'
    <2> SUFFICES ASSUME NEW c \in Client, ~Excepted(c)'
                 PROVE  /\ \A j, k \in DOMAIN wire'[c] : j < k => wire'[c][j].id < wire'[c][k].id
                        /\ \A k \in DOMAIN wire'[c] : \/ wire'[c][k].id >= lastMsg[c]
                                                      \/ source = "publisher" /\ wire'[c][k].id < start[c]
                        /\ mode[c] = "ws" /\ conn'[c] # "following" =>
                              \A i \in DOMAIN messages' : messages'[i].id > start[c] => messages'[i].id >= lastMsg[c]
        BY DEF ForwardAt
    <2>1. ~Excepted(c) /\ \A n \in arrived : n < m.id
        BY <1>3 DEF Excepted
    <2>2. wire[c] \in Seq(Message) /\ start[c] \in Nat /\ lastMsg[c] \in Nat
        BY <1>2
    <2>3. \A k \in DOMAIN wire[c] : wire[c][k].id < m.id
        BY <2>1 DEF PlaceInv, PlaceAt
    <2>4. \A j, k \in DOMAIN wire'[c] : j < k => wire'[c][j].id < wire'[c][k].id
        <3> TAKE j, k \in DOMAIN wire'[c]
        <3> HAVE j < k
        <3>1. j \in DOMAIN wire[c] /\ wire'[c][j] = wire[c][j]
            <4>1. wire'[c] \in Seq(Message)
                BY <1>5
            <4> QED  BY <1>5, <1>6, <2>2, <4>1
        <3> QED  BY <1>6, <2>1, <2>3, <3>1 DEF ClientInv, ForwardAt
    <2>5. m.id >= lastMsg[c] \/ (source = "publisher" /\ m.id < start[c])
        <3>1. lastMsg[c] \in arrived \/ lastMsg[c] = start[c]
            BY DEF PlaceInv, PlaceAt
        <3>2. source \in {"daemon", "publisher"}
            BY <1>1 DEF EventTypeOK
        <3> QED  BY <1>1, <2>1, <2>2, <3>1, <3>2
    <2>6. \A k \in DOMAIN wire'[c] : \/ wire'[c][k].id >= lastMsg[c]
                                     \/ source = "publisher" /\ wire'[c][k].id < start[c]
        BY <1>6, <2>1, <2>5 DEF ClientInv, ForwardAt
    <2>7. ASSUME mode[c] = "ws", conn'[c] # "following", NEW i \in DOMAIN messages',
                 messages'[i].id > start[c]
          PROVE  messages'[i].id >= lastMsg[c]
        <3>1. conn[c] # "following"
            BY <1>5, <2>7
        <3>2. CASE messages'[i] = m
            BY <1>1, <1>12, <2>1, <2>2, <2>7, <3>2
        <3>3. ASSUME NEW j \in DOMAIN messages, messages'[i] = messages[j]
              PROVE  messages'[i].id >= lastMsg[c]
            BY <2>1, <2>7, <3>1, <3>3 DEF ClientInv, ForwardAt
        <3> QED  BY <1>7, <3>2, <3>3
    <2> QED  BY <2>4, <2>6, <2>7
<1>16. Len(messages') <= MaxQueue /\ arrived' \in SUBSET Nat /\ late' \in SUBSET arrived'
    <2>1. arrived' \in SUBSET Nat /\ late' \in SUBSET arrived'
        BY <1>1, <1>2, <1>3
    <2>2. Len(messages') <= MaxQueue
        BY <1>4, DaemonAssumption
    <2> QED  BY <2>1, <2>2
<1> QED  BY <1>4, <1>5, <1>8, <1>9, <1>10, <1>13, <1>14, <1>15, <1>16 DEF ClientInv

-----------------------------------------------------------------------------
(* A step of one receiver.  Nothing of another one changes, so its part of *)
(* the invariant stays.                                                    *)

\* The receivers but c, and what no receiver changes.
OthersKept(c) ==
    /\ UNCHANGED <<source, mode, daemonVars>>
    /\ \A d \in Client \ {c} :
          /\ conn'[d] = conn[d] /\ start'[d] = start[d] /\ lastMsg'[d] = lastMsg[d]
          /\ wire'[d] = wire[d] /\ seen'[d] = seen[d] /\ breaks'[d] = breaks[d]

LEMMA OneReceiver ==
    ASSUME EventInv, NEW c \in Client, OthersKept(c), EventTypeOK',
           PlaceAt(c)', start'[c] <= clock, ClientInv(c)'
    PROVE  EventInv'
<1> USE DEF EventInv
<1>1. UNCHANGED <<source, mode, clock, messages, sending, arrived, late>>
    BY DEF OthersKept, daemonVars
<1>2. ASSUME NEW d \in Client, d # c
      PROVE  /\ conn'[d] = conn[d] /\ start'[d] = start[d] /\ lastMsg'[d] = lastMsg[d]
             /\ wire'[d] = wire[d] /\ seen'[d] = seen[d] /\ breaks'[d] = breaks[d]
    BY <1>2 DEF OthersKept
<1>3. PlaceInv'
    <2>1. ASSUME NEW d \in Client, d # c PROVE PlaceAt(d)'
        BY <1>1, <1>2, <2>1 DEF PlaceInv, PlaceAt
    <2> QED  BY <1>1, <2>1 DEF PlaceInv
<1>4. ClockInv'
    BY <1>1, <1>2 DEF ClockInv
<1>5. SendingInv' /\ QueueInv'
    BY <1>1 DEF SendingInv, QueueInv
<1>6. ASSUME NEW d \in Client, d # c PROVE ClientInv(d)'
    <2>1. ClientInv(d)
        OBVIOUS
    <2>2. StageAt(d)'
        BY <1>1, <1>2, <1>6, <2>1 DEF ClientInv, StageAt
    <2>3. \A i \in DOMAIN messages : DueAt(d, i)' <=> DueAt(d, i)
        BY <1>1, <1>2, <1>6 DEF DueAt, Due, Wants
    <2>4. SkipAt(d)'
        BY <1>1, <1>2, <1>6, <2>1, <2>3 DEF ClientInv, SkipAt, Ids
    <2>5. AnswerAt(d)'
        BY <1>1, <1>2, <1>6, <2>1, <2>3 DEF ClientInv, AnswerAt
    <2>6. ForwardAt(d)'
        BY <1>1, <1>2, <1>6, <2>1 DEF ClientInv, ForwardAt, Excepted
    <2> QED  BY <2>2, <2>4, <2>5, <2>6 DEF ClientInv
<1> QED  BY <1>3, <1>4, <1>5, <1>6

\* What the invariant says of one receiver, and the types a step of it reads.
LEMMA OfReceiver ==
    ASSUME EventInv, NEW c \in Client
    PROVE  /\ PlaceAt(c) /\ start[c] <= clock /\ ClientInv(c) /\ QueueInv
           /\ mode[c] \in {"ws", "poll"} /\ conn[c] \in Stages
           /\ clock \in Nat /\ start[c] \in Nat /\ lastMsg[c] \in Nat /\ breaks[c] \in Nat
           /\ messages \in Seq(Message) /\ wire[c] \in Seq(Message)
           /\ arrived \in SUBSET Nat
           /\ \A i \in arrived : i <= clock
           /\ \A i \in DOMAIN messages : messages[i].id \in Nat /\ messages[i].id \in arrived
           /\ \A k \in DOMAIN wire[c] : wire[c][k].id \in Nat
<1>1. EventTypeOK /\ PlaceInv /\ ClockInv
    BY DEF EventInv
<1>2. messages \in Seq(Message) /\ wire[c] \in Seq(Message)
    BY <1>1 DEF EventTypeOK
<1>3. \A i \in DOMAIN messages : messages[i].id \in Nat
    <2> TAKE i \in DOMAIN messages
    <2>1. messages[i] \in Message
        BY <1>2
    <2> QED  BY <2>1 DEF Message
<1>4. \A k \in DOMAIN wire[c] : wire[c][k].id \in Nat
    <2> TAKE k \in DOMAIN wire[c]
    <2>1. wire[c][k] \in Message
        BY <1>2
    <2> QED  BY <2>1 DEF Message
<1> QED  BY <1>1, <1>2, <1>3, <1>4 DEF EventInv, EventTypeOK, PlaceInv, ClockInv

LEMMA OpenKeeps ==
    ASSUME EventInv, NEW c \in Client, Open(c, clock)
    PROVE  EventInv' /\ lastMsg'[c] >= lastMsg[c]
<1>1. EventTypeOK /\ ClientInv(c)
    BY DEF EventInv
<1>2. /\ conn[c] = "absent" /\ OthersKept(c)
      /\ conn'[c] = Fresh(c) /\ start'[c] = clock /\ lastMsg'[c] = clock
      /\ wire'[c] = wire[c] /\ seen'[c] = seen[c] /\ breaks'[c] = breaks[c]
      /\ UNCHANGED <<source, mode, daemonVars>>
    BY <1>1 DEF Open, OthersKept, EventTypeOK
<1>3. UNCHANGED <<source, mode, clock, messages, sending, arrived, late>>
    BY <1>2 DEF daemonVars
<1>4. EventTypeOK'
    BY <1>1 DEF Open, EventTypeOK, daemonVars, Fresh, Stages
<1>5. wire'[c] = <<>> /\ Ids(wire[c]) = {}
    BY <1>1, <1>2 DEF ClientInv, StageAt, Ids, Range
<1>6. /\ clock \in Nat /\ mode[c] \in {"ws", "poll"}
      /\ \A i \in DOMAIN messages : messages[i].id \in Nat
      /\ lastMsg[c] \in Nat /\ lastMsg[c] <= clock
    <2>1. lastMsg[c] \in arrived \/ lastMsg[c] = start[c]
        BY OfReceiver DEF PlaceAt
    <2> QED  BY <2>1, OfReceiver
<1>7. PlaceAt(c)' /\ start'[c] <= clock
    <2>1. PlaceAt(c)
        BY OfReceiver
    <2> QED  BY <1>2, <1>3, <1>5, <1>6, <2>1 DEF PlaceAt
<1>8. StageAt(c)'
    BY <1>1, <1>2, <1>3, <1>5 DEF StageAt, ClientInv, Fresh
<1>9. SkipAt(c)'
    BY <1>2, <1>3, <1>6 DEF SkipAt, DueAt, Due, Fresh
<1>10. AnswerAt(c)'
    BY <1>2 DEF AnswerAt, Fresh
<1>11. ForwardAt(c)'
    BY <1>2, <1>3, <1>5, <1>6 DEF ForwardAt
<1> QED  BY <1>2, <1>4, <1>6, <1>7, <1>8, <1>9, <1>10, <1>11, OneReceiver DEF ClientInv

\* The stage of c changes, and perhaps what is on its way to it.
LEMMA StageStep ==
    ASSUME EventInv, NEW c \in Client, NEW from \in Stages, NEW to \in Stages,
           ClientStep(c, from, to), wire' \in [Client -> Seq(Message)],
           \A d \in Client \ {c} : wire'[d] = wire[d]
    PROVE  /\ conn[c] = from /\ conn'[c] = to /\ OthersKept(c) /\ EventTypeOK'
           /\ UNCHANGED <<source, mode, clock, messages, sending, arrived, late>>
           /\ UNCHANGED <<start, lastMsg, seen, breaks>>
<1>1. EventTypeOK
    BY DEF EventInv
<1>2. conn[c] = from /\ conn'[c] = to /\ conn' \in [Client -> Stages]
      /\ \A d \in Client \ {c} : conn'[d] = conn[d]
    BY <1>1 DEF ClientStep, EventTypeOK
<1>3. UNCHANGED <<source, mode, clock, messages, sending, restarts, arrived, late>>
    BY DEF ClientStep, daemonVars
<1>4. EventTypeOK'
    BY <1>1, <1>2, <1>3 DEF EventTypeOK, ClientStep
<1> QED  BY <1>2, <1>3, <1>4 DEF ClientStep, OthersKept, daemonVars

\* Steps that leave what is on its way, and neither make c a follower nor park it.
LEMMA MoveKeeps ==
    ASSUME EventInv, NEW c \in Client,
           NEW from \in Stages \ {"absent", "following", "answered"},
           NEW to \in Stages \ {"absent", "following", "answered", "parked"},
           ClientStep(c, from, to), UNCHANGED wire,
           mode[c] = "ws" => to \in {"connecting", "open", "started", "following"},
           mode[c] = "poll" => to \in {"idle", "asked", "parked", "answered"}
    PROVE  EventInv'
<1>1. EventTypeOK /\ ClientInv(c) /\ PlaceAt(c) /\ start[c] <= clock
    BY OfReceiver DEF EventInv
<1>2. /\ conn[c] = from /\ conn'[c] = to /\ OthersKept(c) /\ EventTypeOK'
      /\ UNCHANGED <<source, mode, clock, messages, sending, arrived, late>>
      /\ UNCHANGED <<start, lastMsg, seen, breaks>>
    BY <1>1, StageStep DEF EventTypeOK
<1>3. wire[c] = <<>> /\ wire'[c] = <<>> /\ Ids(wire[c]) = {}
    BY <1>1, <1>2 DEF ClientInv, StageAt, Ids, Range
<1>4. PlaceAt(c)'
    BY <1>1, <1>2 DEF PlaceAt
<1>5. StageAt(c)'
    BY <1>2, <1>3 DEF StageAt
<1>6. SkipAt(c)'
    <2>1. mode[c] \in {"ws", "poll"}
        BY <1>1 DEF EventTypeOK
    <2>2. \A i \in DOMAIN messages : DueAt(c, i)' => DueAt(c, i)
        BY <1>2 DEF DueAt, Due, Wants
    <2>3. \A i \in DOMAIN messages : DueAt(c, i) => \/ mode[c] = "ws"
                                                    \/ messages[i].id > lastMsg[c]
        BY <1>1, <1>3 DEF ClientInv, SkipAt
    <2> QED  BY <1>2, <2>1, <2>2, <2>3 DEF SkipAt
<1>7. AnswerAt(c)'
    BY <1>2 DEF AnswerAt
<1>8. ForwardAt(c)'
    BY <1>1, <1>2, <1>3 DEF ClientInv, ForwardAt, Excepted
<1> QED  BY <1>1, <1>2, <1>4, <1>5, <1>6, <1>7, <1>8, OneReceiver DEF ClientInv

LEMMA MovesKeep ==
    ASSUME EventInv, NEW c \in Client, Connect(c) \/ StartMsg(c) \/ Ask(c) \/ PollTimeout(c)
    PROVE  EventInv'
<1>1. ClientInv(c) /\ mode[c] \in {"ws", "poll"}
    BY OfReceiver
<1>2. CASE Connect(c)
    <2>1. mode[c] = "ws"
        BY <1>1, <1>2 DEF Connect, ClientStep, ClientInv, StageAt
    <2> QED  BY <1>2, <2>1, MoveKeeps DEF Connect, Stages
<1>3. CASE StartMsg(c)
    <2>1. mode[c] = "ws"
        BY <1>1, <1>3 DEF StartMsg, ClientStep, ClientInv, StageAt
    <2> QED  BY <1>3, <2>1, MoveKeeps DEF StartMsg, Stages
<1>4. CASE Ask(c)
    <2>1. mode[c] = "poll"
        BY <1>1, <1>4 DEF Ask, ClientStep, ClientInv, StageAt
    <2> QED  BY <1>4, <2>1, MoveKeeps DEF Ask, Stages
<1>5. CASE PollTimeout(c)
    <2>1. mode[c] = "poll"
        BY <1>1, <1>5 DEF PollTimeout, ClientStep, ClientInv, StageAt
    <2> QED  BY <1>5, <2>1, MoveKeeps DEF PollTimeout, Stages
<1> QED  BY <1>2, <1>3, <1>4, <1>5

\* What SetFilter sends ahead is what was caught, in its order.
LEMMA SetFilterKeeps ==
    ASSUME EventInv, NEW c \in Client, SetFilter(c)
    PROVE  EventInv'
<1>1. EventTypeOK /\ ClientInv(c) /\ PlaceAt(c) /\ start[c] <= clock /\ QueueInv
      /\ messages \in Seq(Message)
      /\ \A i \in DOMAIN messages : messages[i].id \in Nat /\ messages[i].id \in arrived
    BY OfReceiver DEF EventInv
<1> DEFINE n == Cardinality(Caught(c))
<1>2. PICK f \in [1 .. n -> Caught(c)] :
          /\ \A j, k \in 1 .. n : j < k => f[j] < f[k]
          /\ Range(f) = Caught(c)
          /\ wire' = [wire EXCEPT ![c] = @ \o [k \in 1 .. n |-> messages[f[k]]]]
    <2>1. PICK caught \in CatchUp(c) : wire' = [wire EXCEPT ![c] = @ \o caught]
        BY DEF SetFilter
    <2>2. PICK f \in [1 .. n -> Caught(c)] :
              /\ \A j, k \in 1 .. n : j < k => f[j] < f[k]
              /\ Range(f) = Caught(c)
              /\ caught = [k \in 1 .. n |-> messages[f[k]]]
        BY DEF CatchUp
    <2> QED  BY <2>1, <2>2
<1>3. Caught(c) \subseteq DOMAIN messages
    BY DEF Caught
<1>4. n \in Nat
    <2>0. Len(messages) \in Nat /\ DOMAIN messages = 1 .. Len(messages)
        BY <1>1
    <2>1. Caught(c) \subseteq 1 .. Len(messages) /\ IsFiniteSet(1 .. Len(messages))
      <3>1. IsFiniteSet(1 .. Len(messages))
        BY <2>0, FS_Interval
      <3> QED  BY <1>3, <2>0, <3>1
    <2>2. IsFiniteSet(Caught(c))
        BY <2>1, FS_Subset
    <2> QED  BY <2>2, FS_CardinalityType DEF n
<1>5. conn[c] = "started"
    BY DEF SetFilter, ClientStep
<1> HIDE DEF n
<1>6. wire[c] = <<>> /\ wire \in [Client -> Seq(Message)]
    BY <1>1, <1>5 DEF ClientInv, StageAt, EventTypeOK
<1> DEFINE sent == [k \in 1 .. n |-> messages[f[k]]]
<1>7. sent \in Seq(Message) /\ Len(sent) = n
    <2>1. \A k \in 1 .. n : messages[f[k]] \in Message
        BY <1>1, <1>2, <1>3
    <2> QED  BY <1>4, <2>1
<1>8. wire' \in [Client -> Seq(Message)] /\ wire'[c] = sent
      /\ \A d \in Client \ {c} : wire'[d] = wire[d]
    <2>1. <<>> \o sent = sent
        BY <1>7
    <2> QED  BY <1>2, <1>6, <1>7, <2>1
<1>9. /\ conn[c] = "started" /\ conn'[c] = "following" /\ OthersKept(c) /\ EventTypeOK'
      /\ UNCHANGED <<source, mode, clock, messages, sending, arrived, late>>
      /\ UNCHANGED <<start, lastMsg, seen, breaks>>
    BY <1>8, StageStep DEF SetFilter, Stages
\* Each message sent is one that was caught.
<1>10. \A k \in DOMAIN wire'[c] : /\ k \in 1 .. n /\ f[k] \in Caught(c)
                                  /\ f[k] \in DOMAIN messages /\ wire'[c][k] = messages[f[k]]
    BY <1>2, <1>3, <1>8
<1>11. PlaceAt(c)'
    BY <1>1, <1>9, <1>10 DEF PlaceAt
<1>12. StageAt(c)'
    BY <1>1, <1>9 DEF ClientInv, StageAt
<1>13. SkipAt(c)'
    <2> SUFFICES ASSUME NEW i \in DOMAIN messages, DueAt(c, i)'
                 PROVE  messages[i].id \in Ids(wire'[c])
        BY <1>9 DEF SkipAt
    <2>1. Wants(c, messages[i]) /\ messages[i].id > start[c] /\ messages[i].id \notin late
        BY <1>9 DEF DueAt, Due, Wants
    <2>2. \A j \in 1 .. i - 1 : messages[j].id < messages[i].id
        BY <1>1, <2>1 DEF QueueInv
    <2>3. i \in Caught(c)
        BY <2>1, <2>2 DEF Caught
    <2>4. PICK k \in 1 .. n : f[k] = i
        BY <1>2, <2>3 DEF Range
    <2>5. k \in DOMAIN wire'[c] /\ wire'[c][k] = messages[i]
        BY <1>8, <2>4
    <2> QED  BY <2>5 DEF Ids, Range
<1>14. AnswerAt(c)'
    BY <1>9 DEF AnswerAt
<1>15. ForwardAt(c)'
    <2> SUFFICES ASSUME ~Excepted(c)
                 PROVE  /\ \A j, k \in DOMAIN wire'[c] : j < k => wire'[c][j].id < wire'[c][k].id
                        /\ \A k \in DOMAIN wire'[c] : wire'[c][k].id >= lastMsg[c]
        BY <1>9 DEF ForwardAt, Excepted
    <2>1. \A j, k \in DOMAIN wire'[c] : j < k => wire'[c][j].id < wire'[c][k].id
        <3> TAKE j, k \in DOMAIN wire'[c]
        <3> HAVE j < k
        <3>1. f[j] < f[k] /\ f[j] \in DOMAIN messages /\ f[k] \in Caught(c)
            BY <1>2, <1>10
        <3>2. f[j] \in 1 .. f[k] - 1
            BY <1>1, <1>10, <3>1
        <3>3. messages[f[j]].id < messages[f[k]].id
            BY <3>1, <3>2 DEF Caught
        <3> QED  BY <1>10, <3>3
    <2>2. mode[c] = "ws"
        BY <1>1, <1>5 DEF ClientInv, StageAt, EventTypeOK
    <2>3. \A i \in DOMAIN messages : messages[i].id > start[c] => messages[i].id >= lastMsg[c]
        BY <1>1, <1>5, <2>2 DEF ClientInv, ForwardAt
    <2>4. \A k \in DOMAIN wire'[c] : wire'[c][k].id >= lastMsg[c]
        BY <1>10, <2>3 DEF Caught
    <2> QED  BY <2>1, <2>4
<1> QED  BY <1>1, <1>9, <1>11, <1>12, <1>13, <1>14, <1>15, OneReceiver DEF ClientInv

\* An answer is the first message that fits; what is due behind it is newer.
LEMMA PollKeeps ==
    ASSUME EventInv, NEW c \in Client, Poll(c)
    PROVE  EventInv'
<1> DEFINE fits == {i \in DOMAIN messages : Wants(c, messages[i]) /\ messages[i].id > lastMsg[c]}
<1>1. EventTypeOK /\ ClientInv(c) /\ PlaceAt(c) /\ start[c] <= clock /\ QueueInv
      /\ messages \in Seq(Message) /\ lastMsg[c] \in Nat
      /\ \A i \in DOMAIN messages : messages[i].id \in Nat /\ messages[i].id \in arrived
    BY OfReceiver DEF EventInv
<1>2. conn[c] = "asked"
    BY DEF Poll, Answer, ClientStep
<1>3. /\ mode[c] = "poll" /\ wire[c] = <<>> /\ Ids(wire[c]) = {}
      /\ wire \in [Client -> Seq(Message)]
    BY <1>1, <1>2 DEF ClientInv, StageAt, EventTypeOK, Ids, Range
<1>4. \A i \in DOMAIN messages : DueAt(c, i) => i \in fits
    BY <1>1, <1>2, <1>3 DEF ClientInv, SkipAt, DueAt, Due
<1>5. CASE fits = {} /\ ClientStep(c, "asked", "parked") /\ UNCHANGED wire
    <2>1. /\ conn'[c] = "parked" /\ OthersKept(c) /\ EventTypeOK'
          /\ UNCHANGED <<source, mode, clock, messages, sending, arrived, late>>
          /\ UNCHANGED <<start, lastMsg, seen, breaks>>
        BY <1>3, <1>5, StageStep DEF Stages
    <2>2. PlaceAt(c)' /\ StageAt(c)' /\ AnswerAt(c)' /\ ForwardAt(c)'
        BY <1>1, <1>3, <1>5, <2>1
        DEF ClientInv, PlaceAt, StageAt, AnswerAt, ForwardAt, Excepted
    <2>3. SkipAt(c)'
        <3>1. \A i \in DOMAIN messages : DueAt(c, i)' => DueAt(c, i)
            BY <1>2, <2>1 DEF DueAt, Due, Wants
        <3> QED  BY <1>4, <1>5, <2>1, <3>1 DEF SkipAt
    <2> QED  BY <1>1, <2>1, <2>2, <2>3, OneReceiver DEF ClientInv
<1>6. ASSUME NEW i \in fits, \A j \in fits : i <= j, ClientStep(c, "asked", "answered"),
             wire' = [wire EXCEPT ![c] = <<messages[i]>>]
      PROVE  EventInv'
    <2>1. wire' \in [Client -> Seq(Message)] /\ wire'[c] = <<messages[i]>>
          /\ \A d \in Client \ {c} : wire'[d] = wire[d]
        <3>1. messages[i] \in Message
            BY <1>1
        <3> QED  BY <1>3, <1>6, <3>1
    <2>2. /\ conn'[c] = "answered" /\ OthersKept(c) /\ EventTypeOK'
          /\ UNCHANGED <<source, mode, clock, messages, sending, arrived, late>>
          /\ UNCHANGED <<start, lastMsg, seen, breaks>>
        BY <1>6, <2>1, StageStep DEF Stages
    <2>3. \A k \in DOMAIN wire'[c] : k = 1 /\ wire'[c][k] = messages[i]
        BY <2>1
    <2>4. PlaceAt(c)'
        BY <1>1, <2>2, <2>3 DEF PlaceAt
    <2>5. StageAt(c)'
        BY <1>3, <2>1, <2>2 DEF StageAt
    <2>6. \A j \in DOMAIN messages : DueAt(c, j)' => DueAt(c, j) /\ j \in fits
        BY <1>2, <1>4, <2>2 DEF DueAt, Due, Wants
    <2>7. SkipAt(c)'
        BY <1>3, <2>2, <2>6 DEF SkipAt
    <2>8. AnswerAt(c)'
        <3> SUFFICES ASSUME NEW j \in DOMAIN messages, DueAt(c, j)
                     PROVE  messages[j].id > lastMsg[c] /\ messages[j].id >= messages[i].id
            BY <2>1, <2>2, <2>6 DEF AnswerAt
        <3>1. j \in fits /\ i <= j /\ messages[j].id \notin late
            BY <1>4, <1>6 DEF DueAt, Due
        <3>2. i = j \/ (i < j /\ messages[i].id < messages[j].id)
            BY <1>1, <3>1 DEF QueueInv
        <3> QED  BY <1>1, <3>1, <3>2
    <2>9. ForwardAt(c)'
        BY <1>1, <1>3, <2>2, <2>3 DEF ForwardAt
    <2> QED  BY <1>1, <2>2, <2>4, <2>5, <2>7, <2>8, <2>9, OneReceiver DEF ClientInv
<1> QED  BY <1>5, <1>6 DEF Poll, Answer

\* A message is passed to the page; what is behind it is newer.
LEMMA ReceiveKeeps ==
    ASSUME EventInv, NEW c \in Client, Receive(c)
    PROVE  /\ EventInv'
           /\ ~Excepted(c) => \/ lastMsg'[c] >= lastMsg[c]
                              \/ source = "publisher" /\ lastMsg'[c] < start[c]
<1>1. /\ EventTypeOK /\ ClientInv(c) /\ PlaceAt(c) /\ start[c] <= clock
      /\ messages \in Seq(Message) /\ wire[c] \in Seq(Message) /\ mode[c] \in {"ws", "poll"}
      /\ \A i \in DOMAIN messages : messages[i].id \in Nat
      /\ \A k \in DOMAIN wire[c] : wire[c][k].id \in Nat
    BY OfReceiver DEF EventInv
<1>2. /\ wire[c] # <<>>
      /\ lastMsg'[c] = Head(wire[c]).id /\ seen'[c] = seen[c] \cup {Head(wire[c]).id}
      /\ wire'[c] = Tail(wire[c])
      /\ conn'[c] = IF conn[c] = "answered" THEN "idle" ELSE conn[c]
      /\ OthersKept(c) /\ start' = start /\ breaks' = breaks
      /\ UNCHANGED <<source, mode, clock, messages, sending, restarts, arrived, late>>
    BY <1>1 DEF Receive, EventTypeOK, OthersKept, daemonVars
<1> DEFINE m == wire[c][1]
<1>3. /\ Len(wire[c]) \in Nat \ {0} /\ 1 \in DOMAIN wire[c] /\ Head(wire[c]) = m
      /\ m.id \in Nat
      /\ \A k \in DOMAIN wire'[c] : k \in Nat \ {0} /\ k + 1 \in DOMAIN wire[c]
                                    /\ wire'[c][k] = wire[c][k + 1]
      /\ \A k \in DOMAIN wire[c] : k > 1 => k - 1 \in DOMAIN wire'[c]
                                            /\ wire'[c][k - 1] = wire[c][k]
    <2>1. Len(wire[c]) \in Nat \ {0} /\ 1 \in DOMAIN wire[c] /\ Head(wire[c]) = m
        BY <1>1, <1>2
    <2>2. m.id \in Nat
        <3>1. \A k \in DOMAIN wire[c] : wire[c][k].id \in Nat
            BY <1>1
        <3> QED  BY <2>1, <3>1
    <2>3. /\ DOMAIN wire'[c] = 1 .. Len(wire[c]) - 1
          /\ \A k \in 1 .. Len(wire[c]) - 1 : wire'[c][k] = wire[c][k + 1]
        BY <1>1, <1>2
    <2>4. DOMAIN wire[c] = 1 .. Len(wire[c])
        BY <1>1
    <2>5. \A k \in DOMAIN wire'[c] : k \in Nat \ {0} /\ k + 1 \in DOMAIN wire[c]
                                      /\ wire'[c][k] = wire[c][k + 1]
        BY <2>1, <2>3, <2>4
    <2>6. \A k \in DOMAIN wire[c] : k > 1 => k - 1 \in DOMAIN wire'[c]
                                              /\ wire'[c][k - 1] = wire[c][k]
        BY <2>1, <2>3, <2>4
    <2> QED  BY <2>1, <2>2, <2>5, <2>6
<1>4. EventTypeOK'
    <2>1. /\ wire \in [Client -> Seq(Message)] /\ lastMsg \in [Client -> Nat]
          /\ seen \in [Client -> SUBSET Nat] /\ conn \in [Client -> Stages]
        BY <1>1 DEF EventTypeOK
    <2>2. wire' \in [Client -> Seq(Message)]
        BY <1>1, <1>2, <2>1 DEF Receive
    <2>3. lastMsg' \in [Client -> Nat] /\ seen' \in [Client -> SUBSET Nat]
        BY <1>3, <2>1 DEF Receive
    <2>4. conn' \in [Client -> Stages]
        BY <2>1 DEF Receive, Stages
    <2> QED  BY <1>1, <1>2, <2>2, <2>3, <2>4 DEF EventTypeOK
<1>5. (mode[c] = "ws" /\ conn[c] = "following") \/ (mode[c] = "poll" /\ conn[c] = "answered")
    BY <1>1, <1>2 DEF ClientInv, StageAt
<1>6. PlaceAt(c)'
    BY <1>1, <1>2, <1>3 DEF PlaceAt
<1>7. StageAt(c)'
    BY <1>1, <1>2, <1>3, <1>5 DEF ClientInv, StageAt
<1>8. SkipAt(c)'
    <2> SUFFICES ASSUME NEW i \in DOMAIN messages, DueAt(c, i)'
                 PROVE  \/ messages[i].id \in Ids(wire'[c])
                        \/ mode[c] = "poll" /\ conn'[c] # "parked" /\ messages[i].id > m.id
        BY <1>2, <1>3 DEF SkipAt
    <2>1. DueAt(c, i) /\ messages[i].id # m.id
        BY <1>2, <1>3, <1>5 DEF DueAt, Due, Wants
    <2>2. CASE mode[c] = "ws" /\ conn[c] = "following"
        <3>1. messages[i].id \in Ids(wire[c])
            BY <1>1, <2>1, <2>2 DEF ClientInv, SkipAt
        <3>2. PICK k \in DOMAIN wire[c] : messages[i].id = wire[c][k].id
            BY <3>1 DEF Ids, Range
        <3>3. k > 1
            BY <1>1, <2>1, <3>2
        <3> QED  BY <1>3, <3>2, <3>3 DEF Ids, Range
    <2>3. CASE mode[c] = "poll" /\ conn[c] = "answered"
        <3>1. messages[i].id >= m.id
            BY <1>1, <2>1, <2>3 DEF ClientInv, AnswerAt
        <3> QED  BY <1>1, <1>2, <1>3, <2>1, <2>3, <3>1
    <2> QED  BY <1>5, <2>2, <2>3
<1>9. AnswerAt(c)'
    BY <1>2 DEF AnswerAt
<1>10. ForwardAt(c)'
    <2> SUFFICES ASSUME ~Excepted(c)
                 PROVE  /\ \A j, k \in DOMAIN wire'[c] : j < k => wire'[c][j].id < wire'[c][k].id
                        /\ \A k \in DOMAIN wire'[c] : wire'[c][k].id >= m.id
        BY <1>2, <1>3, <1>5 DEF ForwardAt, Excepted
    <2>1. \A j, k \in DOMAIN wire[c] : j < k => wire[c][j].id < wire[c][k].id
        BY <1>1 DEF ClientInv, ForwardAt
    <2>2. \A k \in DOMAIN wire'[c] : wire'[c][k].id >= m.id
        <3> TAKE k \in DOMAIN wire'[c]
        <3>1. k \in Nat \ {0} /\ 1 < k + 1 /\ k + 1 \in DOMAIN wire[c] /\ wire'[c][k] = wire[c][k + 1]
            BY <1>3
        <3>2. wire[c][1].id < wire[c][k + 1].id
            <4>1. 1 \in DOMAIN wire[c]
                BY <1>3
            <4> QED  BY <2>1, <3>1, <4>1
        <3>3. wire[c][k + 1].id \in Nat
            <4>1. \A i \in DOMAIN wire[c] : wire[c][i].id \in Nat
                BY <1>1
            <4> QED  BY <3>1, <4>1
        <3> QED  BY <1>3, <3>1, <3>2, <3>3
    <2>3. \A j, k \in DOMAIN wire'[c] : j < k => wire'[c][j].id < wire'[c][k].id
        <3> TAKE j, k \in DOMAIN wire'[c]
        <3> HAVE j < k
        <3>1. j + 1 < k + 1
            BY <1>3
        <3> QED  BY <1>3, <2>1, <3>1
    <2> QED  BY <2>2, <2>3
<1>11. ~Excepted(c) => \/ lastMsg'[c] >= lastMsg[c]
                       \/ source = "publisher" /\ lastMsg'[c] < start[c]
    BY <1>1, <1>2, <1>3 DEF ClientInv, ForwardAt
<1> QED  BY <1>1, <1>2, <1>4, <1>6, <1>7, <1>8, <1>9, <1>10, <1>11, OneReceiver DEF ClientInv

\* A lost connection loses what was on its way, and nothing that c will not ask for.
LEMMA BreakKeeps ==
    ASSUME EventInv, NEW c \in Client, Break(c)
    PROVE  EventInv'
<1>1. EventTypeOK /\ ClientInv(c) /\ PlaceAt(c) /\ start[c] <= clock
      /\ mode[c] \in {"ws", "poll"} /\ breaks[c] \in Nat
    BY OfReceiver DEF EventInv
<1>2. /\ conn[c] # "absent" /\ conn'[c] = Fresh(c) /\ wire'[c] = <<>> /\ breaks'[c] = breaks[c] + 1
      /\ OthersKept(c) /\ UNCHANGED <<start, lastMsg, seen>>
      /\ UNCHANGED <<source, mode, clock, messages, sending, restarts, arrived, late>>
    BY <1>1 DEF Break, EventTypeOK, OthersKept, daemonVars
<1>3. EventTypeOK'
    <2>1. /\ wire \in [Client -> Seq(Message)] /\ breaks \in [Client -> Nat]
          /\ conn \in [Client -> Stages]
        BY <1>1 DEF EventTypeOK
    <2>2. wire' \in [Client -> Seq(Message)] /\ breaks' \in [Client -> Nat]
          /\ conn' \in [Client -> Stages]
        BY <1>1, <2>1 DEF Break, Fresh, Stages
    <2> QED  BY <1>1, <1>2, <2>2 DEF EventTypeOK
<1>4. PlaceAt(c)' /\ StageAt(c)' /\ AnswerAt(c)' /\ ForwardAt(c)'
    BY <1>1, <1>2 DEF PlaceAt, StageAt, AnswerAt, ForwardAt, Excepted, Fresh
<1>5. SkipAt(c)'
    <2> SUFFICES ASSUME NEW i \in DOMAIN messages, DueAt(c, i)', mode[c] = "poll"
                 PROVE  messages[i].id > lastMsg[c]
        BY <1>1, <1>2 DEF SkipAt, Fresh
    <2>1. DueAt(c, i)
        BY <1>2 DEF DueAt, Due, Wants
    <2>2. CASE conn[c] = "answered"
        BY <1>1, <2>1, <2>2 DEF ClientInv, AnswerAt
    <2>3. CASE conn[c] # "answered"
        <3>1. Ids(wire[c]) = {}
            BY <1>1, <2>3 DEF ClientInv, StageAt, Ids, Range
        <3> QED  BY <1>1, <2>1, <3>1 DEF ClientInv, SkipAt
    <2> QED  BY <2>2, <2>3
<1> QED  BY <1>1, <1>2, <1>3, <1>4, <1>5, OneReceiver DEF ClientInv

-----------------------------------------------------------------------------
(* Steps of the posters, of the broker and of the daemon.                  *)

LEMMA PostKeeps ==
    ASSUME EventInv, NEW p \in Poster, NEW ch \in Channel, NEW t \in Type, Post(p, ch, t)
    PROVE  EventInv' /\ lastMsg' = lastMsg
<1> DEFINE m == [id |-> clock + 1, channel |-> ch, type |-> t]
<1>1. /\ EventTypeOK /\ PlaceInv /\ ClockInv /\ SendingInv /\ QueueInv
      /\ \A c \in Client : ClientInv(c)
    BY DEF EventInv
<1>2. clock \in Nat /\ arrived \in SUBSET Nat /\ start \in [Client -> Nat]
    BY <1>1 DEF EventTypeOK
<1>3. m \in Message /\ m.id = clock + 1
    BY <1>2 DEF Message
<1>4. m.id \notin arrived
    BY <1>1, <1>2, <1>3 DEF ClockInv
<1>5. UNCHANGED <<source, mode, restarts, start, lastMsg, seen, breaks>> /\ clock' = clock + 1
    BY DEF Post, PostToDaemon, PostToBroker
<1>6. CASE PostToDaemon(p, ch, t)
    <2>1. source = "daemon" /\ Arrive(m) /\ sending' = sending
        BY <1>6 DEF PostToDaemon
    <2>2. \A c \in Client : start[c] < m.id
        BY <1>1, <1>2, <1>3 DEF ClockInv
    <2>3. /\ messages' \in Seq(Message) /\ Len(messages') <= MaxQueue
          /\ wire' \in [Client -> Seq(Message)] /\ conn' \in [Client -> Stages]
          /\ arrived' \in SUBSET Nat /\ late' \in SUBSET arrived'
          /\ PlaceInv' /\ QueueInv' /\ \A c \in Client : ClientInv(c)'
        BY <1>3, <1>4, <1>5, <2>1, <2>2, ArriveKeeps
    <2>4. EventTypeOK'
        BY <1>1, <1>2, <1>5, <2>1, <2>3 DEF EventTypeOK
    <2>5. ClockInv'
        BY <1>1, <1>2, <1>3, <1>5, <2>1 DEF ClockInv, Arrive
    <2>6. SendingInv'
        BY <1>1, <1>5, <2>1 DEF SendingInv
    <2> QED  BY <1>5, <2>3, <2>4, <2>5, <2>6 DEF EventInv
<1>7. CASE PostToBroker(p, ch, t)
    <2>1. /\ source = "publisher" /\ UNCHANGED <<messages, wire, conn, arrived, late>>
          /\ sending' = [sending EXCEPT ![p] = Append(@, m)]
        BY <1>7 DEF PostToBroker
    <2>2. sending \in [Poster -> Seq(Message)] /\ sending[p] \in Seq(Message)
        BY <1>1 DEF EventTypeOK
    <2>3. EventTypeOK'
        <3>1. sending' \in [Poster -> Seq(Message)]
            BY <1>3, <2>1, <2>2
        <3> QED  BY <1>1, <1>2, <1>5, <2>1, <3>1 DEF EventTypeOK
    <2>4. PlaceInv' /\ QueueInv'
        BY <1>1, <1>5, <2>1 DEF PlaceInv, PlaceAt, QueueInv
    <2>5. ClockInv'
        BY <1>1, <1>2, <1>5, <2>1 DEF ClockInv
    \* What p has on its way: the old messages, and the new one at the end.
    <2>6. \A q \in Poster : \A i \in DOMAIN sending'[q] :
              \/ i \in DOMAIN sending[q] /\ sending'[q][i] = sending[q][i]
              \/ q = p /\ i = Len(sending[p]) + 1 /\ sending'[q][i] = m
        <3>1. \A i \in DOMAIN sending'[p] :
                  \/ i \in DOMAIN sending[p] /\ sending'[p][i] = sending[p][i]
                  \/ i = Len(sending[p]) + 1 /\ sending'[p][i] = m
            <4>1. sending'[p] = Append(sending[p], m)
                BY <2>1, <2>2
            <4> QED  BY <2>2, <4>1
        <3>2. \A q \in Poster \ {p} : sending'[q] = sending[q]
            BY <2>1, <2>2
        <3> QED  BY <3>1, <3>2
    <2>7. \A q \in Poster : \A i \in DOMAIN sending[q] :
              sending[q][i].id <= clock /\ sending[q][i].id \in Nat
        <3> TAKE q \in Poster
        <3> TAKE i \in DOMAIN sending[q]
        <3>1. sending[q][i] \in Message
            BY <2>2
        <3> QED  BY <1>1, <3>1 DEF SendingInv, Message
    <2>8. SendingInv'
        <3>1. \A q \in Poster : \A i \in DOMAIN sending'[q] :
                  sending'[q][i].id <= clock' /\ sending'[q][i].id \notin arrived'
            BY <1>1, <1>2, <1>3, <1>4, <1>5, <2>1, <2>6, <2>7 DEF SendingInv
        <3>2. ASSUME NEW q \in Poster, NEW r \in Poster,
                     NEW i \in DOMAIN sending'[q], NEW j \in DOMAIN sending'[r],
                     sending'[q][i].id = sending'[r][j].id
              PROVE  q = r /\ i = j
            <4>1. CASE i \in DOMAIN sending[q] /\ j \in DOMAIN sending[r]
                       /\ sending'[q][i] = sending[q][i] /\ sending'[r][j] = sending[r][j]
                BY <1>1, <3>2, <4>1 DEF SendingInv
            <4>2. \A s \in Poster : \A k \in DOMAIN sending[s] : sending[s][k].id # m.id
                BY <1>2, <1>3, <2>7
            <4> QED  BY <2>6, <3>2, <4>1, <4>2
        <3> QED  BY <1>5, <2>1, <3>1, <3>2 DEF SendingInv
    <2>9. \A c \in Client : ClientInv(c)'
        BY <1>1, <1>5, <2>1
        DEF ClientInv, StageAt, SkipAt, AnswerAt, ForwardAt, Excepted, DueAt, Due, Wants, Ids
    <2> QED  BY <1>5, <2>3, <2>4, <2>5, <2>8, <2>9 DEF EventInv
<1> QED  BY <1>6, <1>7 DEF Post

LEMMA DeliverKeeps ==
    ASSUME EventInv, NEW p \in Poster, Deliver(p)
    PROVE  EventInv' /\ lastMsg' = lastMsg
<1> DEFINE m == Head(sending[p])
<1>1. /\ EventTypeOK /\ PlaceInv /\ ClockInv /\ SendingInv /\ QueueInv
      /\ \A c \in Client : ClientInv(c)
    BY DEF EventInv
<1>2. /\ sending[p] # <<>> /\ Arrive(m) /\ sending' = [sending EXCEPT ![p] = Tail(@)]
      /\ UNCHANGED <<source, mode, clock, restarts, start, lastMsg, seen, breaks>>
    BY DEF Deliver
<1>3. sending \in [Poster -> Seq(Message)] /\ sending[p] \in Seq(Message) /\ arrived \in SUBSET Nat
    BY <1>1 DEF EventTypeOK
<1>4. /\ m \in Message /\ 1 \in DOMAIN sending[p] /\ m = sending[p][1]
      /\ Tail(sending[p]) \in Seq(Message)
      /\ \A i \in DOMAIN Tail(sending[p]) :
            i \in Nat \ {0} /\ i + 1 \in DOMAIN sending[p] /\ Tail(sending[p])[i] = sending[p][i + 1]
    BY <1>2, <1>3
<1>5. m.id \notin arrived /\ m.id <= clock
    BY <1>1, <1>4 DEF SendingInv
<1>6. source # "daemon"
    BY <1>1, <1>2 DEF SendingInv
<1>7. /\ messages' \in Seq(Message) /\ Len(messages') <= MaxQueue
      /\ wire' \in [Client -> Seq(Message)] /\ conn' \in [Client -> Stages]
      /\ arrived' \in SUBSET Nat /\ late' \in SUBSET arrived'
      /\ PlaceInv' /\ QueueInv' /\ \A c \in Client : ClientInv(c)'
    BY <1>2, <1>4, <1>5, <1>6, ArriveKeeps
<1>8. EventTypeOK'
    <2>1. sending' \in [Poster -> Seq(Message)]
        BY <1>2, <1>3, <1>4
    <2> QED  BY <1>1, <1>2, <1>7, <2>1 DEF EventTypeOK
<1>9. ClockInv'
    BY <1>1, <1>2, <1>5 DEF ClockInv, Arrive
\* Where what is left was before.
<1>10. \A q \in Poster : \A i \in DOMAIN sending'[q] :
          \/ q # p /\ i \in DOMAIN sending[q] /\ sending'[q][i] = sending[q][i]
          \/ q = p /\ i \in Nat \ {0} /\ i + 1 \in DOMAIN sending[p] /\ sending'[q][i] = sending[p][i + 1]
    <2>1. sending'[p] = Tail(sending[p]) /\ \A q \in Poster \ {p} : sending'[q] = sending[q]
        BY <1>2, <1>3
    <2> QED  BY <1>4, <2>1
<1>11. SendingInv'
    <2>1. ASSUME NEW q \in Poster, NEW i \in DOMAIN sending'[q]
          PROVE  sending'[q][i].id <= clock /\ sending'[q][i].id \notin arrived'
        <3>1. arrived' = arrived \cup {m.id}
            BY <1>2 DEF Arrive
        <3>2. CASE q # p /\ i \in DOMAIN sending[q] /\ sending'[q][i] = sending[q][i]
            BY <1>1, <1>4, <3>1, <3>2 DEF SendingInv
        <3>3. CASE q = p /\ i \in Nat \ {0} /\ i + 1 \in DOMAIN sending[p] /\ sending'[q][i] = sending[p][i + 1]
            <4>1. sending[p][i + 1].id # m.id
                <5>1. i + 1 # 1
                    BY <3>3
                <5> QED  BY <1>1, <1>4, <3>3, <5>1 DEF SendingInv
            <4> QED  BY <1>1, <3>1, <3>3, <4>1 DEF SendingInv
        <3> QED  BY <1>10, <3>2, <3>3
    <2>2. ASSUME NEW q \in Poster, NEW r \in Poster,
                 NEW i \in DOMAIN sending'[q], NEW j \in DOMAIN sending'[r],
                 sending'[q][i].id = sending'[r][j].id
          PROVE  q = r /\ i = j
        <3>1. CASE q = p /\ r = p
            <4>1. /\ i \in Nat /\ i + 1 \in DOMAIN sending[p] /\ sending'[q][i] = sending[p][i + 1]
                  /\ j \in Nat /\ j + 1 \in DOMAIN sending[p] /\ sending'[r][j] = sending[p][j + 1]
                BY <1>10, <3>1
            <4>2. i + 1 = j + 1
                BY <1>1, <2>2, <4>1 DEF SendingInv
            <4> QED  BY <3>1, <4>1, <4>2
        <3>2. CASE q # p \/ r # p
            BY <1>1, <1>10, <2>2, <3>2 DEF SendingInv
        <3> QED  BY <3>1, <3>2
    <2> QED  BY <1>2, <1>6, <2>1, <2>2 DEF SendingInv
<1> QED  BY <1>2, <1>7, <1>8, <1>9, <1>11 DEF EventInv

LEMMA RestartKeeps ==
    ASSUME EventInv, Restart
    PROVE  EventInv' /\ lastMsg' = lastMsg
<1>1. /\ EventTypeOK /\ PlaceInv /\ ClockInv /\ SendingInv
      /\ \A c \in Client : ClientInv(c)
    BY DEF EventInv
<1>2. /\ clock' = clock + 1 /\ restarts' = restarts + 1 /\ messages' = <<>>
      /\ wire' = [c \in Client |-> <<>>]
      /\ UNCHANGED <<source, mode, arrived, late, start, lastMsg, seen, breaks>>
    BY DEF Restart
<1>3. conn' \in [Client -> Stages]
    <2>1. conn \in [Client -> Stages]
        BY <1>1 DEF EventTypeOK
    <2> QED  BY <2>1 DEF Restart, Fresh, Stages
<1>4. sending' = sending \/ sending' = [p \in Poster |-> <<>>]
    BY DEF Restart
<1>5. EventTypeOK'
    <2>1. sending' \in [Poster -> Seq(Message)]
        <3>1. CASE sending' = sending
            BY <1>1, <3>1 DEF EventTypeOK
        <3>2. CASE sending' = [p \in Poster |-> <<>>]
            <4>1. <<>> \in Seq(Message)
                OBVIOUS
            <4> QED  BY <3>2, <4>1
        <3> QED  BY <1>4, <3>1, <3>2
    <2>2. Len(messages') <= MaxQueue /\ messages' \in Seq(Message)
        BY <1>2, DaemonAssumption
    <2> QED  BY <1>1, <1>2, <1>3, <2>1, <2>2 DEF EventTypeOK
<1>6. DOMAIN messages' = {} /\ \A c \in Client : DOMAIN wire'[c] = {} /\ wire'[c] = <<>>
    BY <1>2
<1>7. PlaceInv' /\ QueueInv'
    BY <1>1, <1>2, <1>6 DEF PlaceInv, PlaceAt, QueueInv
<1>8. ClockInv'
    BY <1>1, <1>2 DEF ClockInv, EventTypeOK
<1>9. SendingInv'
    <2>1. CASE sending' = sending
        <3>1. \A p \in Poster : \A i \in DOMAIN sending[p] : sending[p][i].id \in Nat
            <4> TAKE p \in Poster
            <4> TAKE i \in DOMAIN sending[p]
            <4>1. sending[p][i] \in Message
                BY <1>1 DEF EventTypeOK
            <4> QED  BY <4>1 DEF Message
        <3> QED  BY <1>1, <1>2, <2>1, <3>1 DEF SendingInv, EventTypeOK
    <2>2. CASE sending' = [p \in Poster |-> <<>>]
        <3>1. \A p \in Poster : sending'[p] = <<>> /\ DOMAIN sending'[p] = {}
            BY <2>2
        <3> QED  BY <3>1 DEF SendingInv
    <2> QED  BY <1>4, <2>1, <2>2
<1>10. ASSUME NEW c \in Client PROVE ClientInv(c)'
    <2>1. conn'[c] = IF conn[c] = "absent" THEN "absent" ELSE Fresh(c)
        BY DEF Restart
    <2>2. StageAt(c)'
        <3>1. mode[c] \in {"ws", "poll"}
            BY <1>1 DEF EventTypeOK
        <3> QED  BY <1>1, <1>2, <1>6, <2>1, <3>1 DEF ClientInv, StageAt, Fresh
    <2>3. SkipAt(c)' /\ AnswerAt(c)' /\ ForwardAt(c)'
        BY <1>6 DEF SkipAt, AnswerAt, ForwardAt
    <2> QED  BY <2>2, <2>3 DEF ClientInv
<1> QED  BY <1>2, <1>5, <1>7, <1>8, <1>9, <1>10 DEF EventInv

-----------------------------------------------------------------------------
(* Every step.                                                             *)

LEMMA InitEventInv ==
    ASSUME EventInit
    PROVE  EventInv
<1>1. /\ messages = <<>> /\ DOMAIN messages = {} /\ arrived = {} /\ late = {}
      /\ \A p \in Poster : sending[p] = <<>> /\ DOMAIN sending[p] = {}
      /\ \A c \in Client : /\ wire[c] = <<>> /\ DOMAIN wire[c] = {} /\ conn[c] = "absent"
                           /\ start[c] = 0 /\ lastMsg[c] = 0 /\ seen[c] = {}
    BY DEF EventInit
<1>2. EventTypeOK
    <2>1. Len(messages) <= MaxQueue /\ messages \in Seq(Message)
        BY <1>1, DaemonAssumption
    <2>2. wire \in [Client -> Seq(Message)] /\ sending \in [Poster -> Seq(Message)]
        BY DEF EventInit
    <2> QED  BY <2>1, <2>2 DEF EventInit, EventTypeOK, Stages
<1>3. PlaceInv /\ QueueInv /\ SendingInv
    BY <1>1 DEF PlaceInv, PlaceAt, QueueInv, SendingInv
<1>4. ClockInv
    BY <1>1 DEF ClockInv, EventInit
<1>5. \A c \in Client : ClientInv(c)
    BY <1>1 DEF ClientInv, StageAt, SkipAt, AnswerAt, ForwardAt
<1> QED  BY <1>2, <1>3, <1>4, <1>5 DEF EventInv

LEMMA IdleKeepsEvents ==
    ASSUME EventInv, UNCHANGED eventVars
    PROVE  EventInv'
<1>1. /\ UNCHANGED <<source, mode, clock, messages, sending, restarts, arrived, late>>
      /\ UNCHANGED <<conn, start, lastMsg, wire, seen, breaks>>
    BY DEF eventVars, daemonVars, clientVars
<1>2. EventTypeOK' /\ PlaceInv' /\ ClockInv' /\ SendingInv' /\ QueueInv'
    BY <1>1 DEF EventInv, EventTypeOK, PlaceInv, PlaceAt, ClockInv, SendingInv, QueueInv
<1>3. \A c \in Client : ClientInv(c)'
    BY <1>1 DEF EventInv, ClientInv, StageAt, SkipAt, AnswerAt, ForwardAt, Excepted,
                DueAt, Due, Wants, Ids
<1> QED  BY <1>2, <1>3 DEF EventInv

\* What Forward says of a step.
Forwards ==
    \A c \in Client :
        \/ lastMsg'[c] >= lastMsg[c]
        \/ mode[c] = "ws" /\ breaks[c] > 0
        \/ late # {}
        \/ source = "publisher" /\ lastMsg'[c] < start[c]

LEMMA EventStepKeeps ==
    ASSUME EventInv, EventStep
    PROVE  EventInv' /\ Forwards
<1>1. \A c \in Client : lastMsg[c] \in Nat
    BY DEF EventInv, EventTypeOK
<1>2. lastMsg' = lastMsg => Forwards
    BY <1>1 DEF Forwards
<1>3. ASSUME NEW p \in Poster, NEW ch \in Channel, NEW t \in Type, Post(p, ch, t)
      PROVE  EventInv' /\ Forwards
    BY <1>2, <1>3, PostKeeps
<1>4. ASSUME NEW p \in Poster, Deliver(p) PROVE EventInv' /\ Forwards
    BY <1>2, <1>4, DeliverKeeps
<1>5. ASSUME Restart PROVE EventInv' /\ Forwards
    BY <1>2, <1>5, RestartKeeps
<1>6. ASSUME NEW c \in Client, \A d \in Client \ {c} : lastMsg'[d] = lastMsg[d],
             \/ lastMsg'[c] >= lastMsg[c]
             \/ Excepted(c)
             \/ source = "publisher" /\ lastMsg'[c] < start[c]
      PROVE  Forwards
    BY <1>1, <1>6 DEF Forwards, Excepted
<1>7. ASSUME NEW c \in Client,
             \/ Open(c, clock)
             \/ Connect(c) \/ StartMsg(c) \/ SetFilter(c)
             \/ Ask(c) \/ Poll(c) \/ PollTimeout(c)
             \/ Receive(c) \/ Break(c)
      PROVE  EventInv' /\ Forwards
    <2>1. lastMsg \in [Client -> Nat]
        BY DEF EventInv, EventTypeOK
    <2>2. CASE Open(c, clock)
        <3>1. \A d \in Client \ {c} : lastMsg'[d] = lastMsg[d]
            BY <2>1, <2>2 DEF Open
        <3> QED  BY <1>6, <2>2, <3>1, OpenKeeps
    <2>3. CASE Connect(c) \/ StartMsg(c) \/ Ask(c) \/ PollTimeout(c)
        <3>1. lastMsg' = lastMsg
            BY <2>3 DEF Connect, StartMsg, Ask, PollTimeout, ClientStep
        <3> QED  BY <1>2, <2>3, <3>1, MovesKeep
    <2>4. CASE SetFilter(c)
        <3>1. lastMsg' = lastMsg
            BY <2>4 DEF SetFilter, ClientStep
        <3> QED  BY <1>2, <2>4, <3>1, SetFilterKeeps
    <2>5. CASE Poll(c)
        <3>1. lastMsg' = lastMsg
            BY <2>5 DEF Poll, Answer, ClientStep
        <3> QED  BY <1>2, <2>5, <3>1, PollKeeps
    <2>6. CASE Receive(c)
        <3>1. \A d \in Client \ {c} : lastMsg'[d] = lastMsg[d]
            BY <2>1, <2>6 DEF Receive
        <3> QED  BY <1>6, <2>6, <3>1, ReceiveKeeps
    <2>7. CASE Break(c)
        <3>1. lastMsg' = lastMsg
            BY <2>7 DEF Break
        <3> QED  BY <1>2, <2>7, <3>1, BreakKeeps
    <2> QED  BY <1>7, <2>2, <2>3, <2>4, <2>5, <2>6, <2>7
<1> QED  BY <1>3, <1>4, <1>5, <1>7 DEF EventStep, Quiet

\* The invariant says of every receiver what NotSkipped says.
LEMMA EventInvNotSkipped ==
    ASSUME EventInv
    PROVE  NotSkipped
<1> SUFFICES ASSUME NEW c \in Client, NEW i \in DOMAIN messages, DueAt(c, i)
             PROVE  \/ messages[i].id \in Ids(wire[c])
                    \/ mode[c] = "ws" /\ conn[c] # "following"
                    \/ mode[c] = "poll" /\ conn[c] # "parked" /\ messages[i].id > lastMsg[c]
    BY DEF NotSkipped, Range, DueAt, Due
<1> QED  BY DEF EventInv, ClientInv, SkipAt

-----------------------------------------------------------------------------
(* What is on its way somewhere, and what the steps do to it.              *)

Held ==
    Range(messages) \cup (UNION {Range(wire[c]) : c \in Client})
                    \cup (UNION {Range(sending[p]) : p \in Poster})

LEMMA HeldIds ==
    ASSUME EventInv, NEW m \in Held
    PROVE  m.id <= clock
<1>1. EventTypeOK /\ PlaceInv /\ ClockInv /\ SendingInv
    BY DEF EventInv
<1>2. CASE m \in Range(messages)
    BY <1>1, <1>2 DEF PlaceInv, ClockInv, Range
<1>3. CASE \E c \in Client : m \in Range(wire[c])
    BY <1>1, <1>3 DEF PlaceInv, PlaceAt, ClockInv, Range
<1>4. CASE \E p \in Poster : m \in Range(sending[p])
    BY <1>1, <1>4 DEF SendingInv, Range
<1> QED  BY <1>2, <1>3, <1>4 DEF Held

LEMMA ReachedHolds ==
    ASSUME EventTypeOK, NEW m \in Message, Reached(m)
    PROVE  /\ Range(messages') \subseteq Range(messages) \cup {m}
           /\ \A c \in Client : Range(wire'[c]) \subseteq Range(wire[c]) \cup {m}
           /\ \A c \in Client : conn[c] = "absent" => conn'[c] = "absent"
<1>1. Range(messages') \subseteq Range(messages) \cup {m}
    <2> SUFFICES ASSUME NEW i \in DOMAIN messages'
                 PROVE  messages'[i] = m \/ \E j \in DOMAIN messages : messages'[i] = messages[j]
        BY DEF Range
    <2>1. i \in 1 .. Len(messages') /\ Len(messages') \in Nat
        BY QueueAfter
    <2> QED  BY <2>1, QueueAfter
<1>2. ASSUME NEW c \in Client
      PROVE  Range(wire'[c]) \subseteq Range(wire[c]) \cup {m}
    <2>1. wire[c] \in Seq(Message) /\ wire'[c] \in Seq(Message)
        BY WireAfter DEF EventTypeOK
    <2>2. CASE Told(c, m)
        <3>1. \A k \in DOMAIN wire'[c] : \/ k \in DOMAIN wire[c] /\ wire'[c][k] = wire[c][k]
                                         \/ wire'[c][k] = m
            BY <2>1, <2>2, WireAfter
        <3> QED  BY <3>1 DEF Range
    <2>3. CASE ~Told(c, m)
        BY <2>3, WireAfter
    <2> QED  BY <2>2, <2>3
<1>3. \A c \in Client : conn[c] = "absent" => conn'[c] = "absent"
    BY WireAfter
<1> QED  BY <1>1, <1>2, <1>3

LEMMA PostStep ==
    ASSUME EventInv, NEW p \in Poster, NEW ch \in Channel, NEW t \in Type, Post(p, ch, t)
    PROVE  /\ Held' \subseteq Held \cup {[id |-> clock + 1, channel |-> ch, type |-> t]}
           /\ \A c \in Client : conn[c] = "absent" => conn'[c] = "absent"
           /\ seen' = seen /\ clock' = clock + 1
<1> DEFINE m == [id |-> clock + 1, channel |-> ch, type |-> t]
<1>1. EventTypeOK /\ clock \in Nat
    BY DEF EventInv, EventTypeOK
<1>2. m \in Message
    BY <1>1 DEF Message
<1>3. seen' = seen /\ clock' = clock + 1
    BY DEF Post, PostToDaemon, PostToBroker
<1>4. CASE PostToDaemon(p, ch, t)
    <2>1. Reached(m) /\ sending' = sending
        BY <1>4 DEF PostToDaemon, Arrive
    <2> QED  BY <1>1, <1>2, <1>3, <2>1, ReachedHolds DEF Held
<1>5. CASE PostToBroker(p, ch, t)
    <2>1. /\ UNCHANGED <<messages, wire, conn>>
          /\ sending' = [sending EXCEPT ![p] = Append(@, m)]
        BY <1>5 DEF PostToBroker
    <2>2. ASSUME NEW q \in Poster
          PROVE  Range(sending'[q]) \subseteq Range(sending[q]) \cup {m}
        <3>1. sending[q] \in Seq(Message)
            BY <1>1 DEF EventTypeOK
        <3>2. sending'[q] = sending[q] \/ sending'[q] = Append(sending[q], m)
            BY <1>1, <2>1 DEF EventTypeOK
        <3>3. \A k \in DOMAIN Append(sending[q], m) :
                  \/ k \in DOMAIN sending[q] /\ Append(sending[q], m)[k] = sending[q][k]
                  \/ Append(sending[q], m)[k] = m
            BY <1>2, <3>1
        <3> QED  BY <3>2, <3>3 DEF Range
    <2> QED  BY <1>3, <2>1, <2>2 DEF Held
<1> QED  BY <1>4, <1>5 DEF Post

\* One receiver's wire gets what was there, or what is in the queue.
LEMMA WireHolds ==
    ASSUME UNCHANGED <<messages, sending>>,
           \A c \in Client : \A k \in DOMAIN wire'[c] :
               wire'[c][k] \in Range(wire[c]) \cup Range(messages)
    PROVE  Held' \subseteq Held
BY DEF Held, Range

LEMMA ClientHolds ==
    ASSUME EventInv, NEW c \in Client,
           \/ Connect(c) \/ StartMsg(c) \/ SetFilter(c)
           \/ Ask(c) \/ Poll(c) \/ PollTimeout(c) \/ Break(c) \/ Open(c, clock) \/ Receive(c)
    PROVE  Held' \subseteq Held /\ clock' = clock
<1>1. messages \in Seq(Message) /\ wire \in [Client -> Seq(Message)]
    BY DEF EventInv, EventTypeOK
<1>2. CASE (Connect(c) \/ StartMsg(c) \/ Ask(c) \/ PollTimeout(c) \/ Open(c, clock))
    <2>1. UNCHANGED <<messages, sending, wire, clock>>
        BY <1>2 DEF Connect, StartMsg, Ask, PollTimeout, Open, ClientStep, daemonVars
    <2> QED  BY <2>1 DEF Held
<1>3. CASE SetFilter(c)
    <2>1. UNCHANGED <<messages, sending, clock>>
        BY <1>3 DEF SetFilter, ClientStep, daemonVars
    <2> DEFINE n == Cardinality(Caught(c))
    <2>2. PICK caught \in CatchUp(c) : wire' = [wire EXCEPT ![c] = @ \o caught]
        BY <1>3 DEF SetFilter
    <2>3. PICK f \in [1 .. n -> Caught(c)] : caught = [k \in 1 .. n |-> messages[f[k]]]
        BY <2>2 DEF CatchUp
    <2>4. \A k \in 1 .. n : f[k] \in DOMAIN messages
        BY <2>3 DEF Caught
    <2>5. n \in Nat
        <3>1. Caught(c) \subseteq 1 .. Len(messages) /\ IsFiniteSet(1 .. Len(messages))
            BY <1>1, FS_Interval DEF Caught
        <3>2. IsFiniteSet(Caught(c))
            BY <3>1, FS_Subset
        <3> QED  BY <3>2, FS_CardinalityType
    <2> HIDE DEF n
    <2>6. \A k \in 1 .. n : messages[f[k]] \in Message
        BY <1>1, <2>4
    <2>7. caught \in Seq(Message) /\ \A k \in DOMAIN caught : caught[k] \in Range(messages)
        BY <2>3, <2>4, <2>5, <2>6 DEF Range
    <2>8. wire'[c] = wire[c] \o caught /\ \A d \in Client \ {c} : wire'[d] = wire[d]
        BY <1>1, <2>2
    <2>9. wire[c] \in Seq(Message)
        BY <1>1
    <2>10. \A k \in DOMAIN (wire[c] \o caught) :
              \/ k \in DOMAIN wire[c] /\ (wire[c] \o caught)[k] = wire[c][k]
              \/ k - Len(wire[c]) \in DOMAIN caught
                 /\ (wire[c] \o caught)[k] = caught[k - Len(wire[c])]
        BY <2>7, <2>9
    <2>11. \A d \in Client : \A k \in DOMAIN wire'[d] :
              wire'[d][k] \in Range(wire[d]) \cup Range(messages)
        BY <2>7, <2>8, <2>10 DEF Range
    <2> QED  BY <2>1, <2>11, WireHolds
<1>4. CASE Poll(c)
    <2>1. UNCHANGED <<messages, sending, clock>>
        BY <1>4 DEF Poll, Answer, ClientStep, daemonVars
    <2>2. \/ wire' = wire
          \/ \E i \in DOMAIN messages : wire' = [wire EXCEPT ![c] = <<messages[i]>>]
        BY <1>4 DEF Poll, Answer
    <2>3. \A d \in Client : \A k \in DOMAIN wire'[d] :
              wire'[d][k] \in Range(wire[d]) \cup Range(messages)
        BY <1>1, <2>2 DEF Range
    <2> QED  BY <2>1, <2>3, WireHolds
<1>5. CASE Break(c)
    <2>1. UNCHANGED <<messages, sending, clock>> /\ wire' = [wire EXCEPT ![c] = <<>>]
        BY <1>5 DEF Break, daemonVars
    <2>2. \A d \in Client : \A k \in DOMAIN wire'[d] :
              wire'[d][k] \in Range(wire[d]) \cup Range(messages)
        BY <1>1, <2>1 DEF Range
    <2> QED  BY <2>1, <2>2, WireHolds
<1>6. CASE Receive(c)
    <2>1. /\ UNCHANGED <<messages, sending, clock>> /\ wire' = [wire EXCEPT ![c] = Tail(@)]
          /\ wire[c] # <<>>
        BY <1>6 DEF Receive, daemonVars
    <2>2. wire[c] \in Seq(Message)
        BY <1>1
    <2>3. \A k \in DOMAIN Tail(wire[c]) : k + 1 \in DOMAIN wire[c]
                                          /\ Tail(wire[c])[k] = wire[c][k + 1]
        BY <2>1, <2>2
    <2>4. \A d \in Client : \A k \in DOMAIN wire'[d] :
              wire'[d][k] \in Range(wire[d]) \cup Range(messages)
        BY <1>1, <2>1, <2>3 DEF Range
    <2> QED  BY <2>1, <2>4, WireHolds
<1> QED  BY <1>2, <1>3, <1>4, <1>5, <1>6

LEMMA QuietStep ==
    ASSUME EventInv, Quiet
    PROVE  /\ Held' \subseteq Held
           /\ \A c \in Client : conn[c] = "absent" => conn'[c] = "absent"
           /\ seen' = seen /\ clock' >= clock
<1>1. EventTypeOK /\ clock \in Nat /\ conn \in [Client -> Stages]
    BY DEF EventInv, EventTypeOK
<1>2. ASSUME NEW p \in Poster, Deliver(p)
      PROVE  /\ Held' \subseteq Held
             /\ \A c \in Client : conn[c] = "absent" => conn'[c] = "absent"
             /\ seen' = seen /\ clock' >= clock
    <2> DEFINE m == Head(sending[p])
    <2>1. /\ sending[p] # <<>> /\ Reached(m) /\ sending' = [sending EXCEPT ![p] = Tail(@)]
          /\ seen' = seen /\ clock' = clock
        BY <1>2 DEF Deliver, Arrive
    <2>2. sending \in [Poster -> Seq(Message)] /\ sending[p] \in Seq(Message)
        BY <1>1 DEF EventTypeOK
    <2>3. /\ m \in Message /\ m \in Range(sending[p])
          /\ Range(Tail(sending[p])) \subseteq Range(sending[p])
        <3>1. 1 \in DOMAIN sending[p] /\ m = sending[p][1] /\ m \in Message
            BY <2>1, <2>2
        <3>2. \A k \in DOMAIN Tail(sending[p]) : k + 1 \in DOMAIN sending[p]
                                                 /\ Tail(sending[p])[k] = sending[p][k + 1]
            BY <2>1, <2>2
        <3> QED  BY <3>1, <3>2 DEF Range
    <2>4. \A q \in Poster : Range(sending'[q]) \subseteq Range(sending[q])
        BY <2>1, <2>2, <2>3
    <2>5. m \in Held
        BY <2>3 DEF Held
    <2>6. /\ Range(messages') \subseteq Range(messages) \cup {m}
          /\ \A c \in Client : Range(wire'[c]) \subseteq Range(wire[c]) \cup {m}
          /\ \A c \in Client : conn[c] = "absent" => conn'[c] = "absent"
        BY <1>1, <2>1, <2>3, ReachedHolds
    <2>7. Held' \subseteq Held
        BY <2>4, <2>5, <2>6 DEF Held
    <2> QED  BY <1>1, <2>1, <2>6, <2>7
<1>3. ASSUME NEW c \in Client,
             \/ Connect(c) \/ StartMsg(c) \/ SetFilter(c)
             \/ Ask(c) \/ Poll(c) \/ PollTimeout(c) \/ Break(c)
      PROVE  /\ Held' \subseteq Held
             /\ \A d \in Client : conn[d] = "absent" => conn'[d] = "absent"
             /\ seen' = seen /\ clock' >= clock
    <2>1. Held' \subseteq Held /\ clock' = clock
        BY <1>3, ClientHolds
    <2>2. seen' = seen
        BY <1>3 DEF Connect, StartMsg, SetFilter, Ask, Poll, Answer, PollTimeout, Break, ClientStep
    <2>3. conn[c] # "absent" /\ \A d \in Client \ {c} : conn'[d] = conn[d]
        BY <1>1, <1>3 DEF Connect, StartMsg, SetFilter, Ask, Poll, Answer, PollTimeout, Break, ClientStep
    <2> QED  BY <1>1, <2>1, <2>2, <2>3
<1>4. ASSUME Restart
      PROVE  /\ Held' \subseteq Held
             /\ \A d \in Client : conn[d] = "absent" => conn'[d] = "absent"
             /\ seen' = seen /\ clock' >= clock
    <2>1. /\ Range(messages') = {} /\ \A c \in Client : Range(wire'[c]) = {}
          /\ seen' = seen /\ clock' = clock + 1
          /\ \A d \in Client : conn[d] = "absent" => conn'[d] = "absent"
        BY <1>4 DEF Restart, Range
    <2>2. \A p \in Poster : Range(sending'[p]) \subseteq Range(sending[p])
        <3>1. sending' = sending \/ sending' = [p \in Poster |-> <<>>]
            BY <1>4 DEF Restart
        <3> QED  BY <3>1 DEF Range
    <2>3. Held' \subseteq Held
        BY <2>1, <2>2 DEF Held
    <2> QED  BY <1>1, <2>1, <2>3
<1> QED  BY <1>2, <1>3, <1>4 DEF Quiet

-----------------------------------------------------------------------------
(* The invariant.                                                          *)

PageTypes ==
    /\ script \in Scripts /\ pc \in 1 .. Len(script) + 1
    /\ final \in SUBSET Nat
    /\ extra \in 0 .. MaxExtra /\ lost \in Nat
    /\ page \in [Client -> {"unloaded", "rendering", "live", "static"}]
    /\ shown \in [Client -> Nat] /\ answer \in [Client -> Nat]
    /\ fetch \in [Client -> {"none", "asked", "answered", "cooling", "failed"}]
    /\ again \in [Client -> BOOLEAN]

\* The writes before step n.
Written(n) == {i \in DOMAIN script : i < n /\ script[i].do = "write"}

\* When the verdict is posted the row has been written for the last time.
RowInv ==
    /\ row = Cardinality(Written(pc))
    /\ final # {} => \A j \in pc .. Len(script) : script[j].do # "write"
    /\ \A i \in final : i <= clock

\* An event about the verdict is of its type, wherever it is.
FinalInv == \A m \in Held : m.id \in final => m.type = Verdict

\* A page that is not live has no receiver and no request, and what it shows only
\* gets newer.
PageAt(c) ==
    /\ page[c] # "live" => conn[c] = "absent" /\ fetch[c] = "none"
    /\ shown[c] <= row /\ answer[c] <= row
    /\ fetch[c] = "answered" => shown[c] <= answer[c]

\* What ToldMeansShown says of c.
Knows(c) ==
    \/ Graded(shown[c])
    \/ fetch[c] = "asked"
    \/ fetch[c] = "answered" /\ Graded(answer[c])
    \/ again[c]

ToldAt(c) ==
    /\ page[c] = "live" /\ final \cap seen[c] # {}
    /\ Verdict \in Heard /\ fetch[c] # "failed"
    => Knows(c)

PageInv ==
    /\ EventInv /\ PageTypes /\ RowInv /\ FinalInv
    /\ \A c \in Client : PageAt(c) /\ ToldAt(c)

-----------------------------------------------------------------------------
(* The row.                                                                *)

LEMMA ScriptShape ==
    ASSUME PageTypes
    PROVE  /\ Len(script) \in Nat /\ DOMAIN script = 1 .. Len(script)
           /\ \A i \in DOMAIN script :
                 /\ script[i].do = "post" => script[i].channel \in Channel /\ script[i].type \in Type
                 /\ IsVerdictOf(script, script[i]) =>
                       \A j \in i .. Len(script) : script[j].do # "write"
<1>1. script \in Scripts /\ script \in Seq(Range(script))
    BY PageAssumption DEF PageTypes
<1>2. Len(script) \in Nat /\ DOMAIN script = 1 .. Len(script)
    BY <1>1
<1> QED  BY <1>1, <1>2, PageAssumption

LEMMA WrittenCount ==
    ASSUME PageTypes, NEW n \in Nat
    PROVE  /\ IsFiniteSet(Written(n)) /\ Cardinality(Written(n)) \in Nat
           /\ Writes \in Nat /\ Cardinality(Written(n)) <= Writes
<1> DEFINE all == {i \in DOMAIN script : script[i].do = "write"}
<1>1. IsFiniteSet(DOMAIN script)
    <2>1. DOMAIN script = 1 .. Len(script) /\ Len(script) \in Nat
        BY ScriptShape
    <2> QED  BY <2>1, FS_Interval
<1>2. IsFiniteSet(all) /\ Writes = Cardinality(all)
    <2>1. all \subseteq DOMAIN script
        OBVIOUS
    <2> QED  BY <1>1, <2>1, FS_Subset DEF Writes
<1>3. Written(n) \subseteq all
    BY DEF Written
<1> HIDE DEF all
<1>4. IsFiniteSet(Written(n)) /\ Cardinality(Written(n)) <= Cardinality(all)
    BY <1>2, <1>3, FS_Subset
<1> QED  BY <1>2, <1>4, FS_CardinalityType

LEMMA RowTypes ==
    ASSUME PageTypes, RowInv
    PROVE  /\ pc \in Nat /\ row \in Nat /\ Writes \in Nat /\ row <= Writes
           /\ final # {} => row = Writes
<1>1. pc \in 1 .. Len(script) + 1 /\ Len(script) \in Nat /\ DOMAIN script = 1 .. Len(script)
    BY ScriptShape DEF PageTypes
<1>2. pc \in Nat
    BY <1>1
<1>3. row \in Nat /\ Writes \in Nat /\ row <= Writes
    BY <1>2, WrittenCount DEF RowInv
<1>4. final # {} => row = Writes
    <2> HAVE final # {}
    <2>1. Written(pc) = {i \in DOMAIN script : script[i].do = "write"}
        BY <1>1 DEF RowInv, Written
    <2> QED  BY <2>1 DEF RowInv, Writes
<1> QED  BY <1>2, <1>3, <1>4

\* The invariant has the types of the runs.
LEMMA PageInvTypes ==
    ASSUME PageInv
    PROVE  PageTypeOK
<1>1. PageTypes /\ RowInv /\ EventTypeOK
    BY DEF PageInv, EventInv
<1>2. row \in Nat /\ Writes \in Nat /\ row <= Writes
    BY <1>1, RowTypes
<1>3. \A c \in Client : shown[c] \in 0 .. Writes /\ answer[c] \in 0 .. Writes
    BY <1>1, <1>2 DEF PageInv, PageAt, PageTypes
<1>4. shown \in [Client -> 0 .. Writes] /\ answer \in [Client -> 0 .. Writes]
    BY <1>1, <1>3 DEF PageTypes
<1> QED  BY <1>1, <1>2, <1>4 DEF PageTypeOK, PageTypes

LEMMA PageInvTold ==
    ASSUME PageInv
    PROVE  ToldMeansShown
BY DEF PageInv, ToldAt, Knows, ToldMeansShown

-----------------------------------------------------------------------------
(* The steps.  RestInv is what PageInv says beside EventInv.               *)

RestInv ==
    /\ PageTypes /\ RowInv /\ FinalInv
    /\ \A c \in Client : PageAt(c) /\ ToldAt(c)

\* Steps that leave the handler alone.
LEMMA HandlerKept ==
    ASSUME PageInv, UNCHANGED <<script, pc, row, final>>, clock' >= clock, clock' \in Nat,
           Held' \subseteq Held
    PROVE  RowInv' /\ FinalInv'
<1>1. RowInv /\ FinalInv /\ clock \in Nat /\ final \in SUBSET Nat
    BY DEF PageInv, PageTypes, EventInv, EventTypeOK
<1>2. Written(pc)' = Written(pc)
    BY DEF Written
<1>3. RowInv'
    BY <1>1, <1>2 DEF RowInv
<1>4. FinalInv'
    BY <1>1 DEF FinalInv, Verdict
<1> QED  BY <1>3, <1>4

\* Steps that leave a page and what it was told alone, while the row is not written
\* and the verdict is not posted.
LEMMA PageKept ==
    ASSUME PageInv, NEW c \in Client, UNCHANGED <<script, row, final>>,
           page'[c] = page[c], shown'[c] = shown[c], fetch'[c] = fetch[c],
           answer'[c] = answer[c], again'[c] = again[c], seen'[c] = seen[c],
           conn[c] = "absent" => conn'[c] = "absent"
    PROVE  PageAt(c)' /\ ToldAt(c)'
<1>1. PageAt(c) /\ ToldAt(c)
    BY DEF PageInv
<1>2. Writes' = Writes /\ Verdict' = Verdict
    BY DEF Writes, Verdict
<1>3. PageAt(c)'
    BY <1>1 DEF PageAt
<1>4. ToldAt(c)'
    BY <1>1, <1>2 DEF ToldAt, Knows, Graded
<1> QED  BY <1>3, <1>4

\* Steps that leave the row's events alone.
LEMMA HeldKept ==
    ASSUME UNCHANGED eventVars
    PROVE  Held' = Held /\ conn' = conn /\ seen' = seen /\ clock' = clock
BY DEF eventVars, daemonVars, clientVars, Held

LEMMA WriteRowKeeps ==
    ASSUME PageInv, WriteRow
    PROVE  RestInv'
<1>1. /\ PageTypes /\ RowInv /\ FinalInv /\ \A c \in Client : PageAt(c) /\ ToldAt(c)
    BY DEF PageInv
<1>2. /\ pc <= Len(script) /\ script[pc].do = "write" /\ row' = row + 1 /\ pc' = pc + 1
      /\ UNCHANGED <<script, final, extra, lost, page, shown, fetch, answer, again>>
      /\ UNCHANGED eventVars
    BY DEF WriteRow, Doing, pageVars
<1>3. Held' = Held /\ conn' = conn /\ seen' = seen /\ clock' = clock
    BY <1>2, HeldKept
<1>4. pc \in Nat /\ pc \in DOMAIN script /\ Len(script) \in Nat /\ DOMAIN script = 1 .. Len(script)
    BY <1>1, <1>2, RowTypes, ScriptShape DEF PageTypes
<1>5. PageTypes'
    BY <1>1, <1>2, <1>4 DEF PageTypes
\* The verdict has not been posted, for the row was to be written.
<1>6. final = {}
    BY <1>1, <1>2, <1>4 DEF RowInv
<1>7. RowInv'
    <2>1. Written(pc + 1) = Written(pc) \cup {pc} /\ pc \notin Written(pc)
        BY <1>2, <1>4 DEF Written
    <2>2. Cardinality(Written(pc + 1)) = Cardinality(Written(pc)) + 1
        BY <1>1, <1>4, <2>1, WrittenCount, FS_AddElement
    <2>3. Written(pc)' = Written(pc + 1)
        BY <1>2 DEF Written
    <2> QED  BY <1>1, <1>2, <1>6, <2>2, <2>3 DEF RowInv
<1>8. FinalInv'
    BY <1>2, <1>6 DEF FinalInv
<1>9. ASSUME NEW c \in Client PROVE PageAt(c)' /\ ToldAt(c)'
    <2>1. PageAt(c)'
        <3>1. row \in Nat /\ shown[c] \in Nat /\ answer[c] \in Nat
            BY <1>1, RowTypes DEF PageTypes
        <3> QED  BY <1>1, <1>2, <1>3, <3>1 DEF PageAt
    <2>2. ToldAt(c)'
        BY <1>2, <1>6 DEF ToldAt
    <2> QED  BY <2>1, <2>2
<1> QED  BY <1>5, <1>7, <1>8, <1>9 DEF RestInv

\* A post, of the handler or of another thread.  The id is new, so that nobody was
\* told of it; if it is about the verdict the row is not written any more.
LEMMA PostingKeeps ==
    ASSUME PageInv, NEW p \in Poster, NEW ch \in Channel, NEW t \in Type, Post(p, ch, t),
           UNCHANGED <<script, row, page, shown, fetch, answer, again>>,
           PageTypes', pc' = pc \/ pc' = pc + 1,
           pc' = pc + 1 => pc <= Len(script) /\ script[pc].do # "write",
           \/ final' = final
           \/ /\ final' = final \cup {clock + 1} /\ t = Verdict
              /\ \A j \in pc .. Len(script) : script[j].do # "write"
    PROVE  RestInv'
<1>1. /\ PageTypes /\ RowInv /\ FinalInv /\ EventInv
      /\ \A c \in Client : PageAt(c) /\ ToldAt(c)
    BY DEF PageInv
<1> DEFINE m == [id |-> clock + 1, channel |-> ch, type |-> t]
<1>2. /\ Held' \subseteq Held \cup {m}
      /\ \A c \in Client : conn[c] = "absent" => conn'[c] = "absent"
      /\ seen' = seen /\ clock' = clock + 1
    BY <1>1, PostStep
<1>3. clock \in Nat /\ final \in SUBSET Nat
    BY <1>1 DEF EventInv, EventTypeOK, PageTypes
<1>4. pc \in Nat /\ Len(script) \in Nat /\ DOMAIN script = 1 .. Len(script)
    BY <1>1, RowTypes, ScriptShape
<1>5. Verdict' = Verdict /\ Writes' = Writes
    BY DEF Verdict, Writes
<1>6. RowInv'
    <2>1. Written(pc') = Written(pc)
        <3>1. CASE pc' = pc
            BY <3>1
        <3>2. CASE pc' = pc + 1
            BY <1>4, <3>2 DEF Written
        <3> QED  BY <3>1, <3>2
    <2>2. Written(pc)' = Written(pc')
        BY DEF Written
    <2>3. final' # {} => \A j \in pc' .. Len(script) : script[j].do # "write"
        <3>1. \A j \in pc' .. Len(script) : j \in pc .. Len(script)
            BY <1>4
        <3> QED  BY <1>1, <3>1 DEF RowInv
    <2>4. \A i \in final' : i <= clock'
        <3> TAKE i \in final'
        <3>1. CASE i \in final
            <4>1. i \in Nat /\ i <= clock
                BY <1>1, <1>3, <3>1 DEF RowInv
            <4> QED  BY <1>2, <1>3, <4>1
        <3>2. CASE i = clock + 1
            BY <1>2, <1>3, <3>2
        <3> QED  BY <3>1, <3>2
    <2> QED  BY <1>1, <2>1, <2>2, <2>3, <2>4 DEF RowInv
<1>7. FinalInv'
    <2> SUFFICES ASSUME NEW x \in Held', x.id \in final' PROVE x.type = Verdict
        BY <1>5 DEF FinalInv
    <2>1. CASE x \in Held
        <3>1. x.id <= clock
            BY <1>1, <2>1, HeldIds
        <3>2. x.id # clock + 1
            BY <1>3, <3>1
        <3> QED  BY <1>1, <2>1, <3>2 DEF FinalInv
    <2>2. CASE x = m
        <3>1. clock + 1 \notin final
            BY <1>1, <1>3 DEF RowInv
        <3> QED  BY <2>2, <3>1
    <2> QED  BY <1>2, <2>1, <2>2
<1>8. ASSUME NEW c \in Client PROVE PageAt(c)' /\ ToldAt(c)'
    <2>1. PageAt(c)'
        BY <1>1, <1>2 DEF PageAt
    <2>2. final' \cap seen'[c] = final \cap seen[c]
        <3>1. seen[c] \subseteq arrived /\ clock + 1 \notin arrived
            BY <1>1, <1>3 DEF EventInv, PlaceInv, PlaceAt, ClockInv
        <3> QED  BY <1>2, <3>1
    <2>3. ToldAt(c)'
        BY <1>1, <1>5, <2>2 DEF ToldAt, Knows, Graded
    <2> QED  BY <2>1, <2>3
<1> QED  BY <1>6, <1>7, <1>8 DEF RestInv

LEMMA HandlerPosts ==
    ASSUME PageInv, PostOnce \/ PostAgain
    PROVE  RestInv' /\ EventStep
<1>1. /\ PageTypes /\ pc \in Nat /\ Len(script) \in Nat /\ DOMAIN script = 1 .. Len(script)
      /\ clock \in Nat
    BY RowTypes, ScriptShape DEF PageInv, EventInv, EventTypeOK
<1>2. PICK next \in {pc, pc + 1} : PostEvent(next)
    BY DEF PostOnce, PostAgain
<1>3. /\ pc <= Len(script) /\ script[pc].do = "post" /\ pc' = next
      /\ Post(Handler, script[pc].channel, script[pc].type)
      /\ UNCHANGED <<script, row, lost, page, shown, fetch, answer, again>>
      /\ final' = IF IsVerdictOf(script, script[pc]) THEN final \cup {clock + 1} ELSE final
    BY <1>2 DEF PostEvent, Doing, pageVars
<1>4. /\ pc \in DOMAIN script /\ Handler \in Poster
      /\ script[pc].channel \in Channel /\ script[pc].type \in Type
      /\ IsVerdictOf(script, script[pc]) => \A j \in pc .. Len(script) : script[j].do # "write"
    <2>1. pc \in DOMAIN script /\ Handler \in Poster
        BY <1>1, <1>3, PageAssumption DEF PageTypes
    <2> QED  BY <1>1, <1>3, <2>1, ScriptShape
<1>5. PageTypes'
    <2>1. extra' \in 0 .. MaxExtra
        BY <1>1, PageAssumption DEF PageTypes, PostOnce, PostAgain
    <2>2. final' \in SUBSET Nat
        BY <1>1, <1>3 DEF PageTypes
    <2> QED  BY <1>1, <1>2, <1>3, <2>1, <2>2 DEF PageTypes
<1>6. IsVerdictOf(script, script[pc]) => script[pc].type = Verdict
    BY DEF IsVerdictOf, Verdict
<1>7. RestInv'
    BY <1>2, <1>3, <1>4, <1>5, <1>6, PostingKeeps
<1> QED  BY <1>3, <1>4, <1>7 DEF EventStep

LEMMA OtherPosting ==
    ASSUME PageInv, OtherPost
    PROVE  RestInv' /\ EventStep
<1>1. PICK e \in OtherPosts : Post(Other, e[1], e[2])
    BY DEF OtherPost
<1>2. Other \in Poster /\ e[1] \in Channel /\ e[2] \in Type
    BY PageAssumption
<1>3. /\ extra < MaxExtra /\ extra' = extra + 1
      /\ UNCHANGED <<script, pc, row, final, lost, page, shown, fetch, answer, again>>
    BY DEF OtherPost, pageVars
<1>4. PageTypes'
    <2>1. PageTypes
        BY DEF PageInv
    <2> QED  BY <1>3, <2>1, PageAssumption DEF PageTypes
<1>5. pc \in Nat
    BY RowTypes DEF PageInv
<1>6. RestInv'
    BY <1>1, <1>2, <1>3, <1>4, <1>5, PostingKeeps
<1> QED  BY <1>1, <1>2, <1>6 DEF EventStep

LEMMA PostLostKeeps ==
    ASSUME PageInv, PostLost
    PROVE  RestInv'
<1>1. PageTypes /\ RowInv /\ FinalInv /\ pc \in Nat /\ Len(script) \in Nat
      /\ DOMAIN script = 1 .. Len(script)
    BY RowTypes, ScriptShape DEF PageInv
<1>2. /\ pc <= Len(script) /\ script[pc].do = "post" /\ pc' = pc + 1 /\ lost' = lost + 1
      /\ UNCHANGED <<script, row, final, extra, page, shown, fetch, answer, again>>
      /\ UNCHANGED eventVars
    BY DEF PostLost, Doing, pageVars
<1>3. Held' = Held /\ conn' = conn /\ seen' = seen /\ clock' = clock
    BY <1>2, HeldKept
<1>4. PageTypes'
    BY <1>1, <1>2 DEF PageTypes
<1>5. RowInv'
    <2>1. Written(pc)' = Written(pc)
        BY <1>1, <1>2 DEF Written
    <2>2. \A j \in pc + 1 .. Len(script) : j \in pc .. Len(script)
        BY <1>1
    <2> QED  BY <1>1, <1>2, <1>3, <2>1, <2>2 DEF RowInv
<1>6. FinalInv'
    BY <1>1, <1>2, <1>3 DEF FinalInv, Verdict
<1>7. \A c \in Client : PageAt(c)' /\ ToldAt(c)'
    BY <1>2, <1>3, PageKept
<1> QED  BY <1>4, <1>5, <1>6, <1>7 DEF RestInv

\* Steps of the daemon, of the broker and of receivers that are told nothing.
LEMMA QuietKeeps ==
    ASSUME PageInv, EventInv', Quiet, UNCHANGED <<handlerVars, pageVars>>
    PROVE  RestInv'
<1>1. /\ PageTypes /\ EventInv /\ clock' \in Nat
      /\ UNCHANGED <<script, pc, row, final, extra, lost>>
      /\ UNCHANGED <<page, shown, fetch, answer, again>>
    BY DEF PageInv, EventInv, EventTypeOK, handlerVars, pageVars
<1>2. /\ Held' \subseteq Held
      /\ \A c \in Client : conn[c] = "absent" => conn'[c] = "absent"
      /\ seen' = seen /\ clock' >= clock
    BY <1>1, QuietStep
<1>3. PageTypes'
    BY <1>1 DEF PageTypes
<1>4. RowInv' /\ FinalInv'
    BY <1>1, <1>2, HandlerKept
<1>5. \A c \in Client : PageAt(c)' /\ ToldAt(c)'
    BY <1>1, <1>2, PageKept
<1> QED  BY <1>3, <1>4, <1>5 DEF RestInv

\* A page is read from the row, and has no receiver yet.
LEMMA RenderKeeps ==
    ASSUME PageInv, NEW c \in Client, Render(c)
    PROVE  RestInv'
<1>1. /\ PageTypes /\ RowInv /\ PageAt(c) /\ row \in Nat /\ clock \in Nat
      /\ answer[c] \in Nat
    BY RowTypes DEF PageInv, EventInv, EventTypeOK, PageTypes
<1>2. /\ page[c] = "unloaded" /\ page'[c] = "rendering" /\ shown'[c] = row
      /\ \A d \in Client \ {c} : page'[d] = page[d] /\ shown'[d] = shown[d]
      /\ UNCHANGED <<script, pc, row, final, extra, lost, fetch, answer, again>>
      /\ UNCHANGED eventVars
    BY <1>1 DEF Render, PageTypes, handlerVars
<1>3. Held' = Held /\ conn' = conn /\ seen' = seen /\ clock' = clock
    BY <1>2, HeldKept
<1>4. PageTypes'
    <2>1. page' \in [Client -> {"unloaded", "rendering", "live", "static"}]
          /\ shown' \in [Client -> Nat]
        BY <1>1 DEF Render, PageTypes
    <2> QED  BY <1>1, <1>2, <2>1 DEF PageTypes
<1>5. RowInv' /\ FinalInv'
    BY <1>1, <1>2, <1>3, HandlerKept
<1>6. PageAt(c)' /\ ToldAt(c)'
    BY <1>1, <1>2, <1>3 DEF PageAt, ToldAt
<1>7. \A d \in Client \ {c} : PageAt(d)' /\ ToldAt(d)'
    BY <1>2, <1>3, PageKept
<1> QED  BY <1>4, <1>5, <1>6, <1>7 DEF RestInv

\* A page becomes live with a receiver that was told nothing.
LEMMA LoadedKeeps ==
    ASSUME PageInv, NEW c \in Client, Loaded(c)
    PROVE  RestInv' /\ (UNCHANGED eventVars \/ EventStep)
<1>1. /\ PageTypes /\ EventInv /\ PageAt(c) /\ clock \in Nat
      /\ conn \in [Client -> Stages]
    BY DEF PageInv, EventInv, EventTypeOK
<1>2. /\ page[c] = "rendering" /\ page'[c] \in {"live", "static"}
      /\ \A d \in Client \ {c} : page'[d] = page[d]
      /\ page' \in [Client -> {"unloaded", "rendering", "live", "static"}]
      /\ UNCHANGED <<script, pc, row, final, extra, shown, fetch, answer, again>>
      /\ lost' \in Nat
    <2>1. page[c] = "rendering"
          /\ UNCHANGED <<script, pc, row, final, extra, shown, fetch, answer, again>>
        BY DEF Loaded
    <2>2. \/ page' = [page EXCEPT ![c] = "live"]
          \/ page' = [page EXCEPT ![c] = "static"]
        BY DEF Loaded
    <2>3. lost' = lost \/ lost' = lost + 1
        BY DEF Loaded
    <2>4. page \in [Client -> {"unloaded", "rendering", "live", "static"}] /\ lost \in Nat
        BY <1>1 DEF PageTypes
    <2>5. page' \in [Client -> {"unloaded", "rendering", "live", "static"}]
          /\ page'[c] \in {"live", "static"} /\ \A d \in Client \ {c} : page'[d] = page[d]
        <3>1. CASE page' = [page EXCEPT ![c] = "live"]
            BY <2>4, <3>1
        <3>2. CASE page' = [page EXCEPT ![c] = "static"]
            BY <2>4, <3>2
        <3> QED  BY <2>2, <3>1, <3>2
    <2> QED  BY <2>1, <2>3, <2>4, <2>5
<1>3. /\ Held' \subseteq Held /\ clock' = clock /\ seen' = seen
      /\ \A d \in Client \ {c} : conn'[d] = conn[d]
      /\ page'[c] = "static" => conn'[c] = conn[c]
      /\ UNCHANGED eventVars \/ EventStep
    <2>1. CASE UNCHANGED eventVars
        BY <2>1, HeldKept
    <2>2. CASE page' = [page EXCEPT ![c] = "live"] /\ Open(c, clock)
        <3>1. Held' \subseteq Held /\ clock' = clock
            BY <1>1, <2>2, ClientHolds
        <3>2. seen' = seen /\ \A d \in Client \ {c} : conn'[d] = conn[d]
            BY <1>1, <2>2 DEF Open
        <3>3. page'[c] = "live"
            BY <1>1, <2>2 DEF PageTypes
        <3> QED  BY <2>2, <3>1, <3>2, <3>3 DEF EventStep
    <2> QED  BY <2>1, <2>2 DEF Loaded
<1>4. PageTypes'
    BY <1>1, <1>2 DEF PageTypes
<1>5. RowInv' /\ FinalInv'
    BY <1>1, <1>2, <1>3, HandlerKept
<1>6. PageAt(c)'
    BY <1>1, <1>2, <1>3 DEF PageAt
<1>7. ToldAt(c)'
    <2>1. conn[c] = "absent"
        BY <1>1, <1>2 DEF PageAt
    <2>2. seen[c] = {}
        BY <1>1, <2>1 DEF EventInv, ClientInv, StageAt
    <2> QED  BY <1>3, <2>2 DEF ToldAt
<1>8. \A d \in Client \ {c} : PageAt(d)' /\ ToldAt(d)'
    BY <1>2, <1>3, PageKept
<1> QED  BY <1>3, <1>4, <1>5, <1>6, <1>7, <1>8 DEF RestInv

\* Who is told of the verdict asks for the row, or will.
LEMMA OnMessageKeeps ==
    ASSUME PageInv, NEW c \in Client, OnMessage(c)
    PROVE  RestInv' /\ EventStep
<1>1. /\ PageTypes /\ EventInv /\ FinalInv /\ PageAt(c) /\ ToldAt(c) /\ clock \in Nat
      /\ wire[c] \in Seq(Message) /\ seen \in [Client -> SUBSET Nat]
      /\ conn \in [Client -> Stages]
    BY DEF PageInv, EventInv, EventTypeOK
<1>2. /\ Receive(c) /\ wire[c] # <<>>
      /\ UNCHANGED <<script, pc, row, final, extra, lost, page, shown, answer>>
    BY DEF OnMessage, Receive, handlerVars
<1> DEFINE m == Head(wire[c])
<1>3. /\ Held' \subseteq Held /\ clock' = clock
      /\ seen'[c] = seen[c] \cup {m.id}
      /\ \A d \in Client \ {c} : seen'[d] = seen[d] /\ conn'[d] = conn[d]
    <2>1. Held' \subseteq Held /\ clock' = clock
        BY <1>1, <1>2, ClientHolds
    <2> QED  BY <1>1, <1>2, <2>1 DEF Receive
<1>4. m \in Held
    <2>1. 1 \in DOMAIN wire[c] /\ m = wire[c][1]
        BY <1>1, <1>2
    <2> QED  BY <2>1 DEF Held, Range
<1>5. conn[c] # "absent" /\ page[c] = "live"
    BY <1>1, <1>2 DEF EventInv, ClientInv, StageAt, PageAt
\* What the event does to the request of the page.
<1>6. /\ fetch' \in [Client -> {"none", "asked", "answered", "cooling", "failed"}]
      /\ again' \in [Client -> BOOLEAN]
      /\ \A d \in Client \ {c} : fetch'[d] = fetch[d] /\ again'[d] = again[d]
      /\ \/ m.type \notin Heard /\ fetch' = fetch /\ again' = again
         \/ m.type \in Heard /\ fetch[c] = "none" /\ fetch'[c] = "asked"
         \/ m.type \in Heard /\ fetch[c] # "none" /\ fetch' = fetch /\ again'[c] = TRUE
    <2>1. CASE m.type \notin Heard
        BY <1>1, <2>1 DEF OnMessage, PageTypes
    <2>2. CASE m.type \in Heard /\ fetch[c] = "none"
        BY <1>1, <2>2 DEF OnMessage, Update, PageTypes
    <2>3. CASE m.type \in Heard /\ fetch[c] # "none"
        BY <1>1, <2>3 DEF OnMessage, Update, PageTypes
    <2> QED  BY <2>1, <2>2, <2>3
<1>7. PageTypes'
    BY <1>1, <1>2, <1>6 DEF PageTypes
<1>8. RowInv' /\ FinalInv'
    BY <1>1, <1>2, <1>3, HandlerKept
<1>9. PageAt(c)'
    BY <1>1, <1>2, <1>5, <1>6 DEF PageAt
<1>10. ToldAt(c)'
    <2>1. Verdict' = Verdict /\ Writes' = Writes
        BY <1>2 DEF Verdict, Writes
    <2> SUFFICES ASSUME final \cap seen'[c] # {}, Verdict \in Heard, fetch'[c] # "failed"
                 PROVE  Knows(c)'
        BY <1>2, <2>1 DEF ToldAt
    <2>2. CASE m.id \in final
        <3>1. m.type \in Heard
            BY <1>1, <1>4, <2>2 DEF FinalInv
        <3> QED  BY <1>6, <3>1 DEF Knows
    <2>3. CASE m.id \notin final
        <3>1. final \cap seen[c] # {}
            BY <1>3, <2>3
        <3>2. fetch[c] # "failed"
            BY <1>6
        <3>3. Knows(c)
            BY <1>1, <1>5, <3>1, <3>2 DEF ToldAt
        <3> QED  BY <1>2, <1>6, <2>1, <3>3 DEF Knows, Graded
    <2> QED  BY <2>2, <2>3
<1>11. \A d \in Client \ {c} : PageAt(d)' /\ ToldAt(d)'
    BY <1>2, <1>3, <1>6, PageKept
<1> QED  BY <1>2, <1>7, <1>8, <1>9, <1>10, <1>11 DEF RestInv, EventStep

\* The request of a page: after the verdict is posted the row is what it will be, so
\* that a request that is answered then brings it.
LEMMA FetchKeeps ==
    ASSUME PageInv, NEW c \in Client, Serve(c) \/ Done(c) \/ Unblock(c) \/ Fail(c)
    PROVE  RestInv' /\ UNCHANGED eventVars
<1>1. /\ PageTypes /\ RowInv /\ PageAt(c) /\ ToldAt(c) /\ clock \in Nat
      /\ row \in Nat /\ Writes \in Nat /\ row <= Writes /\ (final # {} => row = Writes)
      /\ shown[c] \in Nat /\ answer[c] \in Nat
    BY RowTypes DEF PageInv, EventInv, EventTypeOK, PageTypes
<1>2. /\ UNCHANGED eventVars
      /\ UNCHANGED <<script, pc, row, final, extra, lost, page>>
    BY DEF Serve, Done, Unblock, Fail, FetchStep, handlerVars
<1>3. Held' = Held /\ conn' = conn /\ seen' = seen /\ clock' = clock
    BY <1>2, HeldKept
<1>4. /\ fetch' \in [Client -> {"none", "asked", "answered", "cooling", "failed"}]
      /\ again' \in [Client -> BOOLEAN]
      /\ shown' \in [Client -> Nat] /\ answer' \in [Client -> Nat]
      /\ \A d \in Client \ {c} : /\ fetch'[d] = fetch[d] /\ again'[d] = again[d]
                                 /\ shown'[d] = shown[d] /\ answer'[d] = answer[d]
    <2>1. CASE Serve(c)
        BY <1>1, <2>1 DEF Serve, FetchStep, PageTypes
    <2>2. CASE Done(c)
        BY <1>1, <2>2 DEF Done, FetchStep, PageTypes
    <2>3. CASE Unblock(c)
        BY <1>1, <2>3 DEF Unblock, FetchStep, PageTypes
    <2>4. CASE Fail(c)
        BY <1>1, <2>4 DEF Fail, FetchStep, PageTypes
    <2> QED  BY <2>1, <2>2, <2>3, <2>4
<1>5. PageTypes'
    BY <1>1, <1>2, <1>4 DEF PageTypes
<1>6. RowInv' /\ FinalInv'
    BY <1>1, <1>2, <1>3, HandlerKept
<1>7. \A d \in Client \ {c} : PageAt(d)' /\ ToldAt(d)'
    BY <1>2, <1>3, <1>4, PageKept
\* What a step of the request does.
<1>8. \/ /\ fetch[c] = "asked" /\ fetch'[c] = "answered" /\ answer'[c] = row
         /\ shown'[c] = shown[c] /\ again'[c] = again[c]
      \/ /\ fetch[c] = "answered" /\ fetch'[c] = "cooling" /\ shown'[c] = answer[c]
         /\ answer'[c] = answer[c] /\ again'[c] = again[c]
      \/ /\ fetch[c] = "cooling" /\ fetch'[c] = (IF again[c] THEN "asked" ELSE "none")
         /\ shown'[c] = shown[c] /\ answer'[c] = answer[c]
      \/ /\ fetch[c] # "none" /\ fetch'[c] = "failed"
         /\ shown'[c] = shown[c] /\ answer'[c] = answer[c]
    BY <1>1 DEF Serve, Done, Unblock, Fail, FetchStep, PageTypes
<1>9. PageAt(c)'
    BY <1>1, <1>2, <1>3, <1>8 DEF PageAt
<1>10. ToldAt(c)'
    <2>1. Verdict' = Verdict /\ Writes' = Writes
        BY <1>2 DEF Verdict, Writes
    <2> SUFFICES ASSUME page[c] = "live", final \cap seen[c] # {}, Verdict \in Heard,
                        fetch'[c] # "failed"
                 PROVE  Knows(c)'
        BY <1>2, <1>3, <2>1 DEF ToldAt
    <2>2. Knows(c) /\ row = Writes
        BY <1>1, <1>8 DEF ToldAt
    <2> QED  BY <1>1, <1>8, <2>1, <2>2 DEF Knows, Graded, PageAt
<1> QED  BY <1>2, <1>5, <1>6, <1>7, <1>9, <1>10 DEF RestInv

-----------------------------------------------------------------------------
(* The theorems.                                                           *)

LEMMA InitPage ==
    ASSUME PageInit
    PROVE  PageInv
<1>1. EventInv /\ \A c \in Client : conn[c] = "absent" /\ seen[c] = {}
    BY InitEventInv DEF PageInit, EventInit
<1>2. script \in Scripts /\ pc = 1 /\ row = 0 /\ final = {} /\ extra = 0 /\ lost = 0
    BY DEF PageInit
<1>3. Len(script) \in Nat
    <2>1. script \in Seq(Range(script))
        BY <1>2, PageAssumption
    <2> QED  BY <2>1
<1>4. PageTypes
    BY <1>2, <1>3, PageAssumption DEF PageInit, PageTypes
<1>5. RowInv
    <2>1. Written(1) = {}
        <3>1. DOMAIN script = 1 .. Len(script)
            BY <1>4, ScriptShape
        <3> QED  BY <3>1 DEF Written
    <2> QED  BY <1>2, <2>1, FS_EmptySet DEF RowInv
<1>6. FinalInv
    BY <1>2 DEF FinalInv
<1>7. \A c \in Client : PageAt(c) /\ ToldAt(c)
    BY <1>1, <1>2 DEF PageInit, PageAt, ToldAt
<1> QED  BY <1>1, <1>4, <1>5, <1>6, <1>7 DEF PageInv

LEMMA NextPage ==
    ASSUME PageInv, PageNext
    PROVE  PageInv' /\ (UNCHANGED eventVars \/ Forwards)
<1>1. EventInv
    BY DEF PageInv
<1>2. ASSUME UNCHANGED eventVars \/ EventStep
      PROVE  EventInv' /\ (UNCHANGED eventVars \/ Forwards)
    BY <1>1, <1>2, EventStepKeeps, IdleKeepsEvents
<1>3. CASE WriteRow
    <2>1. UNCHANGED eventVars
        BY <1>3 DEF WriteRow
    <2> QED  BY <1>2, <1>3, <2>1, WriteRowKeeps DEF PageInv, RestInv
<1>4. CASE PostOnce \/ PostAgain
    BY <1>2, <1>4, HandlerPosts DEF PageInv, RestInv
<1>5. CASE PostLost
    <2>1. UNCHANGED eventVars
        BY <1>5 DEF PostLost
    <2> QED  BY <1>2, <1>5, <2>1, PostLostKeeps DEF PageInv, RestInv
<1>6. CASE OtherPost
    BY <1>2, <1>6, OtherPosting DEF PageInv, RestInv
<1>7. ASSUME Quiet, UNCHANGED <<handlerVars, pageVars>>
      PROVE  PageInv' /\ (UNCHANGED eventVars \/ Forwards)
    <2>1. EventInv' /\ (UNCHANGED eventVars \/ Forwards)
        BY <1>2, <1>7 DEF EventStep
    <2> QED  BY <1>7, <2>1, QuietKeeps DEF PageInv, RestInv
<1>8. CASE DaemonSteps \/ Event(MayFail /\ Restart)
    BY <1>7, <1>8 DEF DaemonSteps, Event, Quiet
<1>9. ASSUME NEW c \in Client,
             \/ Render(c) \/ PageSteps(c) \/ Fail(c)
             \/ ReceiverSteps(c) \/ Event(PollTimeout(c)) \/ Event(MayFail /\ Break(c))
      PROVE  PageInv' /\ (UNCHANGED eventVars \/ Forwards)
    <2>1. CASE Render(c)
        <3>1. UNCHANGED eventVars
            BY <2>1 DEF Render
        <3> QED  BY <1>2, <2>1, <3>1, RenderKeeps DEF PageInv, RestInv
    <2>2. CASE Loaded(c)
        BY <1>2, <2>2, LoadedKeeps DEF PageInv, RestInv
    <2>3. CASE Serve(c) \/ Done(c) \/ Unblock(c) \/ Fail(c)
        BY <1>2, <2>3, FetchKeeps DEF PageInv, RestInv
    <2>4. CASE OnMessage(c)
        BY <1>2, <2>4, OnMessageKeeps DEF PageInv, RestInv
    <2>5. CASE \/ Event(Connect(c)) \/ Event(StartMsg(c)) \/ Event(SetFilter(c))
               \/ Event(Ask(c)) \/ Event(Poll(c)) \/ Event(PollTimeout(c))
               \/ Event(MayFail /\ Break(c))
        BY <1>7, <2>5 DEF Event, Quiet
    <2> QED  BY <1>9, <2>1, <2>2, <2>3, <2>4, <2>5 DEF PageSteps, ReceiverSteps
<1> QED  BY <1>3, <1>4, <1>5, <1>6, <1>8, <1>9 DEF PageNext, HandlerSteps

LEMMA IdlePage ==
    ASSUME PageInv, UNCHANGED allVars
    PROVE  PageInv'
<1>1. UNCHANGED eventVars /\ UNCHANGED <<script, pc, row, final, extra, lost>>
      /\ UNCHANGED <<page, shown, fetch, answer, again>>
    BY DEF allVars, handlerVars, pageVars
<1>2. Held' = Held /\ conn' = conn /\ seen' = seen /\ clock' = clock
    BY <1>1, HeldKept
<1>3. EventInv' /\ clock \in Nat
    BY <1>1, IdleKeepsEvents DEF PageInv, EventInv, EventTypeOK
<1>4. PageTypes'
    BY <1>1 DEF PageInv, PageTypes
<1>5. RowInv' /\ FinalInv'
    BY <1>1, <1>2, <1>3, HandlerKept
<1>6. \A c \in Client : PageAt(c)' /\ ToldAt(c)'
    BY <1>1, <1>2, PageKept
<1> QED  BY <1>3, <1>4, <1>5, <1>6 DEF PageInv

\* The inductive invariant holds in every state of the specification.
LEMMA PageInvHolds == PageSpec => []PageInv
<1>1. PageInit => PageInv
    BY InitPage
<1>2. PageInv /\ [PageNext]_allVars => PageInv'
    BY NextPage, IdlePage
<1> QED  BY <1>1, <1>2, PTL DEF PageSpec

\* The events and the page keep their types, and the daemon its bound (daemon.js,
\* event.js, status.html).
THEOREM PageTypeSafety == PageSpec => []PageTypeOK
<1>1. PageInv => PageTypeOK
    BY PageInvTypes
<1> QED  BY <1>1, PageInvHolds, PTL

\* No message that the daemon still has is skipped (daemon.js, daemon_amqp.js and
\* event.js), whatever connections break and however often the daemon crashes.
THEOREM NothingIsSkipped == PageSpec => []NotSkipped
<1>1. PageInv => NotSkipped
    BY EventInvNotSkipped DEF PageInv
<1> QED  BY <1>1, PageInvHolds, PTL

\* A page that was told of the verdict comes to show it (status.html update()).
THEOREM ToldIsShown == PageSpec => []ToldMeansShown
<1>1. PageInv => ToldMeansShown
    BY PageInvTold
<1> QED  BY <1>1, PageInvHolds, PTL

\* Receivers go forward, up to the exceptions of Forward (event.js).
THEOREM ReceiversGoForward == PageSpec => Forward
<1>1. PageInv /\ [PageNext]_allVars => [\A c \in Client :
          \/ lastMsg'[c] >= lastMsg[c]
          \/ mode[c] = "ws" /\ breaks[c] > 0
          \/ late # {}
          \/ source = "publisher" /\ lastMsg'[c] < start[c]]_eventVars
    BY NextPage DEF Forwards, allVars
<1> QED  BY <1>1, PageInvHolds, PTL DEF PageSpec, Forward
=============================================================================
