----------------------------- MODULE EventDaemon -----------------------------
(***************************************************************************)
(* Live updates: posters (event_poster_ws.py, event_poster_amqp.py), the   *)
(* daemon that keeps the last messages and serves followers and long polls *)
(* (websocket/daemon.js, websocket/daemon_amqp.js) and the receiver in the *)
(* browser (resources/event.js).                                           *)
(*                                                                         *)
(* The two daemons differ in where ids come from.  daemon.js numbers the   *)
(* messages as they arrive; with daemon_amqp.js a poster stamps its        *)
(* message with the time and hands it to the broker, so that messages of   *)
(* two posters may arrive against the order of their ids.                  *)
(*                                                                         *)
(* The daemon is one JavaScript thread: the handler of an event is one     *)
(* step.  What is on its way between browser and daemon is lost when the   *)
(* connection breaks.                                                      *)
(***************************************************************************)
EXTENDS SequencesExt, Integers

CONSTANTS
    Client,         \* receivers, one for each open page
    Poster,         \* threads of the site or the bridge that post
    Channel,
    Type,           \* the "type" of a message, all a receiver looks at
    Wanted,         \* Wanted[c]: the channels c filters for
    MaxQueue        \* max_queue of the daemon

ASSUME DaemonAssumption ==
    /\ MaxQueue \in Nat \ {0}
    /\ Wanted \in [Client -> SUBSET Channel]

VARIABLES
    source,     \* who numbers the messages: "daemon" or "publisher"
    mode,       \* mode[c]: "ws" if the browser has WebSocket, else "poll"
    clock,      \* message_id of daemon.js, the time for daemon_amqp.js
    messages,   \* the daemon's queue
    sending,    \* sending[p]: stamped messages of p that the broker still has
    conn,       \* conn[c]: how far the connection or the poll of c has come
    start,      \* start[c]: the parameter last_msg of EventReceiver
    lastMsg,    \* lastMsg[c]: receiver.last_msg
    wire,       \* wire[c]: messages on their way to c
    seen,       \* history: ids c passed to onmessage
    breaks,     \* breaks[c]: connections c lost
    restarts,   \* crashes of the daemon so far
    arrived,    \* history: ids of the messages that reached the daemon
    late        \* history: ids that arrived after a greater id

daemonVars == <<clock, messages, sending, restarts, arrived, late>>
clientVars == <<conn, start, lastMsg, wire, seen, breaks>>
eventVars == <<source, mode, daemonVars, clientVars>>

Message == [id : Nat, channel : Channel, type : Type]

\* A socket is connecting, open (start-msg and set-filter are on their way),
\* started (start-msg read) or following; a poll is idle, asked or parked, and
\* answered while the answer is on its way.
Stages == {"absent", "connecting", "open", "started", "following",
           "idle", "asked", "parked", "answered"}

Ids(s) == {m.id : m \in Range(s)}
Wants(c, m) == m.channel \in Wanted[c]

EventTypeOK ==
    /\ source \in {"daemon", "publisher"}
    /\ mode \in [Client -> {"ws", "poll"}]
    /\ clock \in Nat
    /\ messages \in Seq(Message) /\ Len(messages) <= MaxQueue
    /\ sending \in [Poster -> Seq(Message)]
    /\ conn \in [Client -> Stages]
    /\ start \in [Client -> Nat] /\ lastMsg \in [Client -> Nat]
    /\ wire \in [Client -> Seq(Message)]
    /\ seen \in [Client -> SUBSET Nat]
    /\ breaks \in [Client -> Nat]
    /\ restarts \in Nat
    /\ late \in SUBSET arrived /\ arrived \in SUBSET Nat

EventInit ==
    /\ source \in {"daemon", "publisher"}
    /\ mode \in [Client -> {"ws", "poll"}]
    /\ clock = 1
    /\ messages = <<>>
    /\ sending = [p \in Poster |-> <<>>]
    /\ conn = [c \in Client |-> "absent"]
    /\ start = [c \in Client |-> 0] /\ lastMsg = [c \in Client |-> 0]
    /\ wire = [c \in Client |-> <<>>]
    /\ seen = [c \in Client |-> {}]
    /\ breaks = [c \in Client |-> 0]
    /\ restarts = 0 /\ arrived = {} /\ late = {}

-----------------------------------------------------------------------------
(* A message reaches the daemon: it joins the queue, the oldest goes if    *)
(* there are too many, every follower is sent it and every parked poll for *)
(* its channel is answered with it.                                        *)

\* Mutation: the queue is not cut.
Reached_Unbounded(m) ==
    /\ messages' = Append(messages, m)
    /\ wire' = [c \in Client |-> IF conn[c] \in {"following", "parked"} /\ Wants(c, m)
                                 THEN Append(wire[c], m) ELSE wire[c]]
    /\ conn' = [c \in Client |-> IF conn[c] = "parked" /\ Wants(c, m)
                                 THEN "answered" ELSE conn[c]]

Reached(m) ==
    /\ messages' = IF Len(messages) >= MaxQueue THEN Append(Tail(messages), m)
                                                ELSE Append(messages, m)
    /\ wire' = [c \in Client |-> IF conn[c] \in {"following", "parked"} /\ Wants(c, m)
                                 THEN Append(wire[c], m) ELSE wire[c]]
    /\ conn' = [c \in Client |-> IF conn[c] = "parked" /\ Wants(c, m)
                                 THEN "answered" ELSE conn[c]]

Arrive(m) ==
    /\ Reached(m)
    /\ arrived' = arrived \cup {m.id}
    /\ late' = IF \E i \in arrived : i > m.id THEN late \cup {m.id} ELSE late

\* messages.post: daemon.js numbers the message and hands it on.
PostToDaemon(p, ch, t) ==
    /\ source = "daemon"
    /\ clock' = clock + 1
    /\ Arrive([id |-> clock + 1, channel |-> ch, type |-> t])
    /\ UNCHANGED sending

\* EventPoster.post of event_poster_amqp: stamp and publish.
PostToBroker(p, ch, t) ==
    /\ source = "publisher"
    /\ clock' = clock + 1
    /\ sending' = [sending EXCEPT ![p] = Append(@, [id |-> clock + 1, channel |-> ch, type |-> t])]
    /\ UNCHANGED <<messages, wire, conn, arrived, late>>

Post(p, ch, t) ==
    /\ PostToDaemon(p, ch, t) \/ PostToBroker(p, ch, t)
    /\ UNCHANGED <<source, mode, restarts, start, lastMsg, seen, breaks>>

\* The broker keeps the order of one poster's messages, not that of two.
Deliver(p) ==
    /\ sending[p] # <<>>
    /\ Arrive(Head(sending[p]))
    /\ sending' = [sending EXCEPT ![p] = Tail(@)]
    /\ UNCHANGED <<source, mode, clock, restarts, start, lastMsg, seen, breaks>>

-----------------------------------------------------------------------------
(* The receiver: EventReceiver, then a WebSocket or long polls.            *)

\* Where a receiver begins, and begins again after a failure.
Fresh(c) == IF mode[c] = "ws" THEN "connecting" ELSE "idle"

\* The page ends with "new EventReceiver(..., last, ...)".
Open(c, last) ==
    /\ conn[c] = "absent"
    /\ conn' = [conn EXCEPT ![c] = Fresh(c)]
    /\ start' = [start EXCEPT ![c] = last]
    /\ lastMsg' = [lastMsg EXCEPT ![c] = last]
    /\ UNCHANGED <<source, mode, daemonVars, wire, seen, breaks>>

ClientStep(c, from, to) ==
    /\ conn[c] = from
    /\ conn' = [conn EXCEPT ![c] = to]
    /\ UNCHANGED <<source, mode, daemonVars, start, lastMsg, seen, breaks>>

\* onopen sends start-msg and set-filter.  The timer of two seconds, if it was
\* faster, threw an exception and changed nothing.
Connect(c) == ClientStep(c, "connecting", "open") /\ UNCHANGED wire

\* The daemon reads start-msg, then set-filter; messages may come in between.
StartMsg(c) == ClientStep(c, "open", "started") /\ UNCHANGED wire

\* catch_up raises client.last_msg as it goes, for messages of any channel, so it
\* passes over what stands behind a greater id.
Caught(c) ==
    {i \in DOMAIN messages :
        /\ Wants(c, messages[i])
        /\ messages[i].id > start[c]
        /\ \A j \in 1 .. i - 1 : messages[j].id < messages[i].id}

\* The messages caught, in their order.
CatchUp(c) ==
    LET n == Cardinality(Caught(c))
        Orders == {f \in [1 .. n -> Caught(c)] : /\ \A j, k \in 1 .. n : j < k => f[j] < f[k]
                                                 /\ Range(f) = Caught(c)}
    IN  {[k \in 1 .. n |-> messages[f[k]]] : f \in Orders}

\* Mutation: the follower gets only what comes from now on.
SetFilter_NoCatchUp(c) == ClientStep(c, "started", "following") /\ UNCHANGED wire

SetFilter(c) ==
    /\ ClientStep(c, "started", "following")
    /\ \E caught \in CatchUp(c) : wire' = [wire EXCEPT ![c] = @ \o caught]

Ask(c) == ClientStep(c, "idle", "asked") /\ UNCHANGED wire

\* The first of the messages at the places fits answers a poll, or it waits.
Answer(c, fits) ==
    \/ /\ fits = {}
       /\ ClientStep(c, "asked", "parked")
       /\ UNCHANGED wire
    \/ \E i \in fits :
          /\ \A j \in fits : i <= j
          /\ ClientStep(c, "asked", "answered")
          /\ wire' = [wire EXCEPT ![c] = <<messages[i]>>]

\* Mutation: the id a poll names is not looked at.
Poll_AnyId(c) == Answer(c, {i \in DOMAIN messages : Wants(c, messages[i])})

\* The daemon reads a poll.
Poll(c) == Answer(c, {i \in DOMAIN messages : Wants(c, messages[i]) /\ messages[i].id > lastMsg[c]})

\* 504: the receiver asks again.
PollTimeout(c) == ClientStep(c, "parked", "idle") /\ UNCHANGED wire

\* onmessage of the socket and success of the poll.
Receive(c) ==
    /\ wire[c] # <<>>
    /\ LET m == Head(wire[c])
       IN  /\ lastMsg' = [lastMsg EXCEPT ![c] = m.id]
           /\ seen' = [seen EXCEPT ![c] = @ \cup {m.id}]
    /\ wire' = [wire EXCEPT ![c] = Tail(@)]
    /\ conn' = [conn EXCEPT ![c] = IF @ = "answered" THEN "idle" ELSE @]
    /\ UNCHANGED <<source, mode, daemonVars, start, breaks>>

-----------------------------------------------------------------------------
(* Failures.  A socket that closes with 1006 is connected again after a    *)
(* while; a poll that fails is asked again after two seconds.              *)

Break(c) ==
    /\ conn[c] \notin {"absent", "connecting", "idle"}
    /\ breaks' = [breaks EXCEPT ![c] = @ + 1]
    /\ conn' = [conn EXCEPT ![c] = Fresh(c)]
    /\ wire' = [wire EXCEPT ![c] = <<>>]
    /\ UNCHANGED <<source, mode, daemonVars, start, lastMsg, seen>>

\* The daemon crashes and is started again: the queue is lost, and message_id is
\* Date.now(), which is past every id it gave.  What the broker still had for the
\* daemon's exclusive queue may be lost with it.
Restart ==
    /\ restarts' = restarts + 1
    /\ clock' = clock + 1
    /\ messages' = <<>>
    /\ conn' = [c \in Client |-> IF conn[c] = "absent" THEN "absent" ELSE Fresh(c)]
    /\ wire' = [c \in Client |-> <<>>]
    /\ sending' \in {sending, [p \in Poster |-> <<>>]}
    /\ UNCHANGED <<source, mode, arrived, late, start, lastMsg, seen, breaks>>

-----------------------------------------------------------------------------
(* Properties.                                                             *)

\* A message that is still in the daemon's queue, that c wants and that is newer
\* than the page of c, is not skipped: c has it, or it is on its way, or the next
\* poll or catch-up of c will find it.  Only messages that were overtaken on their
\* way to the daemon are excepted (subscribe, catch_up, the polls of daemon.js and
\* daemon_amqp.js against the last_msg kept by event.js).
NotSkipped ==
    \A c \in Client, m \in Range(messages) :
        /\ conn[c] # "absent"
        /\ Wants(c, m) /\ m.id > start[c] /\ m.id \notin late \cup seen[c]
        => \/ m.id \in Ids(wire[c])
           \/ mode[c] = "ws" /\ conn[c] # "following"
           \/ mode[c] = "poll" /\ conn[c] # "parked" /\ m.id > lastMsg[c]

\* A receiver never goes back to an older message, except that a socket that had to
\* be connected again names the page's first id once more, and that messages were
\* overtaken on their way to the daemon, by others or by the page (event.js onopen,
\* onmessage, long_poll).
Forward ==
    [][\A c \in Client :
          \/ lastMsg'[c] >= lastMsg[c]
          \/ mode[c] = "ws" /\ breaks[c] > 0
          \/ late # {}
          \/ source = "publisher" /\ lastMsg'[c] < start[c]]_eventVars
=============================================================================
