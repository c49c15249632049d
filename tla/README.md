# A TLA+ model of CLBTH

CLBTH is an online judge (a DMOJ-style Django site). Its core logic is the path
of a submission: a site process marks a row and asks the *bridge* to judge it,
the bridge keeps a priority queue and dispatches to judges over long-lived
connections, the judges report progress, the bridge writes the verdict, and the
pages that are open learn of it from an event daemon. Around it are contests:
users join, submit under limits and are disqualified by requests that run side by
side, and at the end a *resolver* reveals the hidden results on a screen. This
directory models these parts, checks them with TLC and proves nearly all of the
safety properties with TLAPS. All source paths below are relative to `src/`.

## 1. Inventory

| Component | State | Operations | Talks to |
|---|---|---|---|
| judge list, `judge/bridge/judge_list.py` | `queue` with priority markers, `node_map`, `submission_map`, `judges` | `register`, `disconnect`, `update_problems`, `remove`, `on_judge_free`, `abort`, `judge` | called by both kinds of handlers, under one `RLock`; sends through the judge handlers |
| judge handler, `judge/bridge/judge_handler.py` | `_working`, `problems`, `executors`, `judge`, the socket | handshake, acknowledgement, progress, four final packets, `supported-problems`, `on_disconnect` | one thread per judge connection; judge list; database; event daemon |
| Django-facing handler, `judge/bridge/django_handler.py` | none | `submission-request`, `terminate-submission`, `disconnect-judge` | one thread per request of the site; judge list |
| packet framing, `judge/bridge/base_handler.py`, `server.py` | receive buffer, timeouts | sized zlib packets, PROXY header | sockets |
| bridge daemon, `judge/bridge/daemon.py` | none of its own | start, restart, reset of in-progress rows | database |
| judge API, `judge/judgeapi.py` | submission rows | `judge_submission`, `abort_submission`, `disconnect_judge` | database; a request and answer with the bridge |
| submission rows, `judge/models/submission.py` | `status`, test cases, verdict | written by the site and by the handlers | - |
| event posting, `judge/event_poster_ws.py`, `event_poster_amqp.py` | a connection for each thread | `post`, `last` | daemon, or broker |
| event daemon, `websocket/daemon.js`, `daemon_amqp.js` | last `max_queue` messages, followers, pollers, `message_id` | post, last id, `start-msg`, `set-filter`, long poll | posters or broker, browsers |
| event receiver, `resources/event.js` | `last_msg`, the socket or the poll | connect, receive, poll, connect again | daemon, the page |
| status page, `templates/submission/status.html`, `judge/views/submission.py` | what it shows, `blocked`, `request` | render, `update` | receiver; requests to the site |
| contest participation, `judge/models/contest.py`, `judge/views/contests.py`, `judge/models/profile.py`, `judge/middleware.py` | participations, `current_contest`, `banned_users`, `user_count` | join, leave, virtual join, expiry, `set_disqualified`, `update_participation` | database |
| submit limits, `judge/views/problem.py` | counts of rows | `problem_submit` | database, judge API |
| resolver, `resources/resolver.js`, `templates/resolver/media-js.html` | two copies of the board, the operations being played, the cells revealed | `calcOperations`, `next_operation`, `operation`, `showrank`, `getNewData` | keys, clicks, timers of the page |
| contest formats, ranker, ratings, performance points | cell data, scores | pure computations over rows | - |
| caching, `judge/caching.py` | shared cache and per-process cache | `cache_wrapper`, `dirty` | everything that reads through it |
| homework, `homework/` | submissions, versions, files, grades | submit, resubmit, grade, clean up, join | database |
| chat, comments, tickets, organizations, blog, courses, admin, templates, static files | rows | forms and pages | database |

What is hard here:

* **Threads and one lock.** Each connection has a thread. The lock of the judge
  list is held for one method and released between them; `on_disconnect` takes
  three steps, `on_handshake` three, `on_supported_problems` reads `_working`
  without it.
* **Failure in the middle.** A send, a database operation or a lookup of a row
  may raise half way through a dispatch; each handler swallows what its packets
  raise.
* **Two writers of a row.** Site processes and handlers write `status` and the
  test cases with no lock between them, and the site learns what the bridge did
  from an answer that may be lost.
* **Restart.** The bridge keeps everything in memory, and so does the event
  daemon.
* **Events that pass each other.** An event is posted before or after the row it
  is about is written; a page reads the row, then the last id, then subscribes,
  and drops events while a request is out.
* **Stale rows.** `save()` writes every field of a row that was read at the start
  of a request, over what other requests wrote since; limits and virtual ids are
  computed from rows that others are about to insert.
* **Timers.** The resolver replaces the operations it plays while timers that
  refer to them by position are still to run.

What makes each part correct: the queue and its two maps agree whatever fails;
no submission is judged twice at once, lost, or left behind an idle judge; an
abort stops the submission it names; what the page shows as queued or in
progress is in somebody's hands; a verdict counts all its test cases; a receiver
gets every message the daemon still has, and the page comes to show the verdict;
virtual participations are numbered without a gap, limits hold up to the requests
that run at once and the internal errors that were written over, who is disqualified
and no superuser stays out; the resolver's board is sorted,
the page follows it, and an announced place is final. The hazards, each at its
line, are in `PROJECT.json`.

## 2. Modules

| Module | What it models |
|---|---|
| `JudgeList` | The judge list and the fields of a handler its methods use. A method runs under the lock, so it is one operator that takes effect in one step. |
| `JudgeBridge` | Extends `JudgeList` with the handlers' threads, the Django-facing requests, the judges at the other end (external) and connections that break. Its `Next` is the interleaving of all of them. |
| `SubmissionLifecycle` | Extends `JudgeBridge` with the rows of a submission, the site processes and a restart of the bridge. Each action of the bridge is joined with the writes its handler makes. |
| `Dispatcher` | The abstract specification: a line of submissions for each priority, a judge has at most one submission, a free judge takes the first it fits. No markers, maps, threads or packets. |
| `DispatcherRefinement` | The mapping from `JudgeBridge` to `Dispatcher`: a line is what stands between two markers, the judge of a submission is `submission_map`'s, a judge fits what `can_judge` accepts. |
| `EventDaemon` | Posters, broker, daemon and receivers: the queue and its bound, followers and catch-up, long polls, broken connections, a restart. |
| `StatusPage` | Extends `EventDaemon` with the handler that writes a row and posts about it, and the page that is rendered from the row and fetches it again. |
| `ContestParticipation` | Requests of the site, one step for each database statement, on the rows of a contest; an admin; the clock; whoever writes the status of a submission. |
| `Resolver` | The resolver's board, the page's board, keys, clicks and timers. |
| `MCJudgeBridge`, `MCSubmissionLifecycle`, `MCStatusPage`, `MCContestParticipation`, `MCResolver` | Constants for TLC. |
| `JudgeBridgeProofs` | What `InsertAt` and `RemoveAt` do to a sequence; the inductive invariant of `JudgeBridge` with every failure, and its theorems. |
| `NoFailureProofs` | The inductive invariant of `JudgeBridge` when no call fails, and its theorems. |
| `SendFailureProofs` | What remains true of `JudgeBridge` when sends raise and judges are cut off by force. |
| `DispatcherProofs` | That `JudgeBridge` implements `Dispatcher` when no call fails. |
| `LifecycleProofs` | The inductive invariants of `SubmissionLifecycle` and its theorems. |
| `ContestProofs` | The inductive invariants of `ContestParticipation`: the types, the virtual ids, the limits, the contest's row and disqualifications. |
| `StatusPageProofs` | The inductive invariants of `EventDaemon`, one lemma for each action, and of `StatusPage`, which contains it, and the theorems about events. |
| `ResolverProofs` | The inductive invariants of `Resolver`, and a theorem for each property of its run. |

Operators whose names end in `_Something` next to an operator of the code are
deliberately wrong versions of it; every property is shown to fail with one.

### Correspondence

*The queue.* The `dllist` is a sequence of submission ids and markers
`0 .. Priorities - 1`. A waiting submission of priority `p` stands before marker
`p`. `nodeMap[s]` is the `judge_id` stored in the node, or `NoNode`; the rest of
a node (source, language) is determined by the submission.

*A dispatch.* `Submit` is entered with an outcome from `Outcomes`: the packet is
sent; the send raises (certain after `close()`, possible on a connection the
judge has broken, with `SendErrors`); the database raises (`DbErrors`); the row
is gone (`Vanishing`). `HandleFreeJudge` and `Judge` do what the `except`
clauses do. `judge()` calls itself after a failure, finds the key it has just
written and returns: that is one step.

*A handler's thread* is `phase`: `new`, `named` (handshake accepted),
`registered`, `up` (reading packets), `updating` (between the unlocked check of
`on_supported_problems` and `update_problems`), `dropped` (the stream ended),
`removed` (after `judges.remove`), `offline` (after `_disconnected`), `gone`.
Leaving `removed` for `gone` directly is `_disconnected` raising. `row[h]` says
that `self.judge` was set by `_connected`.

*Connections.* Two sequences of packets. `broken`: the peer is gone, what was on
its way to it is lost, and what it sent can still be read. `shut`: this side
called `close()`. A judge whose connection is lost stops grading.

*A judge* reads its packets in order, grades one submission at a time, sends the
packets of `Script` and one of `Verdicts`, stops on `terminate-submission`, and
leaves when asked to.

*The site.* A site process is a record `[step, sub]` with a step for each
database statement: `WebMark` (the guarded update), `WebClear` (the delete),
`WebRequest` (the exchange, whose answer may be lost) or `WebUnreachable`, and
`WebFailed` (the row is written IE). `WebAbort` and `WebAborted` are the two
halves of `abort_submission`.

*A verdict.* The handlers of final packets call `_free_self` first and write the
row afterwards; `todo[h]` holds what is still to be written between the two.

*Events.* A message is an id, a channel and a type. `source` says which daemon it
is: `daemon.js` numbers messages as they arrive, so `Post` delivers at once; with
`daemon_amqp.js` the poster stamps the message and the broker delivers it later, in
the order of each poster but not across posters. `conn[c]` is how far a receiver
has come (a socket: connecting, open, started, following; a poll: idle, asked,
parked, answered), `wire[c]` what is on its way to it. The filter and the error
answers of malformed requests are left out. `Caught` reproduces that `catch_up`
raises `last_msg` as it goes: a message behind a greater id is passed over.
`CatchUp` is the set of the one sequence that lists these messages in their order;
it is a set so that it can be defined without recursion, which the prover lacks.

*The status page.* `row` counts the writes of the row; the page shows one of these
states. `fetch[c]` and `again[c]` are the flags `blocked` and `request` with the
request that set them: `cooling` is the half second after an answer, `failed` the
request after which `blocked` stays set. The order in which a handler writes and
posts is a script: a test case is posted and then written, a verdict is written
and then posted.

*Contests.* `req[r]` is a request between two database statements: `at` is the next
statement, and the rest are rows it has read (`cur`: the profile's
`current_contest`; `ended`, `edit`: the contest; `part`, `flag`: a participation;
`seen`: a count; `sub`: the submission it has written, until `Judge` sends it).
A participation is a pair of a user and a virtual id, `-1` for a
spectator. `SaveProfile` stands for every page that saves the profile of the
request; `SaveScore` for the `participation.save()` of a verdict. `settings` stands
for the fields of a contest an admin edits. `StatusWritten` stands for every writer of
a submission's status outside `judge_submission`'s update: the handlers, an abort, a
restart of the daemon, and the IE of a request whose answer was lost. Any of them may
write at any moment over what is there, so an IE can be followed by P, G and D without
a rejudge; which of them can really follow which is `SubmissionLifecycle`'s.
`MaySpam` and `superusers` are who may exceed the pending limit and who passes the
check of banned users. `over` is chosen freely: a window of
one's own may end at any moment.

*The resolver.* `arr` is `rankarr`, `page` is `rank_frozen` and what the page
shows; `ops`, `curop` are the operations and the position of the one being
selected. A batch of `timers` is the callbacks `setTimeout` queued for one key:
within a batch they run in order, batches may interleave. JavaScript's comparison
of the list `sub_frozen[p]` with numbers is modelled as it is: `[k]` counts as `k`,
`[]` as `0`, and a longer list compares with nothing. The cell revealed under the
list itself has the key `LIST`.

*History.* `wanted` (accepted and not yet finished or aborted in the queue),
`marked`, `disturbed` and `requests` are there for the properties and bounds
only. `grading` and `stage` belong to the external judge. `seen`, `breaks`,
`arrived`, `late` and `final` record what a receiver was told and which messages
overtook each other; `edits`, `banFor`, `raced`, `crowded`, `failed` and `settled` mark
what the contest properties except; `hurried` counts keys that did not wait.

## 3. Runs

| Run | Instance | Shows |
|---|---|---|
| `safety` | 3 connections of 2 judges, 2 submissions, 4 priorities, 2 requests, no failing calls; symmetry between the two connections of one judge | `QueueConsistent`, `MapsAgree`, `OneJudge`, `AbortHitsTarget`, `NoLostSubmission`, `WorkConserved`, `WorkInFlight` |
| `send` | 2 connections, 3 requests, sends that raise, judges cut off by force, progress packets | `NoLostSubmission`, and `ClashAfterFailedSend`: what a failed send leaves behind |
| `failures` | 2 connections, the database raises anywhere, rows vanish, judges report new problems | `QueueConsistent`; `WorkConserved` until a vanished row is dispatched |
| `live` | 2 connections, weak fairness | `Settled`, `LostWorkReturns`; and `ImplementsDispatcher`: every step is a step of `Dispatcher` or leaves its state alone |
| `lifecycle` | 1 submission, 2 judges, 2 site processes, lost answers, a restart | `InProgressIsHandled`, `QueuedIsHandled`, `VerdictComplete` |
| `events` | 1 page with a socket or with polls, either daemon, a queue of 2, 2 posters, 1 extra post, 1 fault (a crash, a lost connection, a post given up or a failed request) | `NotSkipped`, `Forward`, `ToldMeansShown`, `VerdictShown` |
| `contest` | 2 users, 2 requests at once, 3 submissions, limits of 1, up to 3 virtual ids, 7 scenarios | `VirtualIdsDense`, `LimitsHold`, `DisqualificationHolds`, `ContestRowKept` |
| `resolver` | 3 users, 2 problems of 2 subtasks, 6 contests, 1 hurried key | `BoardSorted`, `PageFollows`, `TiesKept`, `AnnouncedIsFinal`, `FinalStanding`, `NeverStuck` |
| `names` | 2 connections of one judge | violated: `OneConnectionPerName` |
| `onejudge` | 3 connections, sends that raise | violated: `OneJudge` |
| `corruption` | a rejudge of a queued submission is allowed | violated: `VerdictComplete` |
| `aborted` | 1 site process, nothing fails but a connection | violated: `AbortedIsNotJudged` |

The four violations are described under `findings` in `PROJECT.json`. Each is a
sentence of the code's own comments that the code does not keep:

* `names`: `register` passes the handler where `disconnect` expects a name.
* `onejudge`: a failed send from the queue leaves the submission in the queue
  *and* in `submission_map`. Another judge takes it; when the first handler's
  thread ends it deletes the key, which by now is the other judge's; the next
  request is no longer recognised as a duplicate.
* `corruption`: the status check and the delete of test cases in
  `judge_submission` are two statements.
* `aborted`: between `remove` and the requeue a lost submission is in neither
  map, and an abort is answered as if it were not judged.

**Bounds.** `MaxRequests` bounds the submission requests, `MaxPackets` the
packets on their way to a judge when another termination or disconnection is
asked for. Two submissions and two or three connections give every pair of
conflicting steps (dispatch from the queue against dispatch on arrival, a lost
judge against its successor, an abort against both); a third request makes a
submission come back after it was settled. Four priorities are the code's. Each
run's constants switch one kind of failure on, so that a property is checked
under every failure it survives and the cause of a violation is plain:
`MapsAgree` and `OneJudge` do not survive failing sends (run `onejudge`), and
`MapsAgree` does not survive `supported-problems` arriving while a submission is
dispatched, since the check of `_working` is not under the lock.

The events run has a queue of two, so that a verdict and one other message push
an older one out, and one fault, so that each is met in every position. In the
contest run each scenario has its own bounds: three requests suffice for two joins
to meet a third one, and for submissions to pass either limit by more than the two
requests that run at once, if a check lets one too many through (both limits are 1, and
there are three submissions); two admin actions are a disqualification and its
reversal, or two rejudges, which TLC combines with two requests. The resolver's contests have
ties that the frozen first subtask decides before the hidden one does, a user
without results for a problem, hidden lists of none, one and two numbers and one
past the last subtask, and ties that the replay of the frozen results leaves in
another order than that of the last submissions. `ResolverAssumption` asks of a
contest that a subtask had no more points at the freeze than in the end, and never
more than it is worth: both are the best of the submissions that count
(`get_results_by_subtask`, once with and once without the hidden ones), and the view
scales them by the same factor.

Deadlock is checked in `resolver`, where a key can always be pressed. Elsewhere it is
not: when every connection has come and gone, or the requests are used up, nothing is
left to do.

**What the properties except.** They say what the code keeps, and name the rest:

* `VerdictShown` excepts a verdict whose event was posted between the read of the
  row and `event.last()`, or given up by the poster, or pushed out of the queue or
  overtaken; a page whose request failed (`blocked` stays set); and an aborted
  submission, to whose event the page does not react.
* `Forward` excepts sockets that were connected again: `event.js:50` names the first
  `last_msg` of the page, so the receiver is given messages it has had.
* `LimitsHold` allows one submission for each request beside the first. Neither count
  sees a submission with an internal error, and such a submission may count again later:
  when the bridge has accepted it and its answer is lost, the row is written IE
  (`judgeapi.py:122`) and the judge's handler writes P, G and D over it. So only
  submissions that never had an internal error (not in `failed`) are promised to keep
  the limit of the problem. The pending limit is promised of those that have been
  pending ever since they were made (not in `settled`), and of users without
  `spam_submission`.
* `DisqualificationHolds` and `ContestRowKept` except users, and contests, whose
  requests overlapped the change; a banned superuser may join again
  (`views/contests.py:660`), but stays disqualified. `profile.save()`, `participation.save()` and
  `contest.save()` write whole rows read earlier.
* `PageFollows` excepts keys that came before the last callback: `Enter` is accepted
  once the last operation is *selected*, and the timer that applies it then finds the
  operations replaced. `NeverStuck` has no exception for these keys, but one for a
  contest in which nothing was frozen (see the observations).
* `TiesKept` and `AnnouncedIsFinal` speak of boards whose ties the replay left in the
  order of the last submissions: the replay compares scores alone, the reveals compare
  last submissions too.
* `FinalStanding` says of the points shown that they are the final ones, for problems
  with at most one hidden subtask: with two, the comparison with the list is false and
  no key reveals anything (a click does).

**Fairness.** `PageSpec` assumes weak fairness of the handler's thread, of the
broker's deliveries, of the receiver (its socket connects, its messages are read,
its polls are asked and read by the daemon) and of the page's requests and timers:
event loops and schedulers go on. Nothing is assumed of faults, of the timeout of a
parked poll or of other posters. The `each` of the two sets in the daemon is taken to
visit every element even when the callback removes it. `ContestSpec` and
`ResolverSpec` state no fairness: each turn of the loop over virtual ids needs an
insertion by another request, and the resolver does nothing of its own; `NeverStuck`
and `FinalStanding` say that keys are accepted and what the last one leaves.
`live` assumes weak fairness of each handler's thread (the
operating system keeps scheduling it) and of each judge (it goes on reading, and
ends what it grades because it enforces the time limits). Nothing is assumed of
connections, of requests or of the site. `Settled` lets a submission wait as
long as no registered judge can take it. A judge that hangs while it still
answers pings is outside the model: the timer meant for it is created at
`judge_handler.py:365` and never started.

## 4. Proofs

`JudgeBridgeProofs` proves, for every value of the constants that satisfies
`ConstantsAssumption` and `BridgeAssumption` and with every failure switched on:

* `TypeCorrect`: `Spec => []TypeOK`;
* `QueueAlwaysConsistent`: `Spec => []QueueConsistent`: the queue holds every
  marker once and in order, the last one at its end, and every submission of
  `node_map` exactly once.
* `WorkAlwaysConserved`: `Spec => []WorkConserved`: no registered idle judge leaves a
  submission it could take in the queue, as long as no submission whose row has
  vanished was dispatched.

The two need each other. `judge()` inserts before a marker and `abort()` unlinks
a node, and both keep the queue a sequence of ids only because the marker or the
node is there; so the inductive invariant is `BridgeInv`, the types together
with `QueueConsistent`. The argument goes bottom up: the first lemmas say which
entry stands where after an insertion or a removal; `InsertKeepsQueue` and
`RemoveKeepsQueue` turn that into preservation of `IsQueueOf`; one lemma for
each method of the judge list shows that it preserves `ListInv`; and one step
for each action of `JudgeBridge` shows that it preserves `BridgeInv`.

`WorkConserved` speaks of the submissions in `queue`; `LookInv` says the same of
`node_map` (`NoWork`), for every registered judge that does no work and is not about
to ask again because its problems changed. A judge that registers, becomes free or
reports problems looks through the queue, and `judge()` puts a submission there only
when no registered judge is a candidate (`OneLooks`, `JudgeLooks`). A dispatch that
fails, whatever failed, takes the judge out of the set. One whose row has vanished
leaves its judge idle with the rest of the queue unread; the property and `LookInv`
claim nothing once a row is missing.

The assumptions on constants say that ids, markers and sentinels are distinct
and that maps have their domains; TLC evaluates them in every run.

`NoFailureProofs` proves five theorems under `NoFailures`: a send does not raise
before the handler's thread sees the end of the stream, the database answers, no
row vanishes, no judge is cut off by force, and judges report their problems
once. Connections still break, judges still leave and aborts still come at any
moment. They are `MapsAgree`, `OneJudge`, `AbortHitsTarget`, `NoLostSubmission`
and `WorkInFlight`, the other properties of run `safety`, for every
number of judges, connections, names and submissions. Run `onejudge` shows why
the assumption is there: with a failing send `MapsAgree` and `OneJudge` do not
hold, and with a failing database `NoLostSubmission` does not. What a failing send
leaves intact is proved separately, below.

None of the five is inductive alone. `on_judge_free` deletes the key of the
submission the *packet* names, so `MapsAgree` needs that a handler only hears of
the submission it works on; that needs to know what can be on the wire. `Talk`
says it for one connection as a predicate of plain values (the two sequences of
packets, the work, what is graded, the state of the socket): at most one request
and nothing else going on with it, only packets about the current work, a final
packet last, and a stale termination always before the next request. One lemma
for each way a packet is sent or read preserves `Talk` (`DispatchTalk`,
`ReadTalk`, `EndTalk`, `ProgressTalk`, `FinishTalk`, `OtherTalk`, `StartTalk`,
`AskTalk`, `LostTalk`). `ThreadInv` ties the phase of a thread to the set of
judges and the socket. `FreeJudge` and `JudgeGivesWork` say what
`_handle_free_judge` and `judge` do to the maps when every dispatch succeeds.
`CleanInv` is the conjunction, and `NextCleanInv` has one case for each action.

`SendFailureProofs` proves the two properties of run `send`, and `AbortHitsTarget`, under `SendsMayFail`:
sends raise at any moment and judges are cut off by force, while the database
answers, no row vanishes and judges report their problems once.
`NothingLostWhenSendsFail` says that every accepted submission stays in one of the
two maps or with a handler that will bring it back; `ClashOnlyAfterFailedSend` that
one which is in both maps at once is held by a judge whose connection is lost. The
invariant of `NoFailureProofs` is of no use here: a second judge may take such a
submission from the queue, and the first one stays at work on what `submission_map`
no longer says of it. `SendInv` therefore drops the claim that working judges are in
the map and keeps the converse (`LinkInv`); `Speech` is what remains of `Talk` for
such a judge; `CourseInv` relates the phase of a thread to the set of judges, which a
judge whose send failed leaves before its thread does. `AbortHitsWhenSendsFail` says
that a bare termination still never stops another submission, although two judges may
now be at work on one: `Aimed`, a part of `Speech`, has a stale termination on the wire
before the next request, so that it is read while nothing is graded.

`DispatcherProofs` proves that the bridge implements the abstract dispatcher,
`NoFailures /\ Spec => ImplementsDispatcher`. Between two markers of a queue stands
the line of a priority (`LineEntries`, `StandsInLine`), insertion before a marker
appends to its line and leaves the others (`InsertLine`), removal takes one entry out
of one line (`RemoveLine`). `LookStep` is the main step: what `_handle_free_judge`
finds from the front of the list is the first of the first line that fits, since
positions in the list are ordered as priority and arrival are (`QueueOrder`). Each
action of `Next` is then a step of `Dispatcher` or leaves the lines and the map alone
(`NextSteps`), from `CleanInv`, which is why the theorem has its hypothesis.

`LifecycleProofs` proves the four properties of run `lifecycle` for any number of
submissions, judges and site processes, with lost answers, aborts and restarts of the
bridge. `LifecycleAssumption` says that a judge announces the grading before its test
cases.

* `LifeTypeCorrect` needs no hypothesis: `LifeTypeInv` adds to `BridgeInv` what a site
  process holds at each step, and that test cases on the wire are those of `Script`.
* `InProgressAlwaysHandled` and `QueuedAlwaysHandled` have the hypothesis `NoFailures`.
  `Handled` says it for one submission: queued, at a judge, owed a verdict by the
  handler's thread, or with a site process. A restart clears the bridge and the rows
  in one step, as the daemon does before it listens.
* `VerdictsComplete` assumes `~RejudgeQueued` as well; run `corruption` shows that the
  property fails without it. `HandInv` says that a submission nobody disturbed is in
  one hand at a time, so that no second grading deletes its test cases; `VerdictInv`
  follows the test cases from the judge (`stage`) over the wire to the rows (`Covered`):
  each one sent is stored or still to be read, and behind a `grading-begin` that would
  delete it.

`ContestProofs` proves all five properties of run `contest`
for every set of users, requests and submissions, every limit and every set of
scenarios, under `ContestAssumption` (finite sets, limits that are not zero, and
scenarios in which who is out has joined) and `NoSubAssumption`.

* `ContestTypeSafety`: from `TypeInv`, the types with what each step of a request
  holds (`cur` and `part` belong to the request's user).
* `VirtualIdsAreDense`: `DenseInv` adds that a request about to create a virtual
  participation holds an id whose predecessor exists. Rows are never deleted, so
  this stays true while others insert.
* `LimitsAreKept`: `RoomInv` counts, for each participation, the rows that never had
  an internal error (`Fresh`) together with the requests that have passed the check and
  not inserted yet; for each user without `spam_submission`, the rows that have been
  pending all the time (`Waiting`) with the requests past the pending limit. A request
  passes when the rows alone are below the limit, and at most `Requests - 1` others
  can be past the check then. `StatusWritten` and a rejudge only take rows out of
  `Fresh` and `Waiting`: a row outside never comes back, and one inside is not rejudged
  and has no IE (`FreshRow`). `SentInv` says that a request about to send a submission
  has written its row. Finite sets are needed for cardinalities, nothing else.
* `ContestRowIsKept`: `RowInv` says that a count some request holds is of rows that
  are still there (`Bounded`), that without an overlap one request at most is joining
  (`Alone`), and what its count and its edit must then be (`Exact`).
* `DisqualificationIsKept`: `OutInv` says of a user without an overlap that his
  requests hold neither the participation he was banned for nor its old flag
  (`ReadInv`), between the three statements of `set_disqualified` (`KickInv`) and
  after them (`BanInv`). Of a superuser it says the latter only (`Out`, `Harmless`).

`StatusPageProofs` proves the four safety properties of run
`events` for every number of pages, posters, channels and types, every length of
the queue, all scripts of the handler and any number of faults. They assume
`DaemonAssumption` and `PageAssumption`; the one that matters is that no script
writes the row after it posts the verdict, which is the order in the handlers of
final packets. The theorems are `PageTypeSafety`, `NothingIsSkipped`,
`ReceiversGoForward` and `ToldIsShown`.

* `EventInv` is the invariant of the daemon with its receivers. `PlaceInv` and
  `ClockInv`: every id that is anywhere has arrived and is not from the future.
  `SendingInv`: ids are given once. `QueueInv`: a message that was not overtaken
  stands behind smaller ids only, which is why `catch_up` does not pass over it.
  `StageAt` says when something can be on its way; `SkipAt` is `NotSkipped` for one
  receiver; `AnswerAt` is what it needs of a poll that has been answered and not
  read: what is due behind the answer is newer, so that the next poll finds it.
  `ForwardAt` orders what is on its way to a receiver without an exception.
* A step of one receiver changes its own part of the invariant only
  (`OneReceiver`); the arrival of a message is the one step that changes all of
  them (`ArriveKeeps`).
* `PageInv` adds the handler and the page. `RowInv`: when the verdict has been
  posted no write is left, so the row is graded. `FinalInv`: an event about the
  verdict is of its type wherever it is (`Held`), so that the page reacts to it.
  `PageAt`: what a page shows only gets newer, since it has one request at a time.
  `ToldAt` is `ToldMeansShown` for one page.

`ResolverProofs` proves all seven properties of run `resolver`, for any number of
users and problems and any contest that satisfies `IsContest`, with any number of keys
and clicks.

* Sums first. The points of a problem and of a user are folds over finite sets, whose
  equations are proved by the least number for which they would fail (`SumEquations`);
  from them, that a sum grows with its parts (`TotalGrows`) and what a change of one
  part changes (`TotalChanges`).
* `BoardInv` is the invariant of the board: the types; what is shown is never more than
  the final points (`GotInv`), so that a reveal never lowers a score and moving the user
  upwards suffices; the sums; the order (`LiftMoves`, `LiftKeepsOrder` say what the loop
  of `operation` does to it); what the replay still has to do (`LoadInv`); that a subtask
  no longer frozen, or revealed, is final (`ShownInv`); that who was announced has nothing
  hidden (`AnnouncedInv`). `ResolverTypeCorrect`, `BoardStaysSorted` and
  `EndsWithFinalPoints` follow from it, and the action properties `RevealsKeepTies` and
  `AnnouncedStay` from it and from what a reveal does to the order.
* `AlwaysAnswers`: `SchedInv` says of the timers that one batch at most has operations
  to select, and that it selects the last one when it ends (`TempoInv`). This holds
  however many batches overlap, because a key is only accepted when the last operation
  is selected.
* `PageKeepsUp`: a *film* of the operations is a sequence of pages of which each
  follows from the one before by an operation. `FilmInv` says that some film ends with
  the resolver's board and that the page is as far from its end as callbacks are left
  (`Waits`, `Plays`), or at its end with the position run past it (`Overruns`: nothing
  was frozen). The replay makes the film longer (`ThawFilm`, over the operations of the
  single subtasks, `PartOf`), a reveal starts a new one (`RevealFilm`, `KeyFilm`), and a
  callback moves along it (`FirePlays`).

**Only model-checked.**

* `VerdictShown`, `Settled` and `LostWorkReturns`: liveness. They rest on weak fairness,
  and the prover has no rule for `ENABLED`.
* The four violations are counterexamples, and need no proof.

## 5. Plan

1. *Bridge (done in this directory).* `JudgeList`, `JudgeBridge`,
   `SubmissionLifecycle`; `Dispatcher` as the abstract specification; types and
   `QueueConsistent` proved with every failure, the safety properties proved
   without failures.
2. *Refinement proof (done).* `DispatcherProofs`.
3. *Theorems with failures (done).* `WorkConserved` in `JudgeBridgeProofs`,
   `SendFailureProofs`, `LifecycleProofs`. Left: the properties of
   `SubmissionLifecycle` when sends may fail.
4. *Events (done).* `EventDaemon` and `StatusPage`, with theorems for any number of
   pages. Left: `VerdictShown` with two pages.
5. *Contests (done).* `ContestParticipation` with its theorems. Left: the rate limit,
   the contest formats and the ranker against reference definitions.
6. *Resolver (done).* A theorem for each property of its run.
7. *Framing.* `PacketFraming`: partial reads, end of stream in the middle of a
   packet, two threads sending on one socket.
8. *Caching and homework.* `CacheWrapper`: compute, dirty and set out of order,
   with the per-process cache; `HomeworkSubmission`: versions against grades.

Runs stay few: one question each.

## 6. Not modelled, and why

* Authentication of judges, pings, load reports (any candidate may be the least
  loaded), batches, compile messages, points and times: they do not decide where
  a submission goes.
* A partition in which a judge goes on grading for a while after its connection
  is lost: `OneJudge` speaks of connected judges.
* Packet framing, caching, homework, contest formats and uploads of problem data:
  they are in the plan, and their hazards are listed without a property.
* Some hazards of the bridge have no property because the code makes no promise that
  could be checked: what a dispatch of a vanished row leaves behind (`WorkConserved`
  stops there), a `_disconnected` that raises (`NoLostSubmission` does not hold with
  `DbErrors`), a submission overwritten by `supported-problems` (nor with `Reloads`),
  and the wrong acknowledgement that may follow from it. The actions are in the model;
  `PROJECT.json` says with each hazard what the runs do check.
* Of contests: access rules and codes, the rate limit per minute, the banned users of
  a problem, ratings after a disqualification, an admin who edits `banned_users` or the
  participation of a submission by hand, and permissions that change while requests
  run. `profile.update_contest()` at the end of `problem_submit` looks at the time read
  when the request began (`_now` is cached) and does nothing. Of the status page: who may see what.
* The JavaScript of the repository is for the most part third-party libraries
  (`resources/libs`, `fine-uploader`, `pagedown`) and decoration
  (`resources/tet2026.js`, `christmas.js`). Its own logic is in `websocket/`,
  `resources/event.js` and `resources/resolver.js`, which are modelled whole; the
  server is Python.
* Ratings and performance points: floating-point numerics.
* Chat, comments, tickets, organizations, blog, courses, admin pages, templates,
  static files and locale: rows, forms and presentation with little protocol of
  their own. Admin actions and tasks that judge submissions are site processes.

## 7. Observations

Met while modelling, and plain from a line or two, and no run is about them:

* `judge/admin/contest.py:382`: the action that marks contests as hidden sets
  `is_visible=True`.
* `resources/event.js:42`: the fall-back to long polls raises, because `connect()`
  sets `websocket` on the window and the timer reads it from the receiver.
* `homework/tasks.py:15`: `models` is not imported at module level, and the clean-up
  task raises `NameError`.
* `resources/resolver.js:266`: after the first hidden subtask was revealed by a key,
  its own number is still not in `check`. `showrank` looks for the number, so such a
  user is announced only after somebody clicks the cell.
* `templates/resolver/media-js.html:335`: a click reads one digit of the problem and
  of the subtask, so that cells from the tenth on stand for others.
* `resources/resolver.js:281`: a problem without hidden subtasks has an empty list,
  whose key reveals nothing and raises once for each user and problem.
* `resources/resolver.js:188`: the replay of the frozen results lets a user pass those
  with fewer points, while the first order (lines 122-128) and the reveals (line 327)
  look at the last submission too. Users who are tied when the replay ends may stand in
  the wrong order to the end, and a user who was announced may move when a cell of his
  is clicked again.
* `templates/resolver/media-js.html:301`: when nothing was frozen, `Enter` is accepted
  before `A`, and `A` then plays the operations of that `Enter` a second time. `curop`
  runs past the last operation, and no key is accepted any more.
