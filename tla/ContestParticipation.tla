------------------------ MODULE ContestParticipation ------------------------
(***************************************************************************)
(* Taking part in a contest: joining and leaving (views/contests.py), the  *)
(* current_contest of a profile (models/profile.py), submitting under the  *)
(* limits of the contest (views/problem.py) and being disqualified         *)
(* (models/contest.py), by requests that run side by side.                 *)
(*                                                                         *)
(* A request is a thread of the site.  Each database statement of it is a  *)
(* step; in between it holds rows it has read, and save() writes every     *)
(* field of such a row back.  Time passes: the contest ends, and a         *)
(* participation with a window of its own may end at any moment.  What the *)
(* bridge does with a submission is SubmissionLifecycle's; here the status *)
(* of a submission that was sent may be written at any moment.             *)
(***************************************************************************)
EXTENDS Integers, FiniteSets

CONSTANTS
    User,
    Request,        \* threads of the site and the bridge
    Submission,     \* identities for rows of submissions
    NoPart, NoSub,
    MaxSubmissions, \* max_submissions of the problem in the contest
    PendingLimit,   \* DMOJ_SUBMISSION_LIMIT
    Windowed,       \* whether the contest has a time_limit
    MaxVirtual,     \* bound: virtual participations of a user
    Scenarios       \* who takes part at the beginning, and bounds for what follows

LIVE == 0
SPECTATE == -1
Kinds == {"join", "leave", "submit", "profile", "score"}
Part == User \X (SPECTATE .. MaxVirtual)
UserOf(p) == p[1]
Virtual(p) == p[2]

ASSUME ContestAssumption ==
    /\ IsFiniteSet(User) /\ IsFiniteSet(Request) /\ IsFiniteSet(Submission)
    /\ Request # {}
    /\ NoPart \notin Part
    /\ MaxSubmissions \in Nat \ {0} /\ PendingLimit \in Nat \ {0}
    /\ Windowed \in BOOLEAN
    /\ MaxVirtual \in Nat
    /\ Scenarios \subseteq [joined : SUBSET User, out : SUBSET User, editors : SUBSET User,
                             superusers : SUBSET User, spammers : SUBSET User,
                             kinds : SUBSET Kinds, requests : Nat, admin : Nat]
    /\ \A n \in Scenarios : n.out \subseteq n.joined

VARIABLES
    scenario,   \* the one that is played
    phase,      \* of the contest: "before", "running" or "ended"
    over,       \* participations whose own window has ended
    parts,      \* rows of ContestParticipation
    current,    \* current[u]: Profile.current_contest
    banned,     \* Contest.banned_users
    userCount,  \* Contest.user_count
    settings,   \* the rest of the Contest row: how many edits it has seen
    disqualified,   \* participations with is_disqualified
    subs,       \* subs[s]: a row of Submission with its ContestSubmission
    req,        \* req[r]: what a request is doing, and the rows it has read
    dq,         \* the disqualification in progress
    begun, admin,   \* requests and admin actions so far
    edits,      \* history: edits of the Contest row
    banFor,     \* history: the participation u was last banned for
    raced,      \* history: users with a request during a disqualification
    crowded,    \* history: two joins, or a join and an edit, overlapped
    failed,     \* history: submissions that have had an internal error
    settled     \* history: submissions that have been pending no more

contestRows == <<parts, current, banned, userCount, settings, disqualified, subs>>
history == <<edits, banFor, raced, crowded, failed, settled>>
contestVars == <<scenario, phase, over, contestRows, req, dq, begun, admin, history>>

Over(p) == p \in over \/ (phase = "ended" /\ Virtual(p) <= LIVE)

Steps == {"idle", "expire", "lookup", "remove", "admit", "number", "find", "create",
          "enter", "count", "saveContest", "saveProfile", "limit", "check", "insert",
          "judge", "saveScore"}
Idle == [at |-> "idle"]
Busy(r) == req[r].at # "idle"

\* A request: the profile's cur, the contest's ended and edit, the participation
\* and the count it has read, the submission it has written.
Held == [at : Steps \ {"idle"}, kind : Kinds, user : User, cur : Part \cup {NoPart},
         ended : BOOLEAN, edit : Nat, part : Part \cup {NoPart}, flag : BOOLEAN,
         seen : Nat, sub : Submission \cup {NoSub}]

\* QU is "queued", P and G are "judging", D, CE and AB are "done".
Row == [user : User, part : Part \cup {NoPart}, status : {"queued", "judging", "done", "IE"},
        rejudged : BOOLEAN, sent : BOOLEAN]

\* "No submission" is not one.
ASSUME NoSubAssumption == NoSub \notin Row

ContestTypeOK ==
    /\ phase \in {"before", "running", "ended"}
    /\ scenario \in Scenarios /\ over \in SUBSET Part
    /\ parts \in SUBSET Part
    /\ current \in [User -> Part \cup {NoPart}]
    /\ banned \in SUBSET User /\ disqualified \in SUBSET Part
    /\ userCount \in Nat /\ settings \in Nat
    /\ subs \in [Submission -> Row \cup {NoSub}]
    /\ req \in [Request -> Held \cup {Idle}]
    /\ dq \in [at : {"none", "kick", "ban", "unban"}, part : Part \cup {NoPart}]
    /\ begun \in Nat /\ admin \in Nat /\ edits \in Nat
    /\ banFor \in [User -> Part \cup {NoPart}]
    /\ raced \in SUBSET User /\ crowded \in BOOLEAN
    /\ failed \in SUBSET Submission /\ settled \in SUBSET Submission

\* Before the contest, or in the middle of it with some users in it already, of
\* whom some are disqualified.
ContestInit ==
    /\ scenario \in Scenarios
    /\ phase = IF scenario.joined = {} THEN "before" ELSE "running"
    /\ over = {}
    /\ parts = {<<u, LIVE>> : u \in scenario.joined}
    /\ current = [u \in User |-> IF u \in scenario.joined \ scenario.out
                                 THEN <<u, LIVE>> ELSE NoPart]
    /\ banned = scenario.out /\ disqualified = {<<u, LIVE>> : u \in scenario.out}
    /\ banFor = [u \in User |-> IF u \in scenario.out THEN <<u, LIVE>> ELSE NoPart]
    /\ userCount = Cardinality(scenario.joined) /\ settings = 0
    /\ subs = [s \in Submission |-> NoSub]
    /\ req = [r \in Request |-> Idle]
    /\ dq = [at |-> "none", part |-> NoPart]
    /\ begun = 0 /\ admin = 0 /\ edits = 0
    /\ raced = {} /\ crowded = FALSE
    /\ failed = {} /\ settled = {}

LiveRows == {p \in parts : Virtual(p) = LIVE}

\* Submission rows that count against the limits.
Counted(p) == {s \in Submission : subs[s] # NoSub /\ subs[s].part = p /\ subs[s].status # "IE"}
Pending(u) == {s \in Submission : /\ subs[s] # NoSub /\ subs[s].user = u
                                  /\ subs[s].status \in {"queued", "judging"}
                                  /\ ~subs[s].rejudged}

\* has_perm("judge.spam_submission"), which is true of every superuser.
MaySpam == scenario.superusers \cup scenario.spammers

-----------------------------------------------------------------------------
(* Requests.                                                               *)

Goto(r, step) == req' = [req EXCEPT ![r].at = step]
Finish(r) == req' = [req EXCEPT ![r] = Idle]
At(r, step) == req[r].at = step

First(kind) == CASE kind \in {"join", "leave"} -> "lookup"
                 [] kind = "submit" -> "limit"
                 [] kind = "profile" -> "saveProfile"
                 [] kind = "score" -> "saveScore"

Start(r, u, kind, cur, step, p) ==
    /\ begun < scenario.requests
    /\ ~Busy(r)
    /\ begun' = begun + 1
    /\ req' = [req EXCEPT ![r] =
                 [at |-> step, kind |-> kind, user |-> u, cur |-> cur, ended |-> FALSE,
                  edit |-> 0, part |-> p, flag |-> p \in disqualified, seen |-> 0, sub |-> NoSub]]
    /\ raced' = IF dq.at # "none" /\ UserOf(dq.part) = u THEN raced \cup {u} ELSE raced
    /\ UNCHANGED <<scenario, phase, over, contestRows, dq, admin, edits, banFor, crowded, failed, settled>>

\* ContestMiddleware: the profile is read, and update_contest looks at the time.
Begin(r) ==
    \E u \in User, kind \in scenario.kinds \ {"score"} :
        Start(r, u, kind, current[u],
              IF current[u] # NoPart /\ Over(current[u]) THEN "expire" ELSE First(kind),
              NoPart)

\* A verdict: the handler has read the participation and computes its score.
BeginScore(r) ==
    /\ "score" \in scenario.kinds
    /\ \E p \in parts : Start(r, UserOf(p), "score", NoPart, "saveScore", p)

\* What a step of a request leaves alone besides the rows of the database.
Rest == UNCHANGED <<scenario, phase, over, dq, begun, admin, edits, banFor, raced, failed, settled>>

SetCurrent(r, p) == current' = [current EXCEPT ![req[r].user] = p]

\* Mutation: a request that is over keeps the rows it has read.
RemoveContest_KeepsRows(r, next) ==
    /\ SetCurrent(r, NoPart)
    /\ req' = [req EXCEPT ![r].cur = NoPart, ![r].at = next]
    /\ UNCHANGED <<parts, banned, userCount, settings, disqualified, subs, crowded>>
    /\ Rest

\* remove_contest writes the whole profile.
RemoveContest(r, next) ==
    /\ SetCurrent(r, NoPart)
    /\ req' = [req EXCEPT ![r] = IF next = "idle" THEN Idle
                                 ELSE [@ EXCEPT !.cur = NoPart, !.at = next]]
    /\ UNCHANGED <<parts, banned, userCount, settings, disqualified, subs, crowded>>
    /\ Rest

Expire(r) == At(r, "expire") /\ RemoveContest(r, First(req[r].kind))

\* A page that saves the profile it has read.
SaveProfile(r) ==
    /\ At(r, "saveProfile")
    /\ SetCurrent(r, req[r].cur)
    /\ Finish(r)
    /\ UNCHANGED <<parts, banned, userCount, settings, disqualified, subs, crowded>>
    /\ Rest

\* update_participation saves the whole row, is_disqualified with it.
SaveScore(r) ==
    /\ At(r, "saveScore")
    /\ disqualified' = IF req[r].flag THEN disqualified \cup {req[r].part}
                                      ELSE disqualified \ {req[r].part}
    /\ Finish(r)
    /\ UNCHANGED <<parts, current, banned, userCount, settings, subs, crowded>>
    /\ Rest

-----------------------------------------------------------------------------
(* ContestJoin and ContestLeave.                                           *)

Joining(r) == Busy(r) /\ req[r].kind = "join" /\ req[r].at \notin {"expire", "lookup"}

\* get_object: the contest is read, and its idea of now.
Lookup(r) ==
    /\ At(r, "lookup")
    /\ LET q == req[r]
           allowed == IF q.kind = "join" THEN phase # "before" \/ q.user \in scenario.editors
                                         ELSE q.cur # NoPart
       IN  /\ req' = [req EXCEPT ![r] =
                        IF ~allowed THEN Idle
                        ELSE [q EXCEPT !.at = IF q.cur # NoPart THEN "remove" ELSE "admit",
                                       !.ended = phase = "ended",
                                       !.edit = settings]]
           /\ crowded' = (crowded \/ (q.kind = "join" /\ \E o \in Request : Joining(o)))
    /\ UNCHANGED contestRows /\ Rest

Remove(r) ==
    /\ At(r, "remove")
    /\ RemoveContest(r, IF req[r].kind = "leave" THEN "idle" ELSE "admit")

\* Mutation: the list of banned users is not looked at.
Admit_Anyone(r) ==
    /\ At(r, "admit")
    /\ Goto(r, IF req[r].ended THEN "number" ELSE "find")
    /\ UNCHANGED <<contestRows, crowded>> /\ Rest

Admit(r) ==
    /\ At(r, "admit")
    /\ IF req[r].user \in banned \ scenario.superusers THEN Finish(r)
       ELSE Goto(r, IF req[r].ended THEN "number" ELSE "find")
    /\ UNCHANGED <<contestRows, crowded>> /\ Rest

IdsOf(u) == {Virtual(p) : p \in {q \in parts : UserOf(q) = u}}

\* Mutation: the next id is the number of rows.
NextVirtual_Counts(u) == Cardinality(IdsOf(u)) + 1

\* max((Max("virtual") or 0) + 1, 1).
NextVirtual(u) == CHOOSE v \in 1 .. MaxVirtual + 1 :
                     /\ \A i \in IdsOf(u) : i < v
                     /\ v = 1 \/ v - 1 \in IdsOf(u)

Number(r) ==
    /\ At(r, "number")
    /\ NextVirtual(req[r].user) <= MaxVirtual
    /\ req' = [req EXCEPT ![r].at = "create",
                          ![r].part = <<req[r].user, NextVirtual(req[r].user)>>]
    /\ UNCHANGED <<contestRows, crowded>> /\ Rest

\* During the contest: the participation that is there, or spectating if it is over.
Find(r) ==
    /\ At(r, "find")
    /\ LET u == req[r].user
           p == <<u, IF u \in scenario.editors THEN SPECTATE ELSE LIVE>>
           s == <<u, SPECTATE>>
       IN  \/ /\ p \notin parts
              /\ req' = [req EXCEPT ![r].at = "create", ![r].part = p]
              /\ UNCHANGED parts
           \/ /\ p \in parts /\ ~Over(p)
              /\ req' = [req EXCEPT ![r].at = "enter", ![r].part = p]
              /\ UNCHANGED parts
           \/ /\ p \in parts /\ Over(p)
              /\ req' = [req EXCEPT ![r].at = "enter", ![r].part = s]
              /\ parts' = parts \cup {s}
    /\ UNCHANGED <<current, banned, userCount, settings, disqualified, subs, crowded>>
    /\ Rest

\* The unique key refuses a second row: the loop of virtual ids tries again, the
\* creation of a live row raises.
Create(r) ==
    /\ At(r, "create")
    /\ \/ /\ req[r].part \notin parts
          /\ parts' = parts \cup {req[r].part}
          /\ Goto(r, "enter")
       \/ /\ req[r].part \in parts /\ req[r].ended
          /\ Goto(r, "number")
          /\ UNCHANGED parts
       \/ /\ req[r].part \in parts /\ ~req[r].ended
          /\ Finish(r)
          /\ UNCHANGED parts
    /\ UNCHANGED <<current, banned, userCount, settings, disqualified, subs, crowded>>
    /\ Rest

Enter(r) ==
    /\ At(r, "enter")
    /\ SetCurrent(r, req[r].part)
    /\ Goto(r, "count")
    /\ UNCHANGED <<parts, banned, userCount, settings, disqualified, subs, crowded>>
    /\ Rest

\* Mutation: everybody is counted, those who watch too.
Count_Everybody(r) ==
    /\ At(r, "count")
    /\ req' = [req EXCEPT ![r].at = "saveContest", ![r].seen = Cardinality(parts)]
    /\ UNCHANGED <<contestRows, crowded>> /\ Rest

\* update_user_count counts, then writes the whole contest.
Count(r) ==
    /\ At(r, "count")
    /\ req' = [req EXCEPT ![r].at = "saveContest", ![r].seen = Cardinality(LiveRows)]
    /\ UNCHANGED <<contestRows, crowded>> /\ Rest

SaveContest(r) ==
    /\ At(r, "saveContest")
    /\ userCount' = req[r].seen
    /\ settings' = req[r].edit
    /\ Finish(r)
    /\ UNCHANGED <<parts, current, banned, disqualified, subs, crowded>> /\ Rest

-----------------------------------------------------------------------------
(* problem_submit.                                                         *)

\* Mutation: one pending submission too many is let through.
Limit_OffByOne(r) ==
    /\ At(r, "limit")
    /\ IF req[r].user \notin MaySpam /\ Cardinality(Pending(req[r].user)) > PendingLimit
       THEN Finish(r)
       ELSE Goto(r, "check")
    /\ UNCHANGED <<contestRows, crowded>> /\ Rest

Limit(r) ==
    /\ At(r, "limit")
    /\ IF req[r].user \notin MaySpam /\ Cardinality(Pending(req[r].user)) >= PendingLimit
       THEN Finish(r)
       ELSE Goto(r, "check")
    /\ UNCHANGED <<contestRows, crowded>> /\ Rest

\* Mutation: one submission too many is let through.
Check_OffByOne(r) ==
    /\ At(r, "check")
    /\ IF req[r].cur # NoPart /\ Cardinality(Counted(req[r].cur)) > MaxSubmissions
       THEN Finish(r)
       ELSE Goto(r, "insert")
    /\ UNCHANGED <<contestRows, crowded>> /\ Rest

\* The transaction reads the limit of the contest ...
Check(r) ==
    /\ At(r, "check")
    /\ IF req[r].cur # NoPart /\ Cardinality(Counted(req[r].cur)) >= MaxSubmissions
       THEN Finish(r)
       ELSE Goto(r, "insert")
    /\ UNCHANGED <<contestRows, crowded>> /\ Rest

\* ... and commits the new rows.  (update_contest sees the time at which the request
\* began, when the profile's contest was not over, and does nothing.)
Insert(r) ==
    /\ At(r, "insert")
    /\ \E s \in Submission :
          /\ subs[s] = NoSub
          /\ subs' = [subs EXCEPT ![s] = [user |-> req[r].user, part |-> req[r].cur,
                                          status |-> "queued", rejudged |-> FALSE,
                                          sent |-> FALSE]]
          /\ req' = [req EXCEPT ![r].at = "judge", ![r].sub = s]
    /\ UNCHANGED <<parts, current, banned, userCount, settings, disqualified, crowded>>
    /\ Rest

\* judge_submission(s, rejudge): what is being judged stays as it is.
JudgeSubmission(s, rejudge) ==
    subs' = IF subs[s].status = "judging" THEN subs
            ELSE [subs EXCEPT ![s].status = "queued", ![s].rejudged = rejudge,
                              ![s].sent = TRUE]

\* The new submission is sent to the bridge.
Judge(r) ==
    /\ At(r, "judge")
    /\ JudgeSubmission(req[r].sub, FALSE)
    /\ Finish(r)
    /\ UNCHANGED <<parts, current, banned, userCount, settings, disqualified, crowded>>
    /\ Rest

\* The handler, an abort or a request that got no answer writes a status over whatever
\* is there.  on_grading_end saves the whole row it has read, was_rejudged with it.
StatusWritten(s) ==
    /\ subs[s] # NoSub
    /\ \E status \in {"judging", "done", "IE"}, rejudged \in BOOLEAN :
          /\ status = "judging" => subs[s].sent
          /\ status # "done" => rejudged = subs[s].rejudged
          /\ subs' = [subs EXCEPT ![s].status = status, ![s].rejudged = rejudged]
          /\ failed' = IF status = "IE" THEN failed \cup {s} ELSE failed
          /\ settled' = IF status = "judging" THEN settled ELSE settled \cup {s}
    /\ UNCHANGED <<scenario, phase, over, parts, current, banned, userCount, settings,
                   disqualified, req, dq, begun, admin, edits, banFor, raced, crowded>>

\* An admin has a submission judged again.
Rejudge(s) ==
    /\ admin < scenario.admin /\ admin' = admin + 1
    /\ subs[s] # NoSub /\ subs[s].status # "judging"
    /\ JudgeSubmission(s, TRUE)
    /\ settled' = settled \cup {s}
    /\ UNCHANGED <<scenario, phase, over, parts, current, banned, userCount, settings,
                   disqualified, req, dq, begun, edits, banFor, raced, crowded, failed>>

-----------------------------------------------------------------------------
(* set_disqualified: the row, the profile, the list of banned users.       *)

\* is_disqualified is turned over and the results are computed again.
Disqualify(p) ==
    /\ admin < scenario.admin /\ admin' = admin + 1
    /\ dq.at = "none" /\ p \in parts
    /\ dq' = [at |-> IF p \in disqualified THEN "unban" ELSE "kick", part |-> p]
    /\ disqualified' = IF p \in disqualified THEN disqualified \ {p}
                                             ELSE disqualified \cup {p}
    /\ raced' = IF \E r \in Request : Busy(r) /\ req[r].user = UserOf(p)
                THEN raced \cup {UserOf(p)} ELSE raced
    /\ UNCHANGED <<scenario, phase, over, parts, current, banned, userCount, settings,
                   subs, req, begun, edits, banFor, crowded, failed, settled>>

Kick ==
    /\ dq.at = "kick"
    /\ current' = [current EXCEPT ![UserOf(dq.part)] = IF @ = dq.part THEN NoPart ELSE @]
    /\ dq' = [dq EXCEPT !.at = "ban"]
    /\ UNCHANGED <<scenario, phase, over, parts, banned, userCount, settings, disqualified,
                   subs, req, begun, admin, history>>

Ban ==
    /\ dq.at = "ban"
    /\ banned' = banned \cup {UserOf(dq.part)}
    /\ banFor' = [banFor EXCEPT ![UserOf(dq.part)] = dq.part]
    /\ dq' = [at |-> "none", part |-> NoPart]
    /\ UNCHANGED <<scenario, phase, over, parts, current, userCount, settings, disqualified,
                   subs, req, begun, admin, edits, raced, crowded, failed, settled>>

Unban ==
    /\ dq.at = "unban"
    /\ banned' = banned \ {UserOf(dq.part)}
    /\ dq' = [at |-> "none", part |-> NoPart]
    /\ UNCHANGED <<scenario, phase, over, parts, current, userCount, settings, disqualified,
                   subs, req, begun, admin, history>>

\* An admin saves the contest.
EditContest ==
    /\ admin < scenario.admin /\ admin' = admin + 1
    /\ settings' = edits + 1 /\ edits' = edits + 1
    /\ crowded' = (crowded \/ \E r \in Request : Joining(r))
    /\ UNCHANGED <<scenario, phase, over, parts, current, banned, userCount, disqualified,
                   subs, req, dq, begun, banFor, raced, failed, settled>>

-----------------------------------------------------------------------------
(* Time.                                                                   *)

StartContest == phase = "before" /\ phase' = "running" /\ UNCHANGED over
EndContest == phase = "running" /\ phase' = "ended" /\ UNCHANGED over
EndWindow ==
    /\ \E p \in parts : /\ Virtual(p) > LIVE \/ (Windowed /\ Virtual(p) = LIVE)
                        /\ p \notin over /\ over' = over \cup {p}
    /\ UNCHANGED phase

TimePasses ==
    /\ StartContest \/ EndContest \/ EndWindow
    /\ UNCHANGED <<scenario, contestRows, req, dq, begun, admin, history>>

-----------------------------------------------------------------------------
RequestStep(r) ==
    \/ Expire(r) \/ SaveProfile(r) \/ SaveScore(r)
    \/ Lookup(r) \/ Remove(r) \/ Admit(r) \/ Number(r) \/ Find(r) \/ Create(r)
    \/ Enter(r) \/ Count(r) \/ SaveContest(r)
    \/ Limit(r) \/ Check(r) \/ Insert(r) \/ Judge(r)

AdminStep ==
    \/ \E p \in parts : Disqualify(p)
    \/ Kick \/ Ban \/ Unban \/ EditContest
    \/ \E s \in Submission : Rejudge(s)

ContestNext ==
    \/ \E r \in Request : Begin(r) \/ BeginScore(r) \/ RequestStep(r)
    \/ \E s \in Submission : StatusWritten(s)
    \/ AdminStep
    \/ TimePasses

ContestSpec == ContestInit /\ [][ContestNext]_contestVars

-----------------------------------------------------------------------------
(* Properties.                                                             *)

\* The virtual participations of a user are numbered from one without a gap, in
\* whatever order his requests read the greatest number and create the next
\* (join_contest).
VirtualIdsDense ==
    \A p \in parts : Virtual(p) > 1 => <<UserOf(p), Virtual(p) - 1>> \in parts

\* Requests that check the limits side by side can pass them together, but no more of
\* them than run at once.  Beyond that only those can count that did not for a while: a
\* submission that was given an internal error, by a judge or because the bridge's
\* answer was lost, and then was judged; for the pending ones, any that had ended or was
\* judged again.  A user with spam_submission has no limit (problem_submit).
LimitsHold ==
    /\ \A p \in Part : Cardinality(Counted(p) \ failed)
                           <= MaxSubmissions + Cardinality(Request) - 1
    /\ \A u \in User \ MaySpam : Cardinality(Pending(u) \ settled)
                                     <= PendingLimit + Cardinality(Request) - 1

\* A banned user is out of the participation he was banned for, and it stays
\* disqualified, unless a request about him overlapped the disqualification: a join
\* that had passed the check, a page that saved an old profile, a verdict that
\* saved an old participation (set_disqualified).  A superuser is put out as well but
\* may join again.
DisqualificationHolds ==
    \A u \in banned \ raced :
        /\ dq.at = "none"
        => /\ u \in scenario.superusers \/ current[u] # banFor[u]
           /\ banFor[u] \in disqualified

\* The contest's row: user_count never exceeds the live participations; if no join
\* overlapped another or an edit it is exact between joins, and no edit is lost
\* (update_user_count saves the row read at the beginning of the request).
ContestRowKept ==
    /\ userCount <= Cardinality(LiveRows)
    /\ ~crowded => settings = edits
    /\ ~crowded /\ (\A r \in Request : ~Joining(r)) => userCount = Cardinality(LiveRows)
=============================================================================
