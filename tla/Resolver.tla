------------------------------ MODULE Resolver ------------------------------
(***************************************************************************)
(* The resolver of a contest with hidden subtasks (resources/resolver.js   *)
(* and the script of its page): the board starts from the frozen results,  *)
(* plays what the freeze hid, and then reveals the hidden subtasks, one at *)
(* a press of a key or a click, from the last place upwards.               *)
(*                                                                         *)
(* Two copies of the board exist: the resolver's, which is up to date as   *)
(* soon as a key is pressed, and the one on the page, to which timers      *)
(* apply the operations one after another.                                 *)
(***************************************************************************)
EXTENDS Integers, Sequences, FiniteSets, SequencesExt

CONSTANTS
    Users,      \* number of users
    Problems,   \* number of problems
    Contests,   \* the contests to resolve: what the server sends
    MaxHurry    \* bound: keys and clicks that do not wait for the timers

User == 1 .. Users
Problem == 1 .. Problems

\* A contest: subs[p] subtasks of problem p, the list hidden[p], the points full[p][s]
\* of a subtask, last[u], and the points of a user's subtasks in the end and when the
\* board was frozen, each the best of the submissions that count.  has[u]: the problems u
\* has results for.
IsContest(c) ==
    /\ c.subs \in [Problem -> Nat] /\ c.hidden \in [Problem -> Seq(Nat)]
    /\ c.last \in [User -> Nat] /\ c.has \in [User -> SUBSET Problem]
    /\ \A p \in Problem : c.full[p] \in [1 .. c.subs[p] -> Nat]
    /\ \A u \in User : \A p \in Problem :
          /\ c.points[u][p] \in [1 .. c.subs[p] -> Nat]
          /\ c.frozen[u][p] \in [1 .. c.subs[p] -> Nat]
          /\ \A s \in 1 .. c.subs[p] : /\ c.frozen[u][p][s] <= c.points[u][p][s]
                                      /\ c.points[u][p][s] <= c.full[p][s]

ASSUME ResolverAssumption ==
    /\ Users \in Nat \ {0} /\ Problems \in Nat /\ MaxHurry \in Nat
    /\ \A c \in Contests : IsContest(c)

VARIABLES
    contest,
    arr,        \* rankarr: the users from the first place to the last
    score,      \* score[u] of the resolver
    got,        \* got[u][p][s]: old_point of a subtask
    place,      \* where the loop of calcOperations is, 0 when it has ended
    frozen,     \* the problems of users that have the status "frozen"
    check,      \* check[u]: the subtasks revealed, as <<p, key>>
    isshow, delay,
    ops, curop, \* operations, and the index (from 0) of the one being played
    autopress,
    timers,     \* batches of callbacks that have not run
    page,       \* rank_frozen
    hurried     \* history: keys and clicks that came before the last callback

resolverVars == <<contest, arr, score, got, place, frozen, check, isshow, delay, ops, curop, autopress,
                  timers, page, hurried>>
Subs(p) == 1 .. contest.subs[p]
Cells == UNION {{<<p, s>> : s \in Subs(p)} : p \in Problem}

\* sub_frozen[p] is a list, and JavaScript compares it as a number: [k] as k, [] as 0,
\* and nothing compares with a longer one.
Single(p) == Len(contest.hidden[p]) = 1
First(p) == IF Single(p) THEN contest.hidden[p][1] ELSE 0
Opened(p) == IF Single(p) THEN 1 .. First(p) - 1 ELSE {}
Visible(p) == Opened(p) \cap Subs(p)

\* The key with which next_operation asks for the first hidden subtask is the list.
LIST == 0
\* Mutation: the last subtask is left out.
Keys_ButLast(p) == IF Len(contest.hidden[p]) > 1 \/ First(p) >= contest.subs[p] THEN {}
                   ELSE {LIST} \cup (First(p) + 1 .. contest.subs[p] - 1)
Keys(p) == IF Len(contest.hidden[p]) > 1 \/ First(p) > contest.subs[p] THEN {}
           ELSE {LIST} \cup (First(p) + 1 .. contest.subs[p])

Total(pts) == SumFunction(pts)
Perfect(p) == Total(contest.full[p])
Points(row) == Total([p \in Problem |-> Total(row[p])])
Ascending(S) == CHOOSE f \in [1 .. Cardinality(S) -> S] :
                    \A j, k \in 1 .. Cardinality(S) : j < k => f[j] < f[k]
Position(u) == CHOOSE i \in DOMAIN arr : arr[i] = u

-----------------------------------------------------------------------------
(* The order of the board.                                                 *)

Ahead(u, v, pts) ==
    \/ pts[u] > pts[v]
    \/ pts[u] = pts[v] /\ contest.last[u] < contest.last[v]

\* rankarr.sort is stable: users nothing tells apart stay in the order of their ids.
Sorted(pts) ==
    LET Before(u, v) == Ahead(u, v, pts) \/ (u < v /\ ~Ahead(v, u, pts))
    IN  [i \in User |-> CHOOSE u \in User :
                            Cardinality({v \in User : Before(v, u)}) = i - 1]

\* Mutation: one place at most is gained.
Lift_OnePlace(order, i, passed) ==
    LET j == IF i > 1 /\ order[i - 1] \in passed THEN i - 1 ELSE i
    IN  <<j, [k \in User |-> IF k = j THEN order[i]
                             ELSE IF j < k /\ k <= i THEN order[k - 1] ELSE order[k]]>>

\* The user at place i rises past the users directly above him whom he has passed: the
\* place he comes to, and the new order.
Lift(order, i, passed) ==
    LET j == CHOOSE n \in 1 .. i : /\ \A k \in n .. i - 1 : order[k] \in passed
                                   /\ n = 1 \/ order[n - 1] \notin passed
    IN  <<j, [k \in User |-> IF k = j THEN order[i]
                             ELSE IF j < k /\ k <= i THEN order[k - 1] ELSE order[k]]>>

SubOp(u, p, s, old, new) ==
    [type |-> "sub", user |-> u, problem |-> p, sub |-> s, old |-> old, new |-> new]
\* Mutation: the new rank counts from zero.
ProblemOp_FromZero(u, p, old, new, from, to) ==
    [type |-> "problem", user |-> u, problem |-> p, old |-> old, new |-> new,
     from |-> from, to |-> to - 1]

ProblemOp(u, p, old, new, from, to) ==
    [type |-> "problem", user |-> u, problem |-> p, old |-> old, new |-> new,
     from |-> from, to |-> to]

Gain(old, new) == IF new > old THEN new - old ELSE 0

-----------------------------------------------------------------------------
(* calcOperations.                                                         *)

FrozenGot == [u \in User |-> [p \in Problem |-> [s \in Subs(p) |->
                 IF p \in contest.has[u] /\ s \in Visible(p)
                 THEN contest.frozen[u][p][s] ELSE 0]]]
FrozenScore == [u \in User |-> Points(FrozenGot[u])]

\* The status "frozen": the points shown are not all that the problem is worth.
WasFrozen(u, p) == p \in contest.has[u] /\ Total(FrozenGot[u][p]) # Perfect(p)

ResolverInit ==
    /\ contest \in Contests
    /\ arr = Sorted(FrozenScore) /\ score = FrozenScore /\ got = FrozenGot
    /\ place = Users
    /\ frozen = {c \in User \X Problem : WasFrozen(c[1], c[2])}
    /\ check = [u \in User |-> UNION {{<<p, s>> : s \in Opened(p)} : p \in Problem}]
    /\ isshow = {} /\ delay = FALSE
    /\ ops = << >> /\ curop = -1 /\ autopress = FALSE
    /\ timers = << >>
    /\ page = [rank |-> [u \in User |-> Position(u)], score |-> score, got |-> got,
               problem |-> [u \in User |-> [p \in Problem |-> Total(got[u][p])]]]
    /\ hurried = 0

Unloaded == <<contest, check, isshow, delay, curop, autopress, timers, page, hurried>>

FrozenAt(i) == {p \in Problem : <<arr[i], p>> \in frozen}

\* What the freeze hid is played for the first frozen problem of the user at the place
\* the loop is at: an operation for each subtask he had not solved, and one for the
\* problem.  A rise is decided by the score alone.
Thaw ==
    /\ place > 0 /\ FrozenAt(place) # {}
    /\ LET u == arr[place]
           p == Min(FrozenAt(place))
           old == got[u][p]
           new == [s \in Subs(p) |-> IF s \in Visible(p) THEN contest.points[u][p][s] ELSE 0]
           told == Ascending({s \in Visible(p) : old[s] # contest.full[p][s]})
           pts == [score EXCEPT ![u] = @ + Gain(Total(old), Total(new))]
           lift == Lift(arr, place, {v \in User : pts[v] < pts[u]})
       IN  /\ arr' = lift[2] /\ score' = pts
           /\ got' = [got EXCEPT ![u][p] = new]
           /\ frozen' = frozen \ {<<u, p>>}
           /\ ops' = ops
                 \o [n \in DOMAIN told |-> SubOp(u, p, told[n], old[told[n]], new[told[n]])]
                 \o <<ProblemOp(u, p, Total(old), Total(new), place, lift[1])>>
    /\ UNCHANGED <<place, Unloaded>>

\* Nobody with a frozen problem is left at this place: the one above is next.
NextPlace ==
    /\ place > 0 /\ FrozenAt(place) = {}
    /\ place' = place - 1
    /\ UNCHANGED <<arr, score, got, frozen, ops, Unloaded>>

CalcOperations == Thaw \/ NextPlace
Loaded == place = 0

-----------------------------------------------------------------------------
(* The timers of the page.                                                 *)

\* Two operations or more are selected and applied in turn; a single one is selected
\* at once.
Callbacks(n) == [k \in 1 .. 2 * n |-> IF k % 2 = 1 THEN "select" ELSE "apply"]

Launch(new) ==
    /\ ops' = new
    /\ curop' = IF Len(new) = 1 THEN 0 ELSE -1
    /\ timers' = CASE Len(new) = 0 -> timers
                   [] Len(new) = 1 -> Append(timers, <<"apply">>)
                   [] OTHER -> Append(timers, Callbacks(Len(new)))
    /\ hurried' = IF timers = << >> THEN hurried ELSE hurried + 1

\* Mutation: the users who are overtaken keep their rank.
PlayProblem_Alone(op) ==
    page' = [page EXCEPT !.rank[op.user] = op.to, !.score[op.user] = @ + op.new - op.old,
                         !.problem[op.user][op.problem] = op.new]

PlayProblem(op) ==
    page' = [page EXCEPT
               !.rank = [v \in User |-> IF v = op.user THEN op.to
                                        ELSE IF @[v] < op.from /\ @[v] >= op.to
                                        THEN @[v] + 1 ELSE @[v]],
               !.score[op.user] = @ + op.new - op.old,
               !.problem[op.user][op.problem] = op.new]

PlaySub(op) ==
    page' = [page EXCEPT !.got[op.user][op.problem][op.sub] = op.new,
                         !.problem[op.user][op.problem] = @ + op.new - op.old]

\* getNewData reads the operation at curop when it runs; there may be none there.
GetNewData ==
    IF curop \notin 0 .. Len(ops) - 1 THEN UNCHANGED page
    ELSE LET op == ops[curop + 1]
         IN  CASE op.type = "problem" -> PlayProblem(op)
               [] op.type = "sub" -> PlaySub(op)
               [] OTHER -> UNCHANGED page

Fire(b) ==
    /\ timers' = IF Len(timers[b]) = 1 THEN RemoveAt(timers, b)
                 ELSE [timers EXCEPT ![b] = Tail(@)]
    /\ \/ Head(timers[b]) = "select" /\ curop' = curop + 1 /\ UNCHANGED page
       \/ Head(timers[b]) = "apply" /\ GetNewData /\ UNCHANGED curop
    /\ UNCHANGED <<contest, arr, score, got, place, frozen, check, isshow, delay, ops, autopress,
                   hurried>>

-----------------------------------------------------------------------------
(* Keys and clicks.                                                        *)

\* The last operation has been selected.
Patient == timers = << >> \/ hurried < MaxHurry
Ready == Loaded /\ Patient /\ curop = Len(ops) - 1

\* Mutation: A can be pressed again.
PressA_Again ==
    /\ Loaded /\ autopress' = TRUE
    /\ Patient
    /\ timers' = IF ops = << >> THEN timers ELSE Append(timers, Callbacks(Len(ops)))
    /\ hurried' = IF timers = << >> THEN hurried ELSE hurried + 1
    /\ UNCHANGED <<contest, arr, score, got, place, frozen, check, isshow, delay, ops, curop, page>>

\* A plays the operations of calcOperations, once.
PressA ==
    /\ Loaded /\ ~autopress /\ autopress' = TRUE
    /\ Patient
    /\ timers' = IF ops = << >> THEN timers ELSE Append(timers, Callbacks(Len(ops)))
    /\ hurried' = IF timers = << >> THEN hurried ELSE hurried + 1
    /\ UNCHANGED <<contest, arr, score, got, place, frozen, check, isshow, delay, ops, curop, page>>

\* operation: the user at place i, and the subtask a key of problem p stands for.  A
\* subtask that is not there raises after the key has been put down as revealed.
Reveal(i, p, key) ==
    LET u == arr[i]
        s == IF key = LIST THEN First(p) ELSE key
    IN  IF <<p, key>> \in check[u] THEN Launch(<< >>) /\ UNCHANGED <<arr, score, got, check>>
        ELSE /\ check' = [check EXCEPT ![u] = @ \cup {<<p, key>>}]
             /\ IF p \notin contest.has[u] \/ s \notin Subs(p)
                THEN Launch(<< >>) /\ UNCHANGED <<arr, score, got>>
                ELSE LET old == Total(got[u][p])
                         new == old + contest.points[u][p][s] - got[u][p][s]
                         pts == [score EXCEPT ![u] = @ + Gain(old, new)]
                         lift == Lift(arr, i, {v \in User : Ahead(u, v, pts)})
                     IN  /\ arr' = lift[2]
                         /\ score' = pts
                         /\ got' = [got EXCEPT ![u][p][s] = contest.points[u][p][s]]
                         /\ Launch(<<SubOp(u, p, s, got[u][p][s], contest.points[u][p][s]),
                                     ProblemOp(u, p, old, new, i, lift[1])>>)

Hidden(u) == (UNION {{<<p, k>> : k \in Keys(p)} : p \in contest.has[u]}) \ check[u]

\* The cell of the lowest user that has one left, the first of it.
NextOf(u) == LET p == Min({c[1] : c \in Hidden(u)})
             IN  <<p, Min({c[2] : c \in {d \in Hidden(u) : d[1] = p}})>>

RevealNext ==
    LET left == {i \in User : Hidden(arr[i]) # {}}
    IN  IF left = {} THEN Launch(<< >>) /\ UNCHANGED <<arr, score, got, check>>
        ELSE LET c == NextOf(arr[Max(left)]) IN Reveal(Max(left), c[1], c[2])

\* Mutation: the first problem of the user is looked at, and no other.
Done_FirstProblem(u) ==
    contest.has[u] = {} \/ \A s \in Subs(Min(contest.has[u])) : <<Min(contest.has[u]), s>> \in check[u]

Done(u) == \A p \in contest.has[u] : \A s \in Subs(p) : <<p, s>> \in check[u]

\* showrank: the lowest user who has not been shown, once all is revealed of him.
Unshown == {i \in User : arr[i] \notin isshow}
MayShow == Unshown # {} /\ Done(arr[Max(Unshown)])

PressEnter ==
    /\ Ready
    /\ \/ /\ delay
          /\ delay' = FALSE
          /\ Launch(<<[type |-> "delay"]>>)
          /\ UNCHANGED <<arr, score, got, check, isshow>>
       \/ /\ ~delay /\ MayShow
          /\ delay' = TRUE
          /\ isshow' = isshow \cup {arr[Max(Unshown)]}
          /\ Launch(<<[type |-> "show", user |-> arr[Max(Unshown)]]>>)
          /\ UNCHANGED <<arr, score, got, check>>
       \/ /\ ~delay /\ ~MayShow
          /\ RevealNext
          /\ UNCHANGED <<isshow, delay>>
    /\ UNCHANGED <<contest, place, frozen, autopress, page>>

\* A click names a user and a subtask; the user is looked up by the rank on the page.
Click(u, p, s) ==
    /\ Ready
    /\ Reveal(page.rank[u], p, s)
    /\ UNCHANGED <<contest, place, frozen, isshow, delay, autopress, page>>

ResolverNext ==
    \/ CalcOperations
    \/ PressA \/ PressEnter
    \/ \E u \in User, c \in Cells : Click(u, c[1], c[2])
    \/ \E b \in DOMAIN timers : Fire(b)

ResolverSpec == ResolverInit /\ [][ResolverNext]_resolverVars

-----------------------------------------------------------------------------
(* Properties.                                                             *)

ResolverTypeOK ==
    /\ contest \in Contests
    /\ arr \in [User -> User] /\ \A u \in User : \E i \in User : arr[i] = u
    /\ score \in [User -> Nat]
    /\ \A u \in User, c \in Cells : got[u][c[1]][c[2]] \in 0 .. contest.full[c[1]][c[2]]
    /\ isshow \subseteq User /\ delay \in BOOLEAN /\ autopress \in BOOLEAN
    /\ curop \in Nat \cup {-1}
    /\ page.rank \in [User -> User]
    /\ hurried \in Nat

\* The board is in the order of the scores, and a score is what its subtasks say,
\* whatever order the subtasks are revealed in (calcOperations, operation).
BoardSorted ==
    /\ \A i \in User \ {Users} : score[arr[i]] >= score[arr[i + 1]]
    /\ \A u \in User : score[u] = Points(got[u])

\* When every callback has run, the page shows the resolver's board, unless a key or a
\* click came while a callback of the batch before was left, or the frozen operations
\* have not been played (getNewData).
PageFollows ==
    Loaded /\ timers = << >> /\ hurried = 0 /\ (autopress \/ curop = Len(ops) - 1)
        => /\ \A i \in User : page.rank[arr[i]] = i
           /\ page.score = score /\ page.got = got
           /\ \A u \in User, p \in Problem : page.problem[u][p] = Total(got[u][p])

\* The order of the first board and of the reveals: by the score, and ties by the last
\* submission.  The replay of the frozen results looks at the score alone.
InOrder == \A i \in User \ {Users} : ~Ahead(arr[i + 1], arr[i], score)

\* Reveals keep the board in that order if the replay left it so, wherever the clicks
\* are and whoever rises past whom (operation).
TiesKept == [][Loaded /\ InOrder => InOrder']_resolverVars

\* The users who were announced are the last ones, and each keeps the place he was
\* announced at, whatever is revealed afterwards, as long as ties are in order (showrank).
LastAnnounced == \A i, k \in User : i < k /\ arr[i] \in isshow => arr[k] \in isshow

AnnouncedIsFinal ==
    [][InOrder /\ LastAnnounced =>
           /\ LastAnnounced'
           /\ \A i \in User : arr[i] \in isshow => arr'[i] = arr[i]]_resolverVars

\* When Enter has nothing left to reveal, every subtask of a problem that hides at most
\* one number is shown with its final points (next_operation).
FinalStanding ==
    Loaded /\ (\A u \in User : Hidden(u) = {}) =>
        \A u \in User : \A p \in contest.has[u] :
            Len(contest.hidden[p]) <= 1 => got[u][p] = contest.points[u][p]

\* The page never stops answering: when every callback has run and the frozen operations
\* have been played, the next key is accepted, however hurried the keys before it were,
\* if the freeze left something to play.
NeverStuck ==
    (\E u \in User, p \in Problem : WasFrozen(u, p)) =>
        (Loaded /\ autopress /\ timers = << >> => curop = Len(ops) - 1)
=============================================================================
