--------------------------- MODULE ContestProofs ---------------------------
(***************************************************************************)
(* What TLAPS proves of ContestParticipation, for any number of users,     *)
(* requests, submissions and limits: the types, the numbering of virtual   *)
(* participations and the limits; and, of the rows several requests write  *)
(* whole, the contest's row and the rows of a disqualified user.           *)
(***************************************************************************)
EXTENDS ContestParticipation, FiniteSetTheorems, WellFoundedInduction, TLAPS

-----------------------------------------------------------------------------
(* Operators.                                                              *)

\* The next virtual id is there to choose: it is above every id of the user, and it is
\* 1 or follows one of them.
LEMMA NextVirtualProperties ==
    ASSUME parts \subseteq Part, NEW u \in User
    PROVE  /\ NextVirtual(u) \in 1 .. MaxVirtual + 1
           /\ NextVirtual(u) = 1 \/ <<u, NextVirtual(u) - 1>> \in parts
<1> DEFINE T == {n \in Nat : n >= 1 /\ \A i \in IdsOf(u) : i < n}
<1>1. MaxVirtual \in Nat
    BY ContestAssumption
<1>2. \A i \in IdsOf(u) : i \in Int /\ i <= MaxVirtual
    BY <1>1 DEF IdsOf, Part, SPECTATE, UserOf, Virtual
<1>3. MaxVirtual + 1 \in T
    BY <1>1, <1>2
<1>4. \E m \in T : \A n \in T : ~ (n < m)
    <2>1. \E x \in T : \A y \in T : <<y, x>> \notin OpToRel(<, Nat)
        BY <1>3, NatLessThanWellFounded, WFMin
    <2> QED  BY <2>1 DEF OpToRel
<1>5. PICK m \in T : \A n \in T : ~ (n < m)
    BY <1>4
<1>6. m \in 1 .. MaxVirtual + 1
    BY <1>1, <1>3, <1>5
<1>7. m = 1 \/ m - 1 \in IdsOf(u)
    <2> SUFFICES ASSUME m # 1 PROVE m - 1 \in IdsOf(u)
        OBVIOUS
    <2>1. m - 1 \in Nat /\ m - 1 >= 1 /\ m - 1 \notin T
        BY <1>5
    <2>2. PICK i \in IdsOf(u) : ~ (i < m - 1)
        BY <2>1
    <2>3. i < m /\ i \in Int
        BY <1>2, <1>5
    <2> QED  BY <2>1, <2>2, <2>3
<1>8. \E v \in 1 .. MaxVirtual + 1 : /\ \A i \in IdsOf(u) : i < v
                                     /\ v = 1 \/ v - 1 \in IdsOf(u)
    BY <1>5, <1>6, <1>7
<1>9. /\ NextVirtual(u) \in 1 .. MaxVirtual + 1
      /\ NextVirtual(u) = 1 \/ NextVirtual(u) - 1 \in IdsOf(u)
    BY <1>8 DEF NextVirtual
<1>10. \A i \in IdsOf(u) : <<u, i>> \in parts
    BY DEF IdsOf, Part, UserOf, Virtual
<1> QED  BY <1>9, <1>10

-----------------------------------------------------------------------------
(* Types.                                                                  *)

Inside == {"admit", "number", "find", "create", "enter", "count", "saveContest"}

\* What the step a request is at says of the rows it holds.
RequestOK(q) ==
    /\ q.at \in Inside => q.kind = "join"
    /\ q.at \in {"lookup", "remove"} => q.kind \in {"join", "leave"}
    /\ q.at = "expire" => q.kind # "score"
    /\ q.at \in {"create", "enter", "saveScore"} => q.part \in Part /\ UserOf(q.part) = q.user

Shape ==
    /\ \A r \in Request : Busy(r) => RequestOK(req[r])
    /\ dq.at # "none" => dq.part \in Part

TypeInv == ContestTypeOK /\ Shape

\* A request that is about to send a submission has written its row.
SentInv == \A r \in Request :
    req[r].at = "judge" => req[r].sub \in Submission /\ subs[req[r].sub] \in Row

LEMMA IdleIsNotHeld == Idle \notin Held
BY DEF Idle, Held, Steps

\* Moving a request on keeps its type.
LEMMA HeldMoves ==
    ASSUME NEW q \in Held, NEW n \in Steps \ {"idle"}, NEW p \in Part \cup {NoPart},
           NEW c \in Part \cup {NoPart}, NEW b \in BOOLEAN, NEW k \in Nat, NEW m \in Nat
    PROVE  /\ [q EXCEPT !.at = n] \in Held
           /\ [q EXCEPT !.cur = c, !.at = n] \in Held
           /\ [q EXCEPT !.at = n, !.ended = b, !.edit = k] \in Held
           /\ [q EXCEPT !.at = n, !.part = p] \in Held
           /\ [q EXCEPT !.at = n, !.seen = m] \in Held
BY DEF Held

LEMMA PartIsFinite == IsFiniteSet(Part)
<1>1. MaxVirtual \in Nat /\ IsFiniteSet(User)
    BY ContestAssumption
<1>2. IsFiniteSet(SPECTATE .. MaxVirtual)
    BY <1>1, FS_Interval DEF SPECTATE
<1> QED  BY <1>1, <1>2, FS_Product DEF Part

\* A set of rows can be counted.
LEMMA PartsAreCounted ==
    ASSUME NEW S \in SUBSET Part
    PROVE  IsFiniteSet(S) /\ Cardinality(S) \in Nat
BY PartIsFinite, FS_Subset, FS_CardinalityType

LEMMA InitTypes == ContestInit => TypeInv
<1> SUFFICES ASSUME ContestInit PROVE TypeInv
    OBVIOUS
<1> USE DEF ContestInit
<1>1. scenario \in [joined : SUBSET User, out : SUBSET User, editors : SUBSET User,
                    superusers : SUBSET User, spammers : SUBSET User,
                    kinds : SUBSET Kinds, requests : Nat, admin : Nat]
    BY ContestAssumption
<1>2. \A u \in User : <<u, LIVE>> \in Part
    BY ContestAssumption DEF Part, LIVE, SPECTATE
<1>3. parts \in SUBSET Part /\ disqualified \in SUBSET Part
    BY <1>1, <1>2
<1>4. userCount \in Nat
    <2>1. IsFiniteSet(scenario.joined)
        BY <1>1, ContestAssumption, FS_Subset
    <2> QED  BY <2>1, FS_CardinalityType
<1>5. ContestTypeOK
    BY <1>1, <1>2, <1>3, <1>4 DEF ContestTypeOK
<1>6. Shape
    BY DEF Shape, Busy, Idle
<1> QED  BY <1>5, <1>6 DEF TypeInv

\* A step of request r that leaves it at another step, or done.
LEMMA RequestChanges ==
    ASSUME TypeInv, NEW r \in Request, NEW q,
           q = Idle \/ (q \in Held /\ RequestOK(q)),
           req' = [req EXCEPT ![r] = q], UNCHANGED dq
    PROVE  req' \in [Request -> Held \cup {Idle}] /\ Shape'
<1>1. req \in [Request -> Held \cup {Idle}] /\ Shape
    BY DEF TypeInv, ContestTypeOK
<1>2. req' \in [Request -> Held \cup {Idle}]
    BY <1>1
<1>3. \A o \in Request : req'[o] = IF o = r THEN q ELSE req[o]
    BY <1>1
<1>4. (dq.at # "none" => dq.part \in Part)'
    BY <1>1 DEF Shape
<1>5. ASSUME NEW o \in Request, req'[o].at # "idle"
      PROVE  RequestOK(req'[o])
    BY <1>1, <1>3, <1>5 DEF Shape, Busy, Idle
<1> QED  BY <1>2, <1>4, <1>5 DEF Shape, Busy, RequestOK

\* A request begins.
LEMMA StartTypes ==
    ASSUME TypeInv, NEW r \in Request, NEW u \in User, NEW kind \in Kinds,
           NEW cur \in Part \cup {NoPart}, NEW step \in Steps \ {"idle"},
           NEW p \in Part \cup {NoPart},
           step \in {"expire", "lookup", "limit", "saveProfile"}
               \/ (step = "saveScore" /\ p \in Part /\ UserOf(p) = u),
           step = "expire" => kind # "score", step = "lookup" => kind \in {"join", "leave"},
           Start(r, u, kind, cur, step, p)
    PROVE  TypeInv'
<1> DEFINE q == [at |-> step, kind |-> kind, user |-> u, cur |-> cur, ended |-> FALSE,
                 edit |-> 0, part |-> p, flag |-> p \in disqualified, seen |-> 0, sub |-> NoSub]
<1>1. q \in Held /\ RequestOK(q)
    BY DEF Held, RequestOK, Inside
<1>2. req' = [req EXCEPT ![r] = q] /\ UNCHANGED dq
    BY DEF Start
<1> HIDE DEF q
<1>3. req' \in [Request -> Held \cup {Idle}] /\ Shape'
    BY <1>1, <1>2, RequestChanges
<1>4. begun' \in Nat /\ raced' \in SUBSET User
    BY DEF Start, TypeInv, ContestTypeOK
<1>5. ContestTypeOK'
    BY <1>3, <1>4 DEF Start, TypeInv, ContestTypeOK, contestRows
<1> QED  BY <1>3, <1>5 DEF TypeInv

LEMMA BeginTypes ==
    ASSUME TypeInv, NEW r \in Request, Begin(r) \/ BeginScore(r)
    PROVE  TypeInv'
<1>0. scenario \in [joined : SUBSET User, out : SUBSET User, editors : SUBSET User,
                    superusers : SUBSET User, spammers : SUBSET User,
                    kinds : SUBSET Kinds, requests : Nat, admin : Nat]
    BY ContestAssumption DEF TypeInv, ContestTypeOK
<1>1. CASE Begin(r)
    <2>1. PICK u \in User, kind \in scenario.kinds \ {"score"} :
              Start(r, u, kind, current[u],
                    IF current[u] # NoPart /\ Over(current[u]) THEN "expire" ELSE First(kind),
                    NoPart)
        BY <1>1 DEF Begin
    <2>2. kind \in Kinds \ {"score"} /\ current[u] \in Part \cup {NoPart}
        BY <1>0 DEF TypeInv, ContestTypeOK
    <2>3. /\ First(kind) \in {"lookup", "limit", "saveProfile"}
          /\ First(kind) = "lookup" => kind \in {"join", "leave"}
        BY <2>2 DEF Kinds, First
    <2> DEFINE step == IF current[u] # NoPart /\ Over(current[u]) THEN "expire" ELSE First(kind)
    <2>4. /\ step \in {"expire", "lookup", "limit", "saveProfile"} /\ step \in Steps \ {"idle"}
          /\ step = "lookup" => kind \in {"join", "leave"}
        BY <2>3 DEF Steps
    <2> HIDE DEF step
    <2>5. Start(r, u, kind, current[u], step, NoPart)
        BY <2>1 DEF step
    <2> QED  BY <2>2, <2>4, <2>5, StartTypes
<1>2. CASE BeginScore(r)
    <2>1. PICK p \in parts : Start(r, UserOf(p), "score", NoPart, "saveScore", p)
        BY <1>2 DEF BeginScore
    <2>2. p \in Part /\ UserOf(p) \in User
        BY DEF TypeInv, ContestTypeOK, Part, UserOf
    <2>3. "score" \in Kinds /\ "saveScore" \in Steps \ {"idle"}
        BY DEF Kinds, Steps
    <2> QED  BY <2>1, <2>2, <2>3, StartTypes
<1> QED  BY <1>1, <1>2

\* The rows a step of a request writes.
RowsTyped ==
    /\ parts' \in SUBSET Part /\ current' \in [User -> Part \cup {NoPart}]
    /\ banned' \in SUBSET User /\ disqualified' \in SUBSET Part
    /\ userCount' \in Nat /\ settings' \in Nat /\ crowded' \in BOOLEAN
    /\ subs' \in [Submission -> Row \cup {NoSub}]

LEMMA RowsUntouched == TypeInv /\ UNCHANGED <<contestRows, crowded>> => RowsTyped
BY DEF TypeInv, ContestTypeOK, contestRows, RowsTyped

LEMMA StepTypes ==
    ASSUME TypeInv, NEW r \in Request, NEW q,
           q = Idle \/ (q \in Held /\ RequestOK(q)),
           req' = [req EXCEPT ![r] = q], RowsTyped, Rest
    PROVE  TypeInv'
<1>1. UNCHANGED dq
    BY DEF Rest
<1>2. req' \in [Request -> Held \cup {Idle}] /\ Shape'
    BY <1>1, RequestChanges
<1>3. ContestTypeOK'
    BY <1>2 DEF Rest, RowsTyped, TypeInv, ContestTypeOK
<1> QED  BY <1>2, <1>3 DEF TypeInv

\* A request that is at a step holds rows.
LEMMA BusyIsHeld ==
    ASSUME TypeInv, NEW r \in Request, req[r].at # "idle"
    PROVE  /\ req[r] \in Held /\ RequestOK(req[r]) /\ req[r].user \in User
           /\ req[r].part \in Part \cup {NoPart} /\ req[r].cur \in Part \cup {NoPart}
           /\ req[r].kind \in Kinds /\ req[r].edit \in Nat /\ req[r].seen \in Nat
           /\ req[r].ended \in BOOLEAN /\ req[r].sub \in Submission \cup {NoSub}
<1>1. req[r] \in Held /\ RequestOK(req[r])
    BY DEF TypeInv, ContestTypeOK, Shape, Busy, Idle
<1> QED  BY <1>1 DEF Held

\* Moving on to a step that says nothing new of the rows held.
LEMMA GoOn ==
    ASSUME NEW q \in Held, RequestOK(q), NEW n \in Steps \ {"idle"},
           n \in Inside => q.kind = "join",
           n \notin {"lookup", "remove", "expire"},
           n \in {"create", "enter", "saveScore"} => q.part \in Part /\ UserOf(q.part) = q.user
    PROVE  [q EXCEPT !.at = n] \in Held /\ RequestOK([q EXCEPT !.at = n])
BY DEF Held, RequestOK

LEMMA ProfileStepTypes ==
    ASSUME TypeInv, NEW r \in Request, Expire(r) \/ SaveProfile(r) \/ SaveScore(r) \/ Remove(r)
    PROVE  TypeInv'
<1>0. /\ req[r].at # "idle" /\ req \in [Request -> Held \cup {Idle}]
      /\ current \in [User -> Part \cup {NoPart}] /\ disqualified \in SUBSET Part
    BY DEF Expire, SaveProfile, SaveScore, Remove, At, TypeInv, ContestTypeOK
<1>1. /\ req[r] \in Held /\ RequestOK(req[r]) /\ req[r].user \in User
      /\ req[r].part \in Part \cup {NoPart} /\ req[r].cur \in Part \cup {NoPart}
      /\ req[r].kind \in Kinds
    BY <1>0, BusyIsHeld
<1>2. ASSUME NEW next \in {"idle", "lookup", "limit", "saveProfile", "saveScore", "admit"},
             next = "admit" => req[r].kind = "join",
             next # "saveScore", next = "lookup" => req[r].kind \in {"join", "leave"},
             RemoveContest(r, next)
      PROVE  TypeInv'
    <2> DEFINE q == IF next = "idle" THEN Idle ELSE [req[r] EXCEPT !.cur = NoPart, !.at = next]
    <2>1. q = Idle \/ (q \in Held /\ RequestOK(q))
        BY <1>1, <1>2 DEF Held, RequestOK, Inside, Steps
    <2>2. req' = [req EXCEPT ![r] = q] /\ Rest
        BY <1>0, <1>2 DEF RemoveContest
    <2>3. RowsTyped
        BY <1>1, <1>2 DEF RemoveContest, SetCurrent, RowsTyped, TypeInv, ContestTypeOK
    <2> HIDE DEF q
    <2> QED  BY <2>1, <2>2, <2>3, StepTypes
<1>3. CASE Expire(r)
    <2>1. RemoveContest(r, First(req[r].kind)) /\ At(r, "expire")
        BY <1>3 DEF Expire
    <2>2. /\ First(req[r].kind) \in {"lookup", "limit", "saveProfile"}
          /\ First(req[r].kind) = "lookup" => req[r].kind \in {"join", "leave"}
        BY <1>1, <2>1 DEF First, Kinds, RequestOK, At
    <2> QED  BY <2>1, <2>2, <1>2
<1>4. CASE Remove(r)
    <2>1. RemoveContest(r, IF req[r].kind = "leave" THEN "idle" ELSE "admit") /\ At(r, "remove")
        BY <1>4 DEF Remove
    <2>2. req[r].kind \in {"join", "leave"}
        BY <1>1, <2>1 DEF RequestOK, At
    <2>3. CASE req[r].kind = "leave"
        BY <2>1, <2>3, <1>2
    <2>4. CASE req[r].kind = "join"
        BY <2>1, <2>4, <1>2
    <2> QED  BY <2>2, <2>3, <2>4
<1>5. CASE SaveProfile(r)
    <2>1. RowsTyped
        BY <1>1, <1>5 DEF SaveProfile, SetCurrent, RowsTyped, TypeInv, ContestTypeOK
    <2> QED  BY <1>5, <2>1, StepTypes DEF SaveProfile, Finish
<1>6. CASE SaveScore(r)
    <2>1. req[r].part \in Part
        BY <1>1, <1>6 DEF SaveScore, At, RequestOK
    <2>2. disqualified' \in SUBSET Part
        BY <1>0, <1>6, <2>1 DEF SaveScore
    <2>3. RowsTyped
        BY <1>6, <2>2 DEF SaveScore, RowsTyped, TypeInv, ContestTypeOK
    <2> QED  BY <1>6, <2>3, StepTypes DEF SaveScore, Finish
<1> QED  BY <1>3, <1>4, <1>5, <1>6

LEMMA JoinStepTypes ==
    ASSUME TypeInv, NEW r \in Request,
           Lookup(r) \/ Admit(r) \/ Number(r) \/ Find(r) \/ Create(r) \/ Enter(r)
           \/ Count(r) \/ SaveContest(r)
    PROVE  TypeInv'
<1>0. /\ req[r].at # "idle" /\ req \in [Request -> Held \cup {Idle}]
      /\ current \in [User -> Part \cup {NoPart}] /\ parts \in SUBSET Part
    BY DEF Lookup, Admit, Number, Find, Create, Enter, Count, SaveContest, At,
           TypeInv, ContestTypeOK
<1>1. /\ req[r] \in Held /\ RequestOK(req[r]) /\ req[r].user \in User
      /\ req[r].part \in Part \cup {NoPart} /\ req[r].cur \in Part \cup {NoPart}
      /\ req[r].kind \in Kinds /\ req[r].edit \in Nat /\ req[r].seen \in Nat
    BY <1>0, BusyIsHeld
<1>2. ASSUME NEW n \in {"number", "find", "count"} \cup Inside, Goto(r, n), Rest, RowsTyped,
             req[r].kind = "join",
             n \in {"create", "enter"} => req[r].part \in Part /\ UserOf(req[r].part) = req[r].user
      PROVE  TypeInv'
    <2> DEFINE q == [req[r] EXCEPT !.at = n]
    <2>1. q \in Held /\ RequestOK(q)
        BY <1>1, <1>2, GoOn DEF Inside, Steps
    <2>2. req' = [req EXCEPT ![r] = q]
        BY <1>0, <1>2 DEF Goto
    <2> HIDE DEF q
    <2> QED  BY <1>2, <2>1, <2>2, StepTypes
<1>3. ASSUME Finish(r), Rest, RowsTyped
      PROVE  TypeInv'
    BY <1>3, StepTypes DEF Finish
<1>4. ASSUME NEW n \in {"create", "enter"}, NEW p \in Part, UserOf(p) = req[r].user,
             req[r].kind = "join",
             req' = [req EXCEPT ![r].at = n, ![r].part = p], Rest, RowsTyped
      PROVE  TypeInv'
    <2> DEFINE q == [req[r] EXCEPT !.at = n, !.part = p]
    <2>1. q \in Held /\ RequestOK(q)
        BY <1>1, <1>4 DEF Held, RequestOK, Steps, Inside
    <2>2. req' = [req EXCEPT ![r] = q]
        BY <1>0, <1>4
    <2> HIDE DEF q
    <2> QED  BY <1>4, <2>1, <2>2, StepTypes
<1>5. CASE Lookup(r)
    <2> DEFINE q == [req[r] EXCEPT !.at = IF req[r].cur # NoPart THEN "remove" ELSE "admit",
                                   !.ended = phase = "ended", !.edit = settings]
               allowed == IF req[r].kind = "join"
                          THEN phase # "before" \/ req[r].user \in scenario.editors
                          ELSE req[r].cur # NoPart
    <2>1. req[r].kind \in {"join", "leave"} /\ settings \in Nat
        BY <1>1, <1>5 DEF Lookup, At, RequestOK, TypeInv, ContestTypeOK
    <2>2. RowsTyped /\ Rest
        BY <1>5 DEF Lookup, RowsTyped, TypeInv, ContestTypeOK, contestRows
    <2>3. CASE allowed
        <3> DEFINE n == IF req[r].cur # NoPart THEN "remove" ELSE "admit"
                   b == phase = "ended"
        <3>1. q \in Held
            <4>1. n \in Steps \ {"idle"} /\ b \in BOOLEAN
                BY DEF Steps
            <4> HIDE DEF n, b
            <4>2. [req[r] EXCEPT !.at = n, !.ended = b, !.edit = settings] \in Held
                BY <1>1, <2>1, <4>1, HeldMoves
            <4> QED  BY <4>2 DEF n, b
        <3>2. q.at = n /\ q.kind = req[r].kind
            BY <1>1 DEF Held
        <3>3. RequestOK(q)
            BY <1>1, <2>1, <2>3, <3>2 DEF RequestOK, Inside
        <3>4. req' = [req EXCEPT ![r] = q]
            BY <1>5, <2>3 DEF Lookup
        <3> HIDE DEF q
        <3> QED  BY <2>2, <3>1, <3>3, <3>4, StepTypes
    <2>4. CASE ~allowed
        <3>1. req' = [req EXCEPT ![r] = Idle]
            BY <1>5, <2>4 DEF Lookup
        <3> QED  BY <2>2, <3>1, StepTypes
    <2> QED  BY <2>3, <2>4
<1>6. CASE Admit(r)
    <2>1. RowsTyped /\ Rest /\ req[r].kind = "join"
        BY <1>1, <1>6, RowsUntouched DEF Admit, At, RequestOK, Inside
    <2>2. Finish(r) \/ Goto(r, "number") \/ Goto(r, "find")
        BY <1>6 DEF Admit
    <2> QED  BY <2>1, <2>2, <1>2, <1>3
<1>7. CASE Number(r)
    <2>1. RowsTyped /\ Rest /\ req[r].kind = "join"
        BY <1>1, <1>7, RowsUntouched DEF Number, At, RequestOK, Inside
    <2> DEFINE p == <<req[r].user, NextVirtual(req[r].user)>>
    <2>2. NextVirtual(req[r].user) \in 1 .. MaxVirtual
        <3>1. NextVirtual(req[r].user) \in 1 .. MaxVirtual + 1
            BY <1>0, <1>1, NextVirtualProperties
        <3>2. NextVirtual(req[r].user) <= MaxVirtual
            BY <1>7 DEF Number
        <3> QED  BY <3>1, <3>2, ContestAssumption
    <2>3. p \in Part /\ UserOf(p) = req[r].user
        BY <1>1, <2>2, ContestAssumption DEF Part, UserOf, SPECTATE
    <2>4. req' = [req EXCEPT ![r].at = "create", ![r].part = p]
        BY <1>7 DEF Number
    <2> HIDE DEF p
    <2> QED  BY <2>1, <2>3, <2>4, <1>4
<1>8. CASE Find(r)
    <2> DEFINE u == req[r].user
               p == <<u, IF u \in scenario.editors THEN SPECTATE ELSE LIVE>>
               s == <<u, SPECTATE>>
    <2>1. p \in Part /\ s \in Part /\ UserOf(p) = req[r].user /\ UserOf(s) = req[r].user
        BY <1>1, ContestAssumption DEF Part, UserOf, SPECTATE, LIVE
    <2>2. /\ parts' = parts \/ parts' = parts \cup {s}
          /\ \/ req' = [req EXCEPT ![r].at = "create", ![r].part = p]
             \/ req' = [req EXCEPT ![r].at = "enter", ![r].part = p]
             \/ req' = [req EXCEPT ![r].at = "enter", ![r].part = s]
        BY <1>8 DEF Find
    <2> HIDE DEF p, s
    <2>3. RowsTyped /\ Rest /\ req[r].kind = "join"
        BY <1>1, <1>8, <2>1, <2>2
           DEF Find, At, RequestOK, Inside, RowsTyped, TypeInv, ContestTypeOK
    <2> QED  BY <2>1, <2>2, <2>3, <1>4
<1>9. CASE Create(r)
    <2>1. /\ req[r].kind = "join" /\ req[r].part \in Part
          /\ UserOf(req[r].part) = req[r].user
        BY <1>1, <1>9 DEF Create, At, RequestOK, Inside
    <2>2. parts' \in SUBSET Part
        BY <1>0, <1>9, <2>1 DEF Create
    <2>3. RowsTyped /\ Rest
        BY <1>9, <2>2 DEF Create, RowsTyped, TypeInv, ContestTypeOK
    <2>4. Goto(r, "enter") \/ Goto(r, "number") \/ Finish(r)
        BY <1>9 DEF Create
    <2> QED  BY <2>1, <2>3, <2>4, <1>2, <1>3 DEF Inside
<1>10. CASE Enter(r)
    <2>1. /\ req[r].kind = "join" /\ req[r].part \in Part
        BY <1>1, <1>10 DEF Enter, At, RequestOK, Inside
    <2>2. RowsTyped /\ Rest /\ Goto(r, "count")
        BY <1>1, <1>10, <2>1 DEF Enter, SetCurrent, RowsTyped, TypeInv, ContestTypeOK
    <2> QED  BY <2>1, <2>2, <1>2
<1>11. CASE Count(r)
    <2> DEFINE n == Cardinality(LiveRows)
               q == [req[r] EXCEPT !.at = "saveContest", !.seen = n]
    <2>1. n \in Nat
        BY <1>0, PartsAreCounted DEF LiveRows
    <2>2. RowsTyped /\ Rest /\ req[r].kind = "join"
        BY <1>1, <1>11, RowsUntouched DEF Count, At, RequestOK, Inside
    <2>3. req' = [req EXCEPT ![r] = q]
        BY <1>0, <1>11 DEF Count
    <2> HIDE DEF n
    <2>4. q \in Held /\ RequestOK(q)
        BY <1>1, <2>1, <2>2 DEF Held, RequestOK, Steps, Inside
    <2> HIDE DEF q
    <2> QED  BY <2>2, <2>3, <2>4, StepTypes
<1>12. CASE SaveContest(r)
    <2>1. RowsTyped /\ Rest /\ Finish(r)
        BY <1>1, <1>12 DEF SaveContest, RowsTyped, TypeInv, ContestTypeOK
    <2> QED  BY <2>1, <1>3
<1> QED  BY <1>5, <1>6, <1>7, <1>8, <1>9, <1>10, <1>11, <1>12

\* The row of a submission after it has been sent.
LEMMA SentRow ==
    ASSUME TypeInv, NEW s \in Submission, subs[s] \in Row, NEW b \in BOOLEAN,
           JudgeSubmission(s, b)
    PROVE  /\ subs' \in [Submission -> Row \cup {NoSub}] /\ subs'[s] \in Row
           /\ \A t \in Submission \ {s} : subs'[t] = subs[t]
           /\ subs'[s].part = subs[s].part /\ subs'[s].user = subs[s].user
           /\ \/ subs'[s] = subs[s] /\ subs[s].status = "judging"
              \/ subs'[s].status = "queued" /\ subs'[s].rejudged = b
<1>0. subs \in [Submission -> Row \cup {NoSub}]
    BY DEF TypeInv, ContestTypeOK
<1> DEFINE q == [subs[s] EXCEPT !.status = "queued", !.rejudged = b, !.sent = TRUE]
<1>1. /\ q \in Row /\ q.status = "queued" /\ q.rejudged = b
      /\ q.part = subs[s].part /\ q.user = subs[s].user
    BY DEF Row
<1>2. CASE subs[s].status = "judging"
    BY <1>0, <1>2 DEF JudgeSubmission
<1>3. CASE subs[s].status # "judging"
    <2>1. subs' = [subs EXCEPT ![s] = q]
        BY <1>0, <1>3 DEF JudgeSubmission
    <2> HIDE DEF q
    <2> QED  BY <1>0, <1>1, <2>1
<1> QED  BY <1>2, <1>3

LEMMA SubmitStepTypes ==
    ASSUME TypeInv, SentInv, NEW r \in Request, Limit(r) \/ Check(r) \/ Insert(r) \/ Judge(r)
    PROVE  TypeInv'
<1>0. req[r].at # "idle" /\ req \in [Request -> Held \cup {Idle}]
    BY DEF Limit, Check, Insert, Judge, At, TypeInv, ContestTypeOK
<1>1. /\ req[r] \in Held /\ RequestOK(req[r]) /\ req[r].user \in User
      /\ req[r].cur \in Part \cup {NoPart}
    BY <1>0, BusyIsHeld
<1>2. RowsTyped /\ Rest
    <2>1. CASE Limit(r) \/ Check(r)
        BY <2>1, RowsUntouched DEF Limit, Check
    <2>2. CASE Insert(r)
        <3> DEFINE row == [user |-> req[r].user, part |-> req[r].cur, status |-> "queued",
                           rejudged |-> FALSE, sent |-> FALSE]
        <3>1. row \in Row
            BY <1>1 DEF Row
        <3>2. PICK s \in Submission : subs' = [subs EXCEPT ![s] = row]
            BY <2>2 DEF Insert
        <3> HIDE DEF row
        <3>3. subs' \in [Submission -> Row \cup {NoSub}]
            BY <3>1, <3>2 DEF TypeInv, ContestTypeOK
        <3> QED  BY <2>2, <3>3 DEF Insert, RowsTyped, TypeInv, ContestTypeOK
    <2>3. CASE Judge(r)
        <3>1. subs' \in [Submission -> Row \cup {NoSub}]
            BY <2>3, SentRow DEF Judge, At, SentInv
        <3> QED  BY <2>3, <3>1 DEF Judge, RowsTyped, TypeInv, ContestTypeOK
    <2> QED  BY <2>1, <2>2, <2>3
<1>3. CASE Finish(r)
    BY <1>2, <1>3, StepTypes DEF Finish
<1>4. ASSUME NEW n \in {"check", "insert"}, Goto(r, n)
      PROVE  TypeInv'
    <2> DEFINE q == [req[r] EXCEPT !.at = n]
    <2>1. q \in Held /\ RequestOK(q)
        BY <1>1, GoOn DEF Inside, Steps
    <2>2. req' = [req EXCEPT ![r] = q]
        BY <1>0, <1>4 DEF Goto
    <2> HIDE DEF q
    <2> QED  BY <1>2, <2>1, <2>2, StepTypes
<1>5. CASE Insert(r)
    <2>1. PICK s \in Submission : req' = [req EXCEPT ![r].at = "judge", ![r].sub = s]
        BY <1>5 DEF Insert
    <2> DEFINE q == [req[r] EXCEPT !.at = "judge", !.sub = s]
    <2>2. q \in Held /\ RequestOK(q)
        BY <1>1 DEF Held, RequestOK, Inside, Steps
    <2>3. req' = [req EXCEPT ![r] = q]
        BY <1>0, <2>1
    <2> HIDE DEF q
    <2> QED  BY <1>2, <2>2, <2>3, StepTypes
<1>6. Finish(r) \/ Goto(r, "check") \/ Goto(r, "insert") \/ Insert(r)
    BY DEF Limit, Check, Judge
<1> QED  BY <1>3, <1>4, <1>5, <1>6

LEMMA OtherStepTypes ==
    ASSUME TypeInv, (\E s \in Submission : StatusWritten(s)) \/ AdminStep \/ TimePasses
                    \/ UNCHANGED contestVars
    PROVE  TypeInv'
<1>0. /\ Shape /\ ContestTypeOK
      /\ \A p \in Part : UserOf(p) \in User
    BY DEF TypeInv, Part, UserOf
<1>1. CASE UNCHANGED req /\ (UNCHANGED dq \/ dq' \in [at : {"none", "kick", "ban", "unban"}, part : Part])
           /\ ContestTypeOK'
    BY <1>0, <1>1 DEF Shape, Busy, RequestOK, TypeInv
<1>2. ASSUME NEW s \in Submission, StatusWritten(s) \/ Rejudge(s)
      PROVE  TypeInv'
    <2>1. subs[s] \in Row
        BY <1>0, <1>2 DEF StatusWritten, Rejudge, ContestTypeOK
    <2>2. subs' \in [Submission -> Row \cup {NoSub}]
        <3>1. CASE StatusWritten(s)
            <4>1. PICK status \in {"judging", "done", "IE"}, rejudged \in BOOLEAN :
                      subs' = [subs EXCEPT ![s].status = status, ![s].rejudged = rejudged]
                BY <3>1 DEF StatusWritten
            <4>2. [subs[s] EXCEPT !.status = status, !.rejudged = rejudged] \in Row
                BY <2>1 DEF Row
            <4> QED  BY <1>0, <4>1, <4>2 DEF ContestTypeOK
        <3>2. CASE Rejudge(s)
            BY <1>0, <2>1, <3>2, SentRow DEF Rejudge, TypeInv
        <3> QED  BY <1>2, <3>1, <3>2
    <2>3. failed' \in SUBSET Submission /\ settled' \in SUBSET Submission
        BY <1>0, <1>2 DEF StatusWritten, Rejudge, ContestTypeOK
    <2>4. admin' \in Nat
        <3>1. admin \in Nat
            BY <1>0 DEF ContestTypeOK
        <3>2. admin' = admin \/ admin' = admin + 1
            BY <1>2 DEF StatusWritten, Rejudge
        <3> QED  BY <3>1, <3>2
    <2>5. ContestTypeOK'
        BY <1>0, <1>2, <2>2, <2>3, <2>4 DEF StatusWritten, Rejudge, ContestTypeOK
    <2> QED  BY <1>1, <1>2, <2>5 DEF StatusWritten, Rejudge
<1>3. ASSUME NEW p \in parts, Disqualify(p)
      PROVE  TypeInv'
    <2>1. p \in Part /\ admin' \in Nat
        BY <1>0, <1>3 DEF Disqualify, ContestTypeOK
    <2>2. /\ raced' \in SUBSET User /\ disqualified' \in SUBSET Part
          /\ dq' \in [at : {"none", "kick", "ban", "unban"}, part : Part]
        BY <1>0, <1>3, <2>1 DEF Disqualify, ContestTypeOK
    <2>3. ContestTypeOK'
        BY <1>0, <1>3, <2>1, <2>2 DEF Disqualify, ContestTypeOK
    <2> QED  BY <1>1, <1>3, <2>2, <2>3 DEF Disqualify
<1>4. CASE Kick \/ Ban \/ Unban
    <2>1. dq.part \in Part /\ UserOf(dq.part) \in User
        BY <1>0, <1>4 DEF Kick, Ban, Unban, Shape
    <2>2. /\ dq' \in [at : {"none", "kick", "ban", "unban"}, part : Part \cup {NoPart}]
          /\ dq'.at # "none" => dq'.part \in Part
        BY <1>0, <1>4, <2>1 DEF Kick, Ban, Unban, ContestTypeOK
    <2>3. ContestTypeOK'
        BY <1>0, <1>4, <2>1, <2>2 DEF Kick, Ban, Unban, ContestTypeOK, history
    <2>4. Shape'
        BY <1>0, <1>4, <2>2 DEF Kick, Ban, Unban, Shape, Busy, RequestOK
    <2> QED  BY <2>3, <2>4 DEF TypeInv
<1>5. CASE EditContest
    <2>1. ContestTypeOK'
        BY <1>0, <1>5 DEF EditContest, ContestTypeOK
    <2> QED  BY <1>1, <1>5, <2>1 DEF EditContest
<1>6. CASE TimePasses
    <2>1. phase' \in {"before", "running", "ended"} /\ over' \in SUBSET Part
        BY <1>0, <1>6 DEF TimePasses, StartContest, EndContest, EndWindow, ContestTypeOK
    <2>2. ContestTypeOK'
        BY <1>0, <1>6, <2>1 DEF TimePasses, ContestTypeOK, contestRows, history
    <2> QED  BY <1>1, <1>6, <2>2 DEF TimePasses
<1>7. CASE UNCHANGED contestVars
    <2>1. ContestTypeOK'
        BY <1>0, <1>7 DEF contestVars, ContestTypeOK, contestRows, history
    <2> QED  BY <1>1, <1>7, <2>1 DEF contestVars
<1> QED  BY <1>2, <1>3, <1>4, <1>5, <1>6, <1>7 DEF AdminStep

\* Every step of the specification.
LEMMA NextCases ==
    ASSUME [ContestNext]_contestVars
    PROVE  \/ \E r \in Request :
                 \/ Begin(r) \/ BeginScore(r)
                 \/ Expire(r) \/ SaveProfile(r) \/ SaveScore(r) \/ Remove(r)
                 \/ Lookup(r) \/ Admit(r) \/ Number(r) \/ Find(r) \/ Create(r) \/ Enter(r)
                    \/ Count(r) \/ SaveContest(r)
                 \/ Limit(r) \/ Check(r) \/ Insert(r) \/ Judge(r)
           \/ (\E s \in Submission : StatusWritten(s)) \/ AdminStep \/ TimePasses
              \/ UNCHANGED contestVars
BY DEF ContestNext, RequestStep

LEMMA NextTypes == TypeInv /\ SentInv /\ [ContestNext]_contestVars => TypeInv'
<1> SUFFICES ASSUME TypeInv, SentInv, [ContestNext]_contestVars PROVE TypeInv'
    OBVIOUS
<1>1. ASSUME NEW r \in Request,
             \/ Begin(r) \/ BeginScore(r)
             \/ Expire(r) \/ SaveProfile(r) \/ SaveScore(r) \/ Remove(r)
             \/ Lookup(r) \/ Admit(r) \/ Number(r) \/ Find(r) \/ Create(r) \/ Enter(r)
                \/ Count(r) \/ SaveContest(r)
             \/ Limit(r) \/ Check(r) \/ Insert(r) \/ Judge(r)
      PROVE  TypeInv'
    BY <1>1, BeginTypes, ProfileStepTypes, JoinStepTypes, SubmitStepTypes
<1> QED  BY <1>1, NextCases, OtherStepTypes

-----------------------------------------------------------------------------
(* What each step of a request does, in a form the invariants can use.     *)

OthersWait(r) == \A o \in Request \ {r} : req'[o] = req[o]

LEMMA StartEffect ==
    ASSUME TypeInv, NEW r \in Request, Begin(r) \/ BeginScore(r)
    PROVE  /\ OthersWait(r) /\ req[r].at = "idle"
           /\ req'[r].at \in {"expire", "lookup", "limit", "saveProfile", "saveScore"}
           /\ req'[r].at # "saveScore" => req'[r].cur = current[req'[r].user]
           /\ req'[r].at = "saveScore" =>
                  /\ req'[r].part \in parts /\ UserOf(req'[r].part) = req'[r].user
                  /\ req'[r].cur = NoPart
                  /\ req'[r].flag <=> req'[r].part \in disqualified
           /\ dq.at # "none" /\ UserOf(dq.part) = req'[r].user => req'[r].user \in raced'
           /\ raced \subseteq raced'
           /\ UNCHANGED <<scenario, contestRows, dq, edits, banFor, crowded, failed, settled>>
<1>0. req \in [Request -> Held \cup {Idle}]
    BY DEF TypeInv, ContestTypeOK
<1>1. ASSUME NEW u \in User, NEW kind, NEW cur, NEW step, NEW p, Start(r, u, kind, cur, step, p)
      PROVE  /\ OthersWait(r) /\ req[r].at = "idle"
             /\ req'[r].at = step /\ req'[r].user = u /\ req'[r].cur = cur /\ req'[r].part = p
             /\ req'[r].flag <=> p \in disqualified
             /\ dq.at # "none" /\ UserOf(dq.part) = u => u \in raced'
             /\ raced \subseteq raced'
             /\ UNCHANGED <<scenario, contestRows, dq, edits, banFor, crowded, failed, settled>>
    <2>1. req[r].at = "idle"
        BY <1>1 DEF Start, Busy
    <2>2. req' = [req EXCEPT ![r] =
                 [at |-> step, kind |-> kind, user |-> u, cur |-> cur, ended |-> FALSE,
                  edit |-> 0, part |-> p, flag |-> p \in disqualified, seen |-> 0, sub |-> NoSub]]
        BY <1>1 DEF Start
    <2>3. OthersWait(r) /\ req'[r] = [at |-> step, kind |-> kind, user |-> u, cur |-> cur,
                  ended |-> FALSE, edit |-> 0, part |-> p, flag |-> p \in disqualified,
                  seen |-> 0, sub |-> NoSub]
        BY <1>0, <2>2 DEF OthersWait
    <2>4. req'[r].at = step /\ req'[r].user = u /\ req'[r].cur = cur /\ req'[r].part = p
        BY <2>3
    <2>5. req'[r].flag <=> p \in disqualified
        <3> DEFINE b == p \in disqualified
        <3>1. b \in BOOLEAN
            OBVIOUS
        <3>2. req'[r] = [at |-> step, kind |-> kind, user |-> u, cur |-> cur, ended |-> FALSE,
                         edit |-> 0, part |-> p, flag |-> b, seen |-> 0, sub |-> NoSub]
            BY <2>3, Zenon
        <3> HIDE DEF b
        <3>3. req'[r].flag = b
            BY <3>1, <3>2, SMT
        <3> QED  BY <3>3 DEF b
    <2>6. /\ dq.at # "none" /\ UserOf(dq.part) = u => u \in raced'
          /\ raced \subseteq raced'
        BY <1>1 DEF Start
    <2>7. UNCHANGED <<scenario, contestRows, dq, edits, banFor, crowded, failed, settled>>
        BY <1>1 DEF Start
    <2> QED  BY <2>1, <2>3, <2>4, <2>5, <2>6, <2>7
<1>2. CASE Begin(r)
    <2>1. PICK u \in User, kind \in scenario.kinds \ {"score"} :
              Start(r, u, kind, current[u],
                    IF current[u] # NoPart /\ Over(current[u]) THEN "expire" ELSE First(kind),
                    NoPart)
        BY <1>2 DEF Begin
    <2> DEFINE step == IF current[u] # NoPart /\ Over(current[u]) THEN "expire" ELSE First(kind)
    <2>2. kind \in Kinds \ {"score"}
        BY ContestAssumption DEF TypeInv, ContestTypeOK
    <2>3. step \in {"expire", "lookup", "limit", "saveProfile"}
        BY <2>2 DEF Kinds, First
    <2> HIDE DEF step
    <2>4. Start(r, u, kind, current[u], step, NoPart)
        BY <2>1 DEF step
    <2>5. /\ OthersWait(r) /\ req[r].at = "idle"
          /\ req'[r].at = step /\ req'[r].user = u /\ req'[r].cur = current[u]
          /\ dq.at # "none" /\ UserOf(dq.part) = u => u \in raced'
          /\ raced \subseteq raced'
          /\ UNCHANGED <<scenario, contestRows, dq, edits, banFor, crowded, failed, settled>>
        BY <2>4, <1>1
    <2> QED  BY <2>3, <2>5
<1>3. CASE BeginScore(r)
    <2>1. PICK p \in parts : Start(r, UserOf(p), "score", NoPart, "saveScore", p)
        BY <1>3 DEF BeginScore
    <2>2. UserOf(p) \in User
        BY DEF TypeInv, ContestTypeOK, Part, UserOf
    <2>3. /\ OthersWait(r) /\ req[r].at = "idle"
          /\ req'[r].at = "saveScore" /\ req'[r].user = UserOf(p) /\ req'[r].part = p
          /\ req'[r].cur = NoPart
          /\ req'[r].flag <=> p \in disqualified
          /\ dq.at # "none" /\ UserOf(dq.part) = UserOf(p) => UserOf(p) \in raced'
          /\ raced \subseteq raced'
          /\ UNCHANGED <<scenario, contestRows, dq, edits, banFor, crowded, failed, settled>>
        BY <2>1, <2>2, <1>1
    <2> QED  BY <2>3
<1> QED  BY <1>2, <1>3

\* The rows a request takes with it when it moves to another step.
Kept(r) == /\ req'[r].kind = req[r].kind /\ req'[r].user = req[r].user
           /\ req'[r].edit = req[r].edit

LEMMA RemoveEffect ==
    ASSUME TypeInv, NEW r \in Request, Expire(r) \/ Remove(r)
    PROVE  /\ OthersWait(r) /\ req[r].at \in {"expire", "remove"}
           /\ \/ req'[r] = Idle
              \/ /\ req'[r].at \in {"lookup", "limit", "saveProfile", "admit"}
                 /\ req'[r].cur = NoPart /\ Kept(r)
           /\ req'[r].at = "admit" => req[r].at = "remove"
           /\ req[r].at = "remove" /\ req[r].kind = "join" => req'[r].at = "admit"
           /\ current' = [current EXCEPT ![req[r].user] = NoPart]
           /\ UNCHANGED <<parts, banned, userCount, settings, disqualified, subs, crowded>>
           /\ Rest
<1>0. req \in [Request -> Held \cup {Idle}] /\ req[r] \in Held /\ RequestOK(req[r])
    BY BusyIsHeld DEF TypeInv, ContestTypeOK, Expire, Remove, At
<1>1. ASSUME NEW next, RemoveContest(r, next)
      PROVE  /\ OthersWait(r)
             /\ req'[r] = IF next = "idle" THEN Idle
                          ELSE [req[r] EXCEPT !.cur = NoPart, !.at = next]
             /\ current' = [current EXCEPT ![req[r].user] = NoPart]
             /\ UNCHANGED <<parts, banned, userCount, settings, disqualified, subs, crowded>>
             /\ Rest
    BY <1>0, <1>1 DEF RemoveContest, OthersWait, SetCurrent
<1>2. ASSUME NEW next, RemoveContest(r, next), next # "idle"
      PROVE  req'[r].at = next /\ req'[r].cur = NoPart /\ Kept(r)
    <2>1. req'[r] = [req[r] EXCEPT !.cur = NoPart, !.at = next]
        BY <1>1, <1>2
    <2> QED  BY <1>0, <2>1 DEF Held, Kept
<1>3. CASE Expire(r)
    <2>1. At(r, "expire") /\ RemoveContest(r, First(req[r].kind))
        BY <1>3 DEF Expire
    <2>2. First(req[r].kind) \in {"lookup", "limit", "saveProfile"}
        BY <1>0, <2>1 DEF First, Kinds, RequestOK, At, Held
    <2>3. req'[r].at = First(req[r].kind) /\ req'[r].cur = NoPart /\ Kept(r)
        BY <2>1, <2>2, <1>2
    <2> QED  BY <1>1, <2>1, <2>2, <2>3 DEF At
<1>4. CASE Remove(r)
    <2>1. At(r, "remove") /\ RemoveContest(r, IF req[r].kind = "leave" THEN "idle" ELSE "admit")
        BY <1>4 DEF Remove
    <2>2. CASE req[r].kind = "leave"
        <3>1. RemoveContest(r, "idle")
            BY <2>1, <2>2
        <3> QED  BY <1>1, <2>1, <2>2, <3>1 DEF At, Idle
    <2>3. CASE req[r].kind # "leave"
        <3>1. RemoveContest(r, "admit")
            BY <2>1, <2>3
        <3>2. req'[r].at = "admit" /\ req'[r].cur = NoPart /\ Kept(r)
            BY <3>1, <1>2
        <3> QED  BY <1>1, <2>1, <3>1, <3>2 DEF At
    <2> QED  BY <2>2, <2>3
<1> QED  BY <1>3, <1>4

\* The steps that only write a row and finish, and those of a join.
LEMMA SaveEffect ==
    ASSUME TypeInv, NEW r \in Request, SaveProfile(r) \/ SaveScore(r) \/ SaveContest(r) \/ Judge(r)
    PROVE  /\ OthersWait(r) /\ req'[r] = Idle
           /\ req[r].at \in {"saveProfile", "saveScore", "saveContest", "judge"}
           /\ req[r].at # "saveProfile" => UNCHANGED current
           /\ req[r].at = "saveProfile" => current' = [current EXCEPT ![req[r].user] = req[r].cur]
           /\ req[r].at # "saveScore" => UNCHANGED disqualified
           /\ req[r].at = "saveScore" =>
                disqualified' = IF req[r].flag THEN disqualified \cup {req[r].part}
                                ELSE disqualified \ {req[r].part}
           /\ req[r].at # "judge" => UNCHANGED subs
           /\ req[r].at # "saveContest" => UNCHANGED <<userCount, settings>>
           /\ req[r].at = "saveContest" => userCount' = req[r].seen /\ settings' = req[r].edit
           /\ UNCHANGED <<parts, banned, crowded>> /\ Rest
<1>0. req \in [Request -> Held \cup {Idle}]
    BY DEF TypeInv, ContestTypeOK
<1>1. CASE SaveProfile(r)
    BY <1>0, <1>1 DEF SaveProfile, At, Finish, OthersWait, SetCurrent
<1>2. CASE SaveScore(r)
    BY <1>0, <1>2 DEF SaveScore, At, Finish, OthersWait
<1>3. CASE Judge(r)
    BY <1>0, <1>3 DEF Judge, At, Finish, OthersWait
<1>4. CASE SaveContest(r)
    BY <1>0, <1>4 DEF SaveContest, At, Finish, OthersWait
<1> QED  BY <1>1, <1>2, <1>3, <1>4

LEMMA InsertEffect ==
    ASSUME TypeInv, NEW r \in Request, Insert(r)
    PROVE  /\ OthersWait(r) /\ req[r].at = "insert" /\ req'[r].at = "judge" /\ Kept(r)
           /\ req'[r].cur = req[r].cur
           /\ \E s \in Submission :
                 /\ req'[r].sub = s /\ subs'[s] \in Row
                 /\ subs'[s].user = req[r].user /\ subs'[s].part = req[r].cur
                 /\ subs'[s].status = "queued" /\ ~subs'[s].rejudged
                 /\ \A t \in Submission \ {s} : subs'[t] = subs[t]
           /\ UNCHANGED <<parts, current, banned, userCount, settings, disqualified, crowded>>
           /\ Rest
<1>0. /\ req \in [Request -> Held \cup {Idle}] /\ req[r] \in Held
      /\ req[r].user \in User /\ req[r].cur \in Part \cup {NoPart}
      /\ subs \in [Submission -> Row \cup {NoSub}]
    BY BusyIsHeld DEF TypeInv, ContestTypeOK, Insert, At
<1> DEFINE row == [user |-> req[r].user, part |-> req[r].cur, status |-> "queued",
                   rejudged |-> FALSE, sent |-> FALSE]
<1>1. PICK s \in Submission :
          /\ subs' = [subs EXCEPT ![s] = row]
          /\ req' = [req EXCEPT ![r].at = "judge", ![r].sub = s]
    BY DEF Insert
<1>2. /\ row \in Row /\ row.user = req[r].user /\ row.part = req[r].cur
      /\ row.status = "queued" /\ ~row.rejudged
    BY <1>0 DEF Row
<1> HIDE DEF row
<1>3. subs'[s] = row /\ \A t \in Submission \ {s} : subs'[t] = subs[t]
    BY <1>0, <1>1
<1>4. OthersWait(r) /\ req'[r] = [req[r] EXCEPT !.at = "judge", !.sub = s]
    BY <1>0, <1>1 DEF OthersWait
<1>5. req'[r].at = "judge" /\ req'[r].sub = s /\ Kept(r) /\ req'[r].cur = req[r].cur
    BY <1>0, <1>4 DEF Held, Kept
<1>6. /\ req[r].at = "insert" /\ Rest
      /\ UNCHANGED <<parts, current, banned, userCount, settings, disqualified, crowded>>
    BY DEF Insert, At
<1> QED  BY <1>2, <1>3, <1>4, <1>5, <1>6

LEMMA MoveEffect ==
    ASSUME TypeInv, NEW r \in Request,
           Admit(r) \/ Create(r) \/ Enter(r) \/ Limit(r) \/ Check(r)
    PROVE  /\ OthersWait(r)
           /\ req[r].at \in {"admit", "create", "enter", "limit", "check"}
           /\ \/ req'[r] = Idle
              \/ /\ Kept(r) /\ req'[r].cur = req[r].cur /\ req'[r].part = req[r].part
                 /\ req'[r].ended = req[r].ended
                 /\ req[r].at = "admit" => /\ req'[r].at \in {"number", "find"}
                                            /\ req[r].user \notin banned \ scenario.superusers
                 /\ req[r].at = "create" => req'[r].at \in {"number", "enter"}
                 /\ req[r].at = "enter" => req'[r].at = "count"
                 /\ req[r].at = "limit" =>
                        /\ req'[r].at = "check"
                        /\ req[r].user \notin MaySpam =>
                               ~ (Cardinality(Pending(req[r].user)) >= PendingLimit)
                 /\ req[r].at = "check" =>
                        /\ req'[r].at = "insert"
                        /\ req[r].cur # NoPart =>
                               ~ (Cardinality(Counted(req[r].cur)) >= MaxSubmissions)
           /\ req[r].at # "create" => UNCHANGED parts
           /\ req[r].at = "create" =>
                \/ parts' = parts \cup {req[r].part} /\ req'[r].at = "enter"
                \/ UNCHANGED parts /\ req'[r].at \in {"number", "idle"}
           /\ req[r].at # "enter" => UNCHANGED current
           /\ req[r].at = "enter" =>
                current' = [current EXCEPT ![req[r].user] = req[r].part] /\ req'[r].at = "count"
           /\ UNCHANGED <<banned, userCount, settings, disqualified, subs, crowded>> /\ Rest
<1>0. req \in [Request -> Held \cup {Idle}] /\ Idle.at = "idle"
    BY DEF TypeInv, ContestTypeOK, Idle
<1>1. req[r] \in Held
    BY BusyIsHeld DEF Admit, Create, Enter, Limit, Check, At
<1>2. ASSUME NEW n, Goto(r, n)
      PROVE  /\ OthersWait(r) /\ Kept(r) /\ req'[r].at = n /\ req'[r].cur = req[r].cur
             /\ req'[r].part = req[r].part /\ req'[r].ended = req[r].ended
    <2>1. req' = [req EXCEPT ![r] = [req[r] EXCEPT !.at = n]]
        BY <1>0, <1>2 DEF Goto
    <2>2. OthersWait(r) /\ req'[r] = [req[r] EXCEPT !.at = n]
        BY <1>0, <2>1 DEF OthersWait
    <2> QED  BY <1>1, <2>2 DEF Held, Kept
<1>3. ASSUME Finish(r)
      PROVE  OthersWait(r) /\ req'[r] = Idle /\ req'[r].at = "idle"
    BY <1>0, <1>3 DEF Finish, OthersWait
<1>4. CASE Admit(r)
    <2>1. /\ At(r, "admit") /\ UNCHANGED <<contestRows, crowded>> /\ Rest
          /\ \/ Finish(r)
             \/ req[r].user \notin banned \ scenario.superusers /\ Goto(r, "number")
             \/ req[r].user \notin banned \ scenario.superusers /\ Goto(r, "find")
        BY <1>4 DEF Admit
    <2> QED  BY <2>1, <1>2, <1>3 DEF At, contestRows
<1>5. CASE Create(r)
    <2>1. /\ At(r, "create") /\ Rest
          /\ UNCHANGED <<current, banned, userCount, settings, disqualified, subs, crowded>>
          /\ \/ Finish(r) /\ UNCHANGED parts
             \/ Goto(r, "enter") /\ parts' = parts \cup {req[r].part}
             \/ Goto(r, "number") /\ UNCHANGED parts
        BY <1>5 DEF Create
    <2> QED  BY <2>1, <1>2, <1>3 DEF At
<1>6. CASE Enter(r)
    <2>1. /\ At(r, "enter") /\ Rest /\ SetCurrent(r, req[r].part) /\ Goto(r, "count")
          /\ UNCHANGED <<parts, banned, userCount, settings, disqualified, subs, crowded>>
        BY <1>6 DEF Enter
    <2> QED  BY <2>1, <1>2 DEF At, SetCurrent
<1>7. CASE Limit(r)
    <2>1. /\ At(r, "limit") /\ UNCHANGED <<contestRows, crowded>> /\ Rest
          /\ \/ Finish(r)
             \/ /\ req[r].user \notin MaySpam =>
                       ~ (Cardinality(Pending(req[r].user)) >= PendingLimit)
                /\ Goto(r, "check")
        BY <1>7 DEF Limit
    <2> QED  BY <2>1, <1>2, <1>3 DEF At, contestRows
<1>8. CASE Check(r)
    <2>1. /\ At(r, "check") /\ UNCHANGED <<contestRows, crowded>> /\ Rest
          /\ \/ Finish(r)
             \/ /\ req[r].cur # NoPart => ~ (Cardinality(Counted(req[r].cur)) >= MaxSubmissions)
                /\ Goto(r, "insert")
        BY <1>8 DEF Check
    <2> QED  BY <2>1, <1>2, <1>3 DEF At, contestRows
<1> QED  BY <1>4, <1>5, <1>6, <1>7, <1>8

LEMMA LookupEffect ==
    ASSUME TypeInv, NEW r \in Request, Lookup(r)
    PROVE  /\ OthersWait(r) /\ req[r].at = "lookup"
           /\ \/ req'[r] = Idle
              \/ /\ req'[r].at \in {"remove", "admit"}
                 /\ req'[r].kind = req[r].kind /\ req'[r].user = req[r].user
                 /\ req'[r].cur = req[r].cur
                 /\ req'[r].edit = settings
           /\ crowded' = (crowded \/ (req[r].kind = "join" /\ \E o \in Request : Joining(o)))
           /\ UNCHANGED contestRows /\ Rest
<1>0. req \in [Request -> Held \cup {Idle}]
    BY DEF TypeInv, ContestTypeOK
<1>1. req[r] \in Held /\ At(r, "lookup")
    BY BusyIsHeld DEF Lookup, At
<1> DEFINE q == [req[r] EXCEPT !.at = IF req[r].cur # NoPart THEN "remove" ELSE "admit",
                               !.ended = phase = "ended", !.edit = settings]
<1>2. req' = [req EXCEPT ![r] = Idle] \/ req' = [req EXCEPT ![r] = q]
    BY DEF Lookup
<1>3. /\ q.at \in {"remove", "admit"} /\ q.kind = req[r].kind /\ q.user = req[r].user
      /\ q.cur = req[r].cur /\ q.edit = settings
    BY <1>1 DEF Held
<1> HIDE DEF q
<1>4. OthersWait(r) /\ (req'[r] = Idle \/ req'[r] = q)
    BY <1>0, <1>2 DEF OthersWait
<1>5. crowded' = (crowded \/ (req[r].kind = "join" /\ \E o \in Request : Joining(o)))
    BY DEF Lookup
<1>6. UNCHANGED contestRows /\ Rest
    BY DEF Lookup
<1> QED  BY <1>1, <1>3, <1>4, <1>5, <1>6 DEF At

LEMMA NumberEffect ==
    ASSUME TypeInv, NEW r \in Request, Number(r)
    PROVE  /\ OthersWait(r) /\ req[r].at = "number" /\ req'[r].at = "create" /\ Kept(r)
           /\ req'[r].cur = req[r].cur
           /\ req'[r].part = <<req[r].user, NextVirtual(req[r].user)>>
           /\ UNCHANGED <<contestRows, crowded>> /\ Rest
<1>0. req \in [Request -> Held \cup {Idle}] /\ req[r] \in Held
    BY BusyIsHeld DEF TypeInv, ContestTypeOK, Number, At
<1> DEFINE p == <<req[r].user, NextVirtual(req[r].user)>>
<1>1. req' = [req EXCEPT ![r] = [req[r] EXCEPT !.at = "create", !.part = p]]
    BY <1>0 DEF Number
<1> HIDE DEF p
<1>2. OthersWait(r) /\ req'[r] = [req[r] EXCEPT !.at = "create", !.part = p]
    BY <1>0, <1>1 DEF OthersWait
<1>3. req'[r].at = "create" /\ req'[r].part = p /\ Kept(r) /\ req'[r].cur = req[r].cur
    BY <1>0, <1>2 DEF Held, Kept
<1> QED  BY <1>2, <1>3 DEF p, Number, At

LEMMA FindEffect ==
    ASSUME TypeInv, NEW r \in Request, Find(r)
    PROVE  /\ OthersWait(r) /\ req[r].at = "find" /\ req'[r].at \in {"create", "enter"}
           /\ Kept(r) /\ req'[r].cur = req[r].cur
           /\ req'[r].part \in {<<req[r].user, SPECTATE>>, <<req[r].user, LIVE>>}
           /\ \/ parts' = parts
              \/ parts' = parts \cup {<<req[r].user, SPECTATE>>} /\ req'[r].at = "enter"
           /\ UNCHANGED <<current, banned, userCount, settings, disqualified, subs, crowded>>
           /\ Rest
<1>0. req \in [Request -> Held \cup {Idle}] /\ req[r] \in Held
    BY BusyIsHeld DEF TypeInv, ContestTypeOK, Find, At
<1> DEFINE s == <<req[r].user, SPECTATE>>
           l == <<req[r].user, LIVE>>
<1>1. PICK p \in {s, l}, n \in {"create", "enter"} :
          /\ req' = [req EXCEPT ![r].at = n, ![r].part = p]
          /\ parts' = parts \/ (parts' = parts \cup {s} /\ n = "enter")
    BY DEF Find
<1>2. req' = [req EXCEPT ![r] = [req[r] EXCEPT !.at = n, !.part = p]]
    BY <1>0, <1>1
<1> HIDE DEF s, l
<1>3. OthersWait(r) /\ req'[r] = [req[r] EXCEPT !.at = n, !.part = p]
    BY <1>0, <1>2 DEF OthersWait
<1>4. req'[r].at = n /\ req'[r].part = p /\ Kept(r) /\ req'[r].cur = req[r].cur
    BY <1>0, <1>3 DEF Held, Kept
<1> QED  BY <1>1, <1>3, <1>4 DEF s, l, Find, At

LEMMA CountEffect ==
    ASSUME TypeInv, NEW r \in Request, Count(r)
    PROVE  /\ OthersWait(r) /\ req[r].at = "count" /\ req'[r].at = "saveContest" /\ Kept(r)
           /\ req'[r].cur = req[r].cur
           /\ req'[r].seen = Cardinality(LiveRows)
           /\ UNCHANGED <<contestRows, crowded>> /\ Rest
<1>0. req \in [Request -> Held \cup {Idle}] /\ req[r] \in Held
    BY BusyIsHeld DEF TypeInv, ContestTypeOK, Count, At
<1> DEFINE n == Cardinality(LiveRows)
<1>1. req' = [req EXCEPT ![r] = [req[r] EXCEPT !.at = "saveContest", !.seen = n]]
    BY <1>0 DEF Count
<1> HIDE DEF n
<1>2. OthersWait(r) /\ req'[r] = [req[r] EXCEPT !.at = "saveContest", !.seen = n]
    BY <1>0, <1>1 DEF OthersWait
<1>3. req'[r].at = "saveContest" /\ req'[r].seen = n /\ Kept(r) /\ req'[r].cur = req[r].cur
    BY <1>0, <1>2 DEF Held, Kept
<1> QED  BY <1>2, <1>3 DEF n, Count, At

\* A row of a submission stays, and one that is written is the request's own.
RowsStay == \A s \in Submission : subs[s] \in Row => subs'[s] \in Row

LEMMA SentElsewhere ==
    ASSUME SentInv, NEW r \in Request, OthersWait(r), req'[r].at # "judge", RowsStay
    PROVE  SentInv'
BY DEF SentInv, OthersWait, RowsStay

LEMMA NextSent == TypeInv /\ SentInv /\ [ContestNext]_contestVars => SentInv'
<1> SUFFICES ASSUME TypeInv, SentInv, [ContestNext]_contestVars PROVE SentInv'
    OBVIOUS
<1>0. Idle.at = "idle"
    BY DEF Idle
<1>1. UNCHANGED subs => RowsStay
    BY DEF RowsStay
<1>2. ASSUME NEW r \in Request, Begin(r) \/ BeginScore(r) PROVE SentInv'
    <2>1. OthersWait(r) /\ req'[r].at # "judge" /\ UNCHANGED subs
        BY <1>2, StartEffect DEF contestRows
    <2> QED  BY <1>1, <2>1, SentElsewhere
<1>3. ASSUME NEW r \in Request, Expire(r) \/ Remove(r) PROVE SentInv'
    <2>1. OthersWait(r) /\ req'[r].at # "judge" /\ UNCHANGED subs
        BY <1>0, <1>3, RemoveEffect
    <2> QED  BY <1>1, <2>1, SentElsewhere
<1>4. ASSUME NEW r \in Request, SaveProfile(r) \/ SaveScore(r) \/ SaveContest(r) PROVE SentInv'
    <2>1. req[r].at # "judge"
        BY <1>4 DEF SaveProfile, SaveScore, SaveContest, At
    <2>2. OthersWait(r) /\ req'[r].at # "judge" /\ UNCHANGED subs
        BY <1>0, <1>4, <2>1, SaveEffect
    <2> QED  BY <1>1, <2>2, SentElsewhere
<1>5. ASSUME NEW r \in Request, Admit(r) \/ Create(r) \/ Enter(r) \/ Limit(r) \/ Check(r)
      PROVE  SentInv'
    <2>1. OthersWait(r) /\ req'[r].at # "judge" /\ UNCHANGED subs
        BY <1>0, <1>5, MoveEffect
    <2> QED  BY <1>1, <2>1, SentElsewhere
<1>6. ASSUME NEW r \in Request, Lookup(r) PROVE SentInv'
    <2>1. OthersWait(r) /\ req'[r].at # "judge" /\ UNCHANGED subs
        BY <1>0, <1>6, LookupEffect DEF contestRows
    <2> QED  BY <1>1, <2>1, SentElsewhere
<1>7. ASSUME NEW r \in Request, Number(r) \/ Find(r) \/ Count(r) PROVE SentInv'
    <2>1. OthersWait(r) /\ req'[r].at # "judge" /\ UNCHANGED subs
        BY <1>7, NumberEffect, FindEffect, CountEffect DEF contestRows
    <2> QED  BY <1>1, <2>1, SentElsewhere
<1>8. ASSUME NEW r \in Request, Insert(r) PROVE SentInv'
    <2>1. PICK s \in Submission :
              /\ OthersWait(r) /\ req'[r].sub = s /\ subs'[s] \in Row
              /\ \A t \in Submission \ {s} : subs'[t] = subs[t]
        BY <1>8, InsertEffect
    <2> QED  BY <2>1 DEF SentInv, OthersWait
<1>9. ASSUME NEW r \in Request, Judge(r) PROVE SentInv'
    <2>1. OthersWait(r) /\ req'[r].at # "judge"
        BY <1>0, <1>9, SaveEffect
    <2>2. RowsStay
        BY <1>9, SentRow DEF Judge, At, SentInv, RowsStay
    <2> QED  BY <2>1, <2>2, SentElsewhere
<1>10. ASSUME NEW s \in Submission, StatusWritten(s) \/ Rejudge(s) PROVE SentInv'
    <2>1. subs[s] \in Row /\ subs \in [Submission -> Row \cup {NoSub}] /\ UNCHANGED req
        BY <1>10 DEF StatusWritten, Rejudge, TypeInv, ContestTypeOK
    <2>2. RowsStay
        <3>1. CASE StatusWritten(s)
            <4>1. PICK status \in {"judging", "done", "IE"}, rejudged \in BOOLEAN :
                      subs' = [subs EXCEPT ![s].status = status, ![s].rejudged = rejudged]
                BY <3>1 DEF StatusWritten
            <4>2. [subs[s] EXCEPT !.status = status, !.rejudged = rejudged] \in Row
                BY <2>1 DEF Row
            <4> QED  BY <2>1, <4>1, <4>2 DEF RowsStay
        <3>2. CASE Rejudge(s)
            BY <2>1, <3>2, SentRow DEF Rejudge, RowsStay
        <3> QED  BY <1>10, <3>1, <3>2
    <2> QED  BY <2>1, <2>2 DEF SentInv, RowsStay
<1>11. ASSUME NEW p \in parts, Disqualify(p) PROVE SentInv'
    BY <1>11 DEF Disqualify, SentInv
<1>12. CASE Kick \/ Ban \/ Unban \/ EditContest \/ TimePasses \/ UNCHANGED contestVars
    <2>1. UNCHANGED <<subs, req>>
        BY <1>12 DEF Kick, Ban, Unban, EditContest, TimePasses, contestVars, contestRows
    <2> QED  BY <2>1 DEF SentInv
<1> QED  BY <1>2, <1>3, <1>4, <1>5, <1>6, <1>7, <1>8, <1>9, <1>10, <1>11, <1>12, NextCases
            DEF AdminStep

LEMMA TypesHold == ContestSpec => [](TypeInv /\ SentInv)
<1>1. ContestInit => SentInv
    BY DEF ContestInit, SentInv, Idle
<1> QED  BY <1>1, InitTypes, NextTypes, NextSent, PTL DEF ContestSpec

\* The types of everything a request, an admin or the database keeps.
THEOREM ContestTypeSafety == ContestSpec => []ContestTypeOK
<1>1. TypeInv => ContestTypeOK
    BY DEF TypeInv
<1> QED  BY <1>1, TypesHold, PTL

-----------------------------------------------------------------------------
(* Virtual participations.                                                 *)

\* A participation follows another of its user, or needs none before it.
Follows(p) == Virtual(p) > 1 => <<UserOf(p), Virtual(p) - 1>> \in parts

DenseInv ==
    /\ VirtualIdsDense
    /\ \A r \in Request : req[r].at = "create" => Follows(req[r].part)

LEMMA InitDense == ContestInit => DenseInv
BY DEF ContestInit, DenseInv, VirtualIdsDense, Virtual, LIVE, Idle

\* Rows are added one at a time, and none that does not follow another; a request that
\* comes to the point of creating one has looked.
LEMMA DenseGrows ==
    ASSUME DenseInv, NEW r \in Request, OthersWait(r), NEW n,
           Virtual(n) > 1 => <<UserOf(n), Virtual(n) - 1>> \in parts,
           parts' = parts \/ parts' = parts \cup {n},
           req'[r].at = "create" => req'[r].part = n
    PROVE  DenseInv'
<1>1. parts \subseteq parts'
    OBVIOUS
<1>2. VirtualIdsDense'
    BY <1>1 DEF DenseInv, VirtualIdsDense
<1>3. ASSUME NEW o \in Request, req'[o].at = "create"
      PROVE  Virtual(req'[o].part) > 1 =>
                 <<UserOf(req'[o].part), Virtual(req'[o].part) - 1>> \in parts'
    <2>1. CASE o = r
        BY <1>1, <1>3, <2>1
    <2>2. CASE o # r
        <3>1. req'[o] = req[o]
            BY <2>2 DEF OthersWait
        <3> QED  BY <1>1, <1>3, <3>1 DEF DenseInv, Follows
    <2> QED  BY <2>1, <2>2
<1> QED  BY <1>2, <1>3 DEF DenseInv, Follows

LEMMA DenseStays ==
    ASSUME DenseInv, NEW r \in Request, OthersWait(r), UNCHANGED parts, req'[r].at # "create"
    PROVE  DenseInv'
<1>1. VirtualIdsDense'
    BY DEF DenseInv, VirtualIdsDense
<1>2. ASSUME NEW o \in Request, req'[o].at = "create"
      PROVE  Virtual(req'[o].part) > 1 =>
                 <<UserOf(req'[o].part), Virtual(req'[o].part) - 1>> \in parts'
    BY <1>2 DEF DenseInv, Follows, OthersWait
<1> QED  BY <1>1, <1>2 DEF DenseInv, Follows

LEMMA NextDense == TypeInv /\ DenseInv /\ [ContestNext]_contestVars => DenseInv'
<1> SUFFICES ASSUME TypeInv, DenseInv, [ContestNext]_contestVars PROVE DenseInv'
    OBVIOUS
<1>0. parts \in SUBSET Part /\ Idle.at = "idle"
    BY DEF TypeInv, ContestTypeOK, Idle
<1>1. ASSUME NEW r \in Request, Begin(r) \/ BeginScore(r) PROVE DenseInv'
    BY <1>1, StartEffect, DenseStays DEF contestRows
<1>2. ASSUME NEW r \in Request, Expire(r) \/ Remove(r) PROVE DenseInv'
    BY <1>0, <1>2, RemoveEffect, DenseStays
<1>3. ASSUME NEW r \in Request,
             SaveProfile(r) \/ SaveScore(r) \/ SaveContest(r) \/ Judge(r) \/ Insert(r)
      PROVE  DenseInv'
    BY <1>0, <1>3, SaveEffect, InsertEffect, DenseStays
<1>4. ASSUME NEW r \in Request, Lookup(r) PROVE DenseInv'
    BY <1>0, <1>4, LookupEffect, DenseStays DEF contestRows
<1>5. ASSUME NEW r \in Request, Count(r) PROVE DenseInv'
    BY <1>5, CountEffect, DenseStays DEF contestRows
<1>6. ASSUME NEW r \in Request, Admit(r) \/ Create(r) \/ Enter(r) \/ Limit(r) \/ Check(r)
      PROVE  DenseInv'
    <2>1. /\ OthersWait(r) /\ req'[r].at # "create"
          /\ req[r].at # "create" => UNCHANGED parts
          /\ req[r].at = "create" => parts' = parts \/ parts' = parts \cup {req[r].part}
        BY <1>0, <1>6, MoveEffect
    <2>2. CASE req[r].at = "create"
        <3>1. Virtual(req[r].part) > 1 =>
                  <<UserOf(req[r].part), Virtual(req[r].part) - 1>> \in parts
            BY <2>2 DEF DenseInv, Follows
        <3> QED  BY <2>1, <2>2, <3>1, DenseGrows
    <2>3. CASE req[r].at # "create"
        BY <2>1, <2>3, DenseStays
    <2> QED  BY <2>2, <2>3
<1>7. ASSUME NEW r \in Request, Number(r) PROVE DenseInv'
    <2>1. req[r].user \in User
        BY <1>7, BusyIsHeld DEF Number, At
    <2>2. /\ OthersWait(r) /\ parts' = parts
          /\ req'[r].part = <<req[r].user, NextVirtual(req[r].user)>>
        BY <1>7, NumberEffect DEF contestRows
    <2>3. /\ NextVirtual(req[r].user) \in 1 .. MaxVirtual + 1
          /\ NextVirtual(req[r].user) = 1
             \/ <<req[r].user, NextVirtual(req[r].user) - 1>> \in parts
        BY <1>0, <2>1, NextVirtualProperties
    <2> DEFINE n == req'[r].part
    <2>4. Virtual(n) > 1 => <<UserOf(n), Virtual(n) - 1>> \in parts
        BY <2>2, <2>3, ContestAssumption DEF Virtual, UserOf
    <2> QED  BY <2>2, <2>4, DenseGrows
<1>8. ASSUME NEW r \in Request, Find(r) PROVE DenseInv'
    <2> DEFINE s == <<req[r].user, SPECTATE>>
               n == req'[r].part
    <2>1. /\ OthersWait(r) /\ n \in {s, <<req[r].user, LIVE>>}
          /\ parts' = parts \/ (parts' = parts \cup {s} /\ req'[r].at = "enter")
        BY <1>8, FindEffect
    <2>2. ~ (Virtual(n) > 1) /\ ~ (Virtual(s) > 1)
        BY <2>1 DEF Virtual, SPECTATE, LIVE
    <2> HIDE DEF s
    <2>3. CASE parts' = parts
        BY <2>1, <2>2, <2>3, DenseGrows
    <2>4. CASE parts' = parts \cup {s} /\ req'[r].at = "enter"
        BY <2>1, <2>2, <2>4, DenseGrows
    <2> QED  BY <2>1, <2>3, <2>4
<1>9. CASE (\E s \in Submission : StatusWritten(s)) \/ AdminStep \/ TimePasses \/ UNCHANGED contestVars
    <2>1. UNCHANGED <<parts, req>>
        BY <1>9 DEF StatusWritten, AdminStep, Disqualify, Kick, Ban, Unban, EditContest, Rejudge,
               TimePasses, contestVars, contestRows
    <2> QED  BY <2>1 DEF DenseInv, VirtualIdsDense, Follows
<1> QED  BY <1>1, <1>2, <1>3, <1>4, <1>5, <1>6, <1>7, <1>8, <1>9, NextCases

\* Virtual participations are numbered without a gap, however many requests read the
\* greatest number at once.
THEOREM VirtualIdsAreDense == ContestSpec => []VirtualIdsDense
<1>1. DenseInv => VirtualIdsDense
    BY DEF DenseInv
<1> QED  BY <1>1, InitDense, NextDense, TypesHold, PTL DEF ContestSpec

-----------------------------------------------------------------------------
(* Limits: a request that has passed a check and not inserted its row yet  *)
(* takes up room with the rows that are there.                             *)

Inserting(p) == {r \in Request : req[r].at = "insert" /\ req[r].cur = p}
Submitting(u) == {r \in Request : req[r].at \in {"check", "insert"} /\ req[r].user = u}

\* The rows that have counted ever since they were written.
Fresh(p) == Counted(p) \ failed
Waiting(u) == Pending(u) \ settled

Fits(rows, requests, limit) ==
    Cardinality(rows) + Cardinality(requests) <= limit + Cardinality(Request) - 1

\* A row with neither an internal error nor an end behind it is as it was sent.
FreshRow(s) ==
    /\ s \notin failed => subs[s].status # "IE"
    /\ s \notin settled => subs[s].status \in {"queued", "judging"} /\ ~subs[s].rejudged

RoomInv ==
    /\ \A p \in Part : Fits(Fresh(p), Inserting(p), MaxSubmissions)
    /\ \A u \in User \ MaySpam : Fits(Waiting(u), Submitting(u), PendingLimit)
    /\ \A s \in Submission : subs[s] # NoSub => FreshRow(s)

LEMMA SetsAreCounted ==
    /\ Cardinality(Request) \in Nat \ {0}
    /\ \A S \in SUBSET Request : /\ IsFiniteSet(S) /\ Cardinality(S) \in Nat
                                 /\ Cardinality(S) <= Cardinality(Request)
    /\ \A S \in SUBSET Submission : IsFiniteSet(S) /\ Cardinality(S) \in Nat
BY ContestAssumption, FS_Subset, FS_CardinalityType, FS_EmptySet

\* Fewer rows, and fewer requests.
LEMMA FitsLess ==
    ASSUME NEW rows \in SUBSET Submission, NEW requests \in SUBSET Request,
           NEW limit \in Nat, NEW fewer \in SUBSET rows,
           NEW some \in SUBSET requests, Fits(rows, requests, limit)
    PROVE  Fits(fewer, some, limit)
<1>1. Cardinality(fewer) <= Cardinality(rows) /\ Cardinality(some) <= Cardinality(requests)
    BY SetsAreCounted, FS_Subset
<1>2. /\ Cardinality(fewer) \in Nat /\ Cardinality(rows) \in Nat
      /\ Cardinality(some) \in Nat /\ Cardinality(requests) \in Nat
      /\ Cardinality(Request) \in Nat
    BY SetsAreCounted
<1> QED  BY <1>1, <1>2 DEF Fits

\* A check has found room, among more rows than are fresh: however many requests pass it
\* now, they are too few by one.
LEMMA FitsChecked ==
    ASSUME NEW rows \in SUBSET Submission, NEW requests \in SUBSET Request,
           NEW limit \in Nat, NEW fewer \in SUBSET rows, ~ (Cardinality(rows) >= limit)
    PROVE  Fits(fewer, requests, limit)
<1>1. Fits(rows, requests, limit)
    BY SetsAreCounted DEF Fits
<1> QED  BY <1>1, FitsLess

\* A request turns into a row.
LEMMA FitsInserted ==
    ASSUME NEW rows \in SUBSET Submission, NEW requests \in SUBSET Request,
           NEW limit \in Nat, NEW s \in Submission, NEW r \in requests,
           Fits(rows, requests, limit)
    PROVE  Fits(rows \cup {s}, requests \ {r}, limit)
<1>1. Cardinality(rows \cup {s}) <= Cardinality(rows) + 1
    BY SetsAreCounted, FS_AddElement
<1>2. Cardinality(requests \ {r}) = Cardinality(requests) - 1
    BY SetsAreCounted, FS_RemoveElement
<1>3. /\ Cardinality(rows) \in Nat /\ Cardinality(rows \cup {s}) \in Nat
      /\ Cardinality(requests) \in Nat /\ Cardinality(Request) \in Nat
    BY SetsAreCounted
<1> QED  BY <1>1, <1>2, <1>3 DEF Fits

LEMMA RoomTypes ==
    /\ \A p : /\ Counted(p) \in SUBSET Submission /\ Inserting(p) \in SUBSET Request
              /\ Fresh(p) \in SUBSET Counted(p) /\ Fresh(p) \in SUBSET Submission
    /\ \A u : /\ Pending(u) \in SUBSET Submission /\ Submitting(u) \in SUBSET Request
              /\ Waiting(u) \in SUBSET Pending(u) /\ Waiting(u) \in SUBSET Submission
    /\ MaxSubmissions \in Nat /\ PendingLimit \in Nat
BY ContestAssumption DEF Counted, Inserting, Pending, Submitting, Fresh, Waiting

LEMMA InitRoom == ContestInit => RoomInv
<1> SUFFICES ASSUME ContestInit PROVE RoomInv
    OBVIOUS
<1>1. \A p \in Part : Fresh(p) = {} /\ Inserting(p) = {}
    BY DEF ContestInit, Fresh, Counted, Inserting, Idle
<1>2. \A u \in User : Waiting(u) = {} /\ Submitting(u) = {}
    BY DEF ContestInit, Waiting, Pending, Submitting, Idle
<1>3. Cardinality({}) = 0 /\ Cardinality(Request) \in Nat \ {0}
    BY SetsAreCounted, FS_EmptySet
<1>4. Fits({}, {}, MaxSubmissions) /\ Fits({}, {}, PendingLimit)
    BY <1>3, ContestAssumption DEF Fits
<1>5. \A s \in Submission : subs[s] = NoSub
    BY DEF ContestInit
<1> QED  BY <1>1, <1>2, <1>4, <1>5 DEF RoomInv

\* No new row counts, and no request passes a check.
LEMMA RoomStays ==
    ASSUME RoomInv, UNCHANGED scenario,
           \A p \in Part : Fresh(p)' \subseteq Fresh(p) /\ Inserting(p)' \subseteq Inserting(p),
           \A u \in User : /\ Waiting(u)' \subseteq Waiting(u)
                           /\ Submitting(u)' \subseteq Submitting(u),
           \A s \in Submission : subs'[s] # NoSub => FreshRow(s)'
    PROVE  RoomInv'
<1>1. ASSUME NEW p \in Part
      PROVE  Fits(Fresh(p)', Inserting(p)', MaxSubmissions)
    <2>1. Fits(Fresh(p), Inserting(p), MaxSubmissions)
        BY DEF RoomInv
    <2> QED  BY <2>1, FitsLess, RoomTypes
<1>2. ASSUME NEW u \in User \ MaySpam
      PROVE  Fits(Waiting(u)', Submitting(u)', PendingLimit)
    <2>1. Fits(Waiting(u), Submitting(u), PendingLimit)
        BY DEF RoomInv
    <2> QED  BY <2>1, FitsLess, RoomTypes
<1>3. MaySpam' = MaySpam
    BY DEF MaySpam
<1> QED  BY <1>1, <1>2, <1>3 DEF RoomInv, Fits

LEMMA RowsFresh ==
    ASSUME RoomInv, UNCHANGED <<subs, failed, settled>>
    PROVE  /\ \A p \in Part : Fresh(p)' = Fresh(p)
           /\ \A u \in User : Waiting(u)' = Waiting(u)
           /\ \A s \in Submission : subs'[s] # NoSub => FreshRow(s)'
BY DEF RoomInv, FreshRow, Fresh, Waiting, Counted, Pending

\* A request is elsewhere after its step, and no row changes.
LEMMA RoomAway ==
    ASSUME RoomInv, NEW r \in Request, OthersWait(r),
           UNCHANGED <<subs, failed, settled, scenario>>,
           req'[r].at \notin {"check", "insert"}
    PROVE  RoomInv'
<1>1. /\ \A p \in Part : Inserting(p)' \subseteq Inserting(p)
      /\ \A u \in User : Submitting(u)' \subseteq Submitting(u)
    BY DEF Inserting, Submitting, OthersWait
<1> QED  BY <1>1, RowsFresh, RoomStays

LEMMA LimitRoom ==
    ASSUME TypeInv, RoomInv, NEW r \in Request, Limit(r), req'[r].at = "check"
    PROVE  RoomInv'
<1>1. /\ OthersWait(r) /\ UNCHANGED <<subs, failed, settled, scenario>> /\ req[r].at = "limit"
      /\ req'[r].user = req[r].user
      /\ req[r].user \notin MaySpam => ~ (Cardinality(Pending(req[r].user)) >= PendingLimit)
    <2>1. req[r].at = "limit" /\ req'[r] # Idle
        BY DEF Limit, At, Idle
    <2> QED  BY <2>1, MoveEffect DEF Kept, Rest
<1>2. /\ \A p \in Part : Fresh(p)' = Fresh(p)
      /\ \A u \in User : Waiting(u)' = Waiting(u)
      /\ \A s \in Submission : subs'[s] # NoSub => FreshRow(s)'
    BY <1>1, RowsFresh
<1>3. ASSUME NEW p \in Part
      PROVE  Fits(Fresh(p)', Inserting(p)', MaxSubmissions)
    <2>1. Fits(Fresh(p), Inserting(p), MaxSubmissions)
        BY DEF RoomInv
    <2>2. Inserting(p)' \subseteq Inserting(p)
        BY <1>1 DEF Inserting, OthersWait
    <2> QED  BY <1>2, <2>1, <2>2, FitsLess, RoomTypes
<1>4. ASSUME NEW u \in User \ MaySpam
      PROVE  Fits(Waiting(u)', Submitting(u)', PendingLimit)
    <2>1. Waiting(u)' = Waiting(u) /\ Submitting(u)' \in SUBSET Request
        BY <1>2 DEF Submitting
    <2>2. CASE u = req[r].user
        BY <1>1, <2>1, <2>2, FitsChecked, RoomTypes
    <2>3. CASE u # req[r].user
        <3>1. Submitting(u)' \subseteq Submitting(u)
            BY <1>1, <2>3 DEF Submitting, OthersWait
        <3>2. Fits(Waiting(u), Submitting(u), PendingLimit)
            BY DEF RoomInv
        <3> QED  BY <2>1, <3>1, <3>2, FitsLess, RoomTypes
    <2> QED  BY <2>2, <2>3
<1>5. MaySpam' = MaySpam
    BY <1>1 DEF MaySpam
<1> QED  BY <1>2, <1>3, <1>4, <1>5 DEF RoomInv, Fits

LEMMA CheckRoom ==
    ASSUME TypeInv, RoomInv, NEW r \in Request, Check(r), req'[r].at = "insert"
    PROVE  RoomInv'
<1>1. /\ OthersWait(r) /\ UNCHANGED <<subs, failed, settled, scenario>> /\ req[r].at = "check"
      /\ req'[r].user = req[r].user /\ req'[r].cur = req[r].cur
      /\ req[r].cur # NoPart => ~ (Cardinality(Counted(req[r].cur)) >= MaxSubmissions)
    <2>1. req[r].at = "check" /\ req'[r] # Idle
        BY DEF Check, At, Idle
    <2> QED  BY <2>1, MoveEffect DEF Kept, Rest
<1>2. /\ \A p \in Part : Fresh(p)' = Fresh(p)
      /\ \A u \in User : Waiting(u)' = Waiting(u)
      /\ \A s \in Submission : subs'[s] # NoSub => FreshRow(s)'
    BY <1>1, RowsFresh
<1>3. ASSUME NEW u \in User \ MaySpam
      PROVE  Fits(Waiting(u)', Submitting(u)', PendingLimit)
    <2>1. Fits(Waiting(u), Submitting(u), PendingLimit)
        BY DEF RoomInv
    <2>2. Submitting(u)' \subseteq Submitting(u)
        BY <1>1 DEF Submitting, OthersWait
    <2> QED  BY <1>2, <2>1, <2>2, FitsLess, RoomTypes
<1>4. ASSUME NEW p \in Part
      PROVE  Fits(Fresh(p)', Inserting(p)', MaxSubmissions)
    <2>1. Fresh(p)' = Fresh(p) /\ Inserting(p)' \in SUBSET Request
        BY <1>2 DEF Inserting
    <2>2. CASE p = req[r].cur
        BY <1>1, <2>1, <2>2, FitsChecked, RoomTypes, ContestAssumption
    <2>3. CASE p # req[r].cur
        <3>1. Inserting(p)' \subseteq Inserting(p)
            BY <1>1, <2>3 DEF Inserting, OthersWait
        <3>2. Fits(Fresh(p), Inserting(p), MaxSubmissions)
            BY DEF RoomInv
        <3> QED  BY <2>1, <3>1, <3>2, FitsLess, RoomTypes
    <2> QED  BY <2>2, <2>3
<1>5. MaySpam' = MaySpam
    BY <1>1 DEF MaySpam
<1> QED  BY <1>2, <1>3, <1>4, <1>5 DEF RoomInv, Fits

LEMMA InsertRoom ==
    ASSUME TypeInv, RoomInv, NEW r \in Request, Insert(r)
    PROVE  RoomInv'
<1>1. /\ OthersWait(r) /\ req[r].at = "insert" /\ req'[r].at = "judge"
      /\ UNCHANGED <<failed, settled, scenario>>
    BY InsertEffect DEF Rest
<1>2. PICK s \in Submission :
          /\ subs'[s].user = req[r].user /\ subs'[s].part = req[r].cur
          /\ subs'[s].status = "queued" /\ ~subs'[s].rejudged
          /\ \A t \in Submission \ {s} : subs'[t] = subs[t]
    BY InsertEffect
<1>3. ASSUME NEW p \in Part
      PROVE  Fits(Fresh(p)', Inserting(p)', MaxSubmissions)
    <2>1. Fits(Fresh(p), Inserting(p), MaxSubmissions)
        BY DEF RoomInv
    <2>2. CASE p = req[r].cur
        <3>1. /\ Fresh(p)' \subseteq Fresh(p) \cup {s}
              /\ Inserting(p)' \subseteq Inserting(p) \ {r} /\ r \in Inserting(p)
            BY <1>1, <1>2, <2>2 DEF Fresh, Counted, Inserting, OthersWait
        <3>2. Fits(Fresh(p) \cup {s}, Inserting(p) \ {r}, MaxSubmissions)
            BY <2>1, <3>1, FitsInserted, RoomTypes
        <3>3. Fresh(p) \cup {s} \in SUBSET Submission /\ Inserting(p) \ {r} \in SUBSET Request
            BY RoomTypes
        <3> QED  BY <3>1, <3>2, <3>3, FitsLess, RoomTypes
    <2>3. CASE p # req[r].cur
        <3>1. Fresh(p)' \subseteq Fresh(p) /\ Inserting(p)' \subseteq Inserting(p)
            BY <1>1, <1>2, <2>3 DEF Fresh, Counted, Inserting, OthersWait
        <3> QED  BY <2>1, <3>1, FitsLess, RoomTypes
    <2> QED  BY <2>2, <2>3
<1>4. ASSUME NEW u \in User \ MaySpam
      PROVE  Fits(Waiting(u)', Submitting(u)', PendingLimit)
    <2>1. Fits(Waiting(u), Submitting(u), PendingLimit)
        BY DEF RoomInv
    <2>2. CASE u = req[r].user
        <3>1. /\ Waiting(u)' \subseteq Waiting(u) \cup {s}
              /\ Submitting(u)' \subseteq Submitting(u) \ {r} /\ r \in Submitting(u)
            BY <1>1, <1>2, <2>2 DEF Waiting, Pending, Submitting, OthersWait
        <3>2. Fits(Waiting(u) \cup {s}, Submitting(u) \ {r}, PendingLimit)
            BY <2>1, <3>1, FitsInserted, RoomTypes
        <3>3. Waiting(u) \cup {s} \in SUBSET Submission /\ Submitting(u) \ {r} \in SUBSET Request
            BY RoomTypes
        <3> QED  BY <3>1, <3>2, <3>3, FitsLess, RoomTypes
    <2>3. CASE u # req[r].user
        <3>1. Waiting(u)' \subseteq Waiting(u) /\ Submitting(u)' \subseteq Submitting(u)
            BY <1>1, <1>2, <2>3 DEF Waiting, Pending, Submitting, OthersWait
        <3> QED  BY <2>1, <3>1, FitsLess, RoomTypes
    <2> QED  BY <2>2, <2>3
<1>5. \A t \in Submission : subs'[t] # NoSub => FreshRow(t)'
    BY <1>1, <1>2 DEF RoomInv, FreshRow
<1>6. MaySpam' = MaySpam
    BY <1>1 DEF MaySpam
<1> QED  BY <1>3, <1>4, <1>5, <1>6 DEF RoomInv, Fits

\* The row of a submission is written again.  It counts for no more than before, unless it
\* has had an internal error or an end.
LEMMA WrittenRoom ==
    ASSUME RoomInv, NEW s \in Submission, subs[s] # NoSub,
           \A t \in Submission \ {s} : subs'[t] = subs[t],
           subs'[s].part = subs[s].part, subs'[s].user = subs[s].user,
           FreshRow(s)', failed \subseteq failed', settled \subseteq settled',
           UNCHANGED scenario, NEW r \in Request, OthersWait(r),
           req'[r].at \notin {"check", "insert"} \/ UNCHANGED req
    PROVE  RoomInv'
<1>1. FreshRow(s)
    BY DEF RoomInv
<1>2. \A p \in Part : Fresh(p)' \subseteq Fresh(p)
    BY <1>1 DEF FreshRow, Fresh, Counted
<1>3. \A u \in User : Waiting(u)' \subseteq Waiting(u)
    BY <1>1 DEF FreshRow, Waiting, Pending
<1>4. /\ \A p \in Part : Inserting(p)' \subseteq Inserting(p)
      /\ \A u \in User : Submitting(u)' \subseteq Submitting(u)
    BY DEF Inserting, Submitting, OthersWait
<1>5. \A t \in Submission : subs'[t] # NoSub => FreshRow(t)'
    BY DEF RoomInv, FreshRow
<1> QED  BY <1>2, <1>3, <1>4, <1>5, RoomStays

\* A submission is sent, is judged or ends, or is sent again.
LEMMA StatusRoom ==
    ASSUME TypeInv, SentInv, RoomInv,
           \/ \E r \in Request : Judge(r)
           \/ \E s \in Submission : StatusWritten(s) \/ Rejudge(s)
    PROVE  RoomInv'
<1>0. subs \in [Submission -> Row \cup {NoSub}] /\ Request # {} /\ Idle.at = "idle"
    BY ContestAssumption DEF TypeInv, ContestTypeOK, Idle
<1>1. ASSUME NEW r \in Request, Judge(r) PROVE RoomInv'
    <2>1. PICK s \in Submission : /\ subs[s] \in Row /\ subs[s] # NoSub
                                  /\ JudgeSubmission(s, FALSE)
        BY <1>1, NoSubAssumption DEF Judge, At, SentInv
    <2>2. /\ OthersWait(r) /\ req'[r].at = "idle" /\ UNCHANGED <<scenario, failed, settled>>
        BY <1>0, <1>1, SaveEffect DEF Rest
    <2>3. /\ \A t \in Submission \ {s} : subs'[t] = subs[t]
          /\ subs'[s].part = subs[s].part /\ subs'[s].user = subs[s].user
          /\ \/ subs'[s] = subs[s]
             \/ subs'[s].status = "queued" /\ subs'[s].rejudged = FALSE
        BY <2>1, SentRow
    <2>4. FreshRow(s)'
        BY <2>1, <2>2, <2>3 DEF RoomInv, FreshRow
    <2> QED  BY <2>1, <2>2, <2>3, <2>4, WrittenRoom
<1>2. ASSUME NEW s \in Submission, StatusWritten(s) PROVE RoomInv'
    <2>1. /\ subs[s] \in Row /\ subs[s] # NoSub /\ UNCHANGED <<scenario, req>>
        BY <1>0, <1>2 DEF StatusWritten
    <2>2. PICK status \in {"judging", "done", "IE"}, rejudged \in BOOLEAN :
              /\ status # "done" => rejudged = subs[s].rejudged
              /\ subs' = [subs EXCEPT ![s].status = status, ![s].rejudged = rejudged]
              /\ failed' = IF status = "IE" THEN failed \cup {s} ELSE failed
              /\ settled' = IF status = "judging" THEN settled ELSE settled \cup {s}
        BY <1>2 DEF StatusWritten
    <2>3. /\ \A t \in Submission \ {s} : subs'[t] = subs[t]
          /\ subs'[s].part = subs[s].part /\ subs'[s].user = subs[s].user
          /\ subs'[s].status = status /\ subs'[s].rejudged = rejudged
        BY <1>0, <2>1, <2>2 DEF Row
    <2>4. FreshRow(s)
        BY <2>1 DEF RoomInv
    <2>5. FreshRow(s)' /\ failed \subseteq failed' /\ settled \subseteq settled'
        BY <2>2, <2>3, <2>4 DEF FreshRow
    <2>6. \A r \in Request : OthersWait(r)
        BY <2>1 DEF OthersWait
    <2> QED  BY <1>0, <2>1, <2>3, <2>5, <2>6, WrittenRoom
<1>3. ASSUME NEW s \in Submission, Rejudge(s) PROVE RoomInv'
    <2>1. /\ subs[s] \in Row /\ subs[s] # NoSub /\ UNCHANGED <<scenario, req, failed>>
          /\ subs[s].status # "judging" /\ JudgeSubmission(s, TRUE)
          /\ settled' = settled \cup {s}
        BY <1>0, <1>3 DEF Rejudge
    <2>2. /\ \A t \in Submission \ {s} : subs'[t] = subs[t]
          /\ subs'[s].part = subs[s].part /\ subs'[s].user = subs[s].user
          /\ subs'[s].status = "queued"
        BY <2>1, SentRow
    <2>3. FreshRow(s)' /\ failed \subseteq failed' /\ settled \subseteq settled'
        BY <2>1, <2>2 DEF FreshRow
    <2>4. \A r \in Request : OthersWait(r)
        BY <2>1 DEF OthersWait
    <2> QED  BY <1>0, <2>1, <2>2, <2>3, <2>4, WrittenRoom
<1> QED  BY <1>1, <1>2, <1>3

\* Steps that touch neither the rows nor the requests.
LEMMA RoomIdle ==
    ASSUME RoomInv, UNCHANGED <<subs, req, failed, settled, scenario>>
    PROVE  RoomInv'
<1>1. /\ \A p \in Part : Inserting(p)' \subseteq Inserting(p)
      /\ \A u \in User : Submitting(u)' \subseteq Submitting(u)
    BY DEF Inserting, Submitting
<1> QED  BY <1>1, RowsFresh, RoomStays

LEMMA NextRoom == TypeInv /\ SentInv /\ RoomInv /\ [ContestNext]_contestVars => RoomInv'
<1> SUFFICES ASSUME TypeInv, SentInv, RoomInv, [ContestNext]_contestVars PROVE RoomInv'
    OBVIOUS
<1>0. Idle.at = "idle"
    BY DEF Idle
<1>1. ASSUME NEW r \in Request, Begin(r) \/ BeginScore(r)
      PROVE  RoomInv'
    <2>1. /\ OthersWait(r) /\ UNCHANGED <<subs, failed, settled, scenario>>
          /\ req'[r].at \notin {"check", "insert"}
        BY <1>1, StartEffect DEF contestRows
    <2> QED  BY <2>1, RoomAway
<1>2. ASSUME NEW r \in Request, Expire(r) \/ Remove(r)
      PROVE  RoomInv'
    <2>1. /\ OthersWait(r) /\ UNCHANGED <<subs, failed, settled, scenario>>
          /\ req'[r].at \notin {"check", "insert"}
        BY <1>0, <1>2, RemoveEffect DEF Rest
    <2> QED  BY <2>1, RoomAway
<1>3. ASSUME NEW r \in Request, SaveProfile(r) \/ SaveScore(r) \/ SaveContest(r)
      PROVE  RoomInv'
    <2>1. req[r].at # "judge"
        BY <1>3 DEF SaveProfile, SaveScore, SaveContest, At
    <2>2. /\ OthersWait(r) /\ UNCHANGED <<subs, failed, settled, scenario>>
          /\ req'[r].at \notin {"check", "insert"}
        BY <1>0, <1>3, <2>1, SaveEffect DEF Rest
    <2> QED  BY <2>2, RoomAway
<1>4. ASSUME NEW r \in Request, Lookup(r)
      PROVE  RoomInv'
    <2>1. /\ OthersWait(r) /\ UNCHANGED <<subs, failed, settled, scenario>>
          /\ req'[r].at \notin {"check", "insert"}
        BY <1>0, <1>4, LookupEffect DEF Rest, contestRows
    <2> QED  BY <2>1, RoomAway
<1>5. ASSUME NEW r \in Request, Number(r) \/ Find(r) \/ Count(r)
      PROVE  RoomInv'
    <2>1. CASE Number(r)
        <3>1. /\ OthersWait(r) /\ UNCHANGED <<subs, failed, settled, scenario>>
              /\ req'[r].at \notin {"check", "insert"}
            BY <2>1, NumberEffect DEF Rest, contestRows
        <3> QED  BY <3>1, RoomAway
    <2>2. CASE Find(r)
        <3>1. /\ OthersWait(r) /\ UNCHANGED <<subs, failed, settled, scenario>>
              /\ req'[r].at \notin {"check", "insert"}
            BY <2>2, FindEffect DEF Rest
        <3> QED  BY <3>1, RoomAway
    <2>3. CASE Count(r)
        <3>1. /\ OthersWait(r) /\ UNCHANGED <<subs, failed, settled, scenario>>
              /\ req'[r].at \notin {"check", "insert"}
            BY <2>3, CountEffect DEF Rest, contestRows
        <3> QED  BY <3>1, RoomAway
    <2> QED  BY <1>5, <2>1, <2>2, <2>3
<1>6. ASSUME NEW r \in Request, Admit(r) \/ Create(r) \/ Enter(r)
      PROVE  RoomInv'
    <2>1. req[r].at \in {"admit", "create", "enter"}
        BY <1>6 DEF Admit, Create, Enter, At
    <2>2. /\ OthersWait(r) /\ UNCHANGED <<subs, failed, settled, scenario>>
          /\ req'[r].at \notin {"check", "insert"}
        BY <1>0, <1>6, <2>1, MoveEffect DEF Rest
    <2> QED  BY <2>2, RoomAway
<1>7. ASSUME NEW r \in Request, Limit(r)
      PROVE  RoomInv'
    <2>1. /\ OthersWait(r) /\ UNCHANGED <<subs, failed, settled, scenario>>
          /\ req'[r].at \in {"idle", "check"}
        <3>1. req[r].at = "limit"
            BY <1>7 DEF Limit, At
        <3> QED  BY <1>0, <1>7, <3>1, MoveEffect DEF Rest
    <2> QED  BY <1>7, <2>1, LimitRoom, RoomAway
<1>8. ASSUME NEW r \in Request, Check(r)
      PROVE  RoomInv'
    <2>1. /\ OthersWait(r) /\ UNCHANGED <<subs, failed, settled, scenario>>
          /\ req'[r].at \in {"idle", "insert"}
        <3>1. req[r].at = "check"
            BY <1>8 DEF Check, At
        <3> QED  BY <1>0, <1>8, <3>1, MoveEffect DEF Rest
    <2> QED  BY <1>8, <2>1, CheckRoom, RoomAway
<1>9. ASSUME NEW r \in Request, Insert(r)
      PROVE  RoomInv'
    BY <1>9, InsertRoom
<1>10. ASSUME \/ \E r \in Request : Judge(r)
              \/ \E s \in Submission : StatusWritten(s) \/ Rejudge(s)
       PROVE  RoomInv'
    BY <1>10, StatusRoom
<1>11. ASSUME NEW p \in parts, Disqualify(p)
       PROVE  RoomInv'
    BY <1>11, RoomIdle DEF Disqualify
<1>12. CASE Kick \/ Ban \/ Unban \/ EditContest
    BY <1>12, RoomIdle DEF Kick, Ban, Unban, EditContest, history
<1>13. CASE TimePasses
    BY <1>13, RoomIdle DEF TimePasses, contestRows, history
<1>14. CASE UNCHANGED contestVars
    BY <1>14, RoomIdle DEF contestVars, contestRows, history
<1> QED  BY <1>1, <1>2, <1>3, <1>4, <1>5, <1>6, <1>7, <1>8, <1>9, <1>10, <1>11, <1>12,
            <1>13, <1>14, NextCases DEF AdminStep

\* Side by side, requests exceed a limit by fewer than there are of them, for every number
\* of requests and users; only submissions that have had an internal error, or for the
\* pending limit an end or a rejudge, add to that, and a user with spam_submission has no
\* pending limit (problem_submit).
THEOREM LimitsAreKept == ContestSpec => []LimitsHold
<1>1. RoomInv => LimitsHold
    <2> SUFFICES ASSUME RoomInv PROVE LimitsHold
        OBVIOUS
    <2>1. ASSUME NEW p \in Part
          PROVE  Cardinality(Fresh(p)) <= MaxSubmissions + Cardinality(Request) - 1
        <3>1. Fits(Fresh(p), Inserting(p), MaxSubmissions)
            BY DEF RoomInv
        <3>2. /\ Cardinality(Fresh(p)) \in Nat /\ Cardinality(Inserting(p)) \in Nat
              /\ Cardinality(Request) \in Nat
            BY RoomTypes, SetsAreCounted
        <3> QED  BY <3>1, <3>2, RoomTypes DEF Fits
    <2>2. ASSUME NEW u \in User \ MaySpam
          PROVE  Cardinality(Waiting(u)) <= PendingLimit + Cardinality(Request) - 1
        <3>1. Fits(Waiting(u), Submitting(u), PendingLimit)
            BY DEF RoomInv
        <3>2. /\ Cardinality(Waiting(u)) \in Nat /\ Cardinality(Submitting(u)) \in Nat
              /\ Cardinality(Request) \in Nat
            BY RoomTypes, SetsAreCounted
        <3> QED  BY <3>1, <3>2, RoomTypes DEF Fits
    <2> QED  BY <2>1, <2>2 DEF LimitsHold, Fresh, Waiting
<1> QED  BY <1>1, InitRoom, NextRoom, TypesHold, PTL DEF ContestSpec

-----------------------------------------------------------------------------
(* The contest's row.                                                      *)

Live == Cardinality(LiveRows)

\* Between a live row's creation and the count's being saved.
Counting == {"enter", "count", "saveContest"}

Bounded ==
    /\ userCount <= Live
    /\ \A r \in Request : req[r].at = "saveContest" => req[r].seen <= Live

\* One join at a time, and it holds the contest as it is.
Alone ==
    ~crowded => /\ settings = edits
                /\ \A r \in Request : Joining(r) => req[r].edit = edits
                /\ \A r, o \in Request : Joining(r) /\ Joining(o) => r = o

Exact ==
    ~crowded =>
        /\ \A r \in Request : req[r].at = "saveContest" => req[r].seen = Live
        /\ (\A r \in Request : req[r].at \notin Counting) => userCount = Live

RowInv == Bounded /\ Alone /\ Exact

LEMMA InsideJoins ==
    ASSUME TypeInv, NEW r \in Request, req[r].at \in Inside
    PROVE  Joining(r)
<1>1. RequestOK(req[r]) /\ req[r].at # "idle"
    BY BusyIsHeld DEF Inside
<1> QED  BY <1>1 DEF RequestOK, Inside, Joining, Busy

\* Rows are only added, so their number does not go down.
LEMMA LiveGrows ==
    ASSUME TypeInv, TypeInv', parts \subseteq parts'
    PROVE  Live \in Nat /\ Live' \in Nat /\ Live <= Live'
<1>1. parts \in SUBSET Part /\ parts' \in SUBSET Part
    BY DEF TypeInv, ContestTypeOK
<1>2. LiveRows \in SUBSET Part /\ LiveRows' \in SUBSET Part /\ LiveRows \subseteq LiveRows'
    BY <1>1 DEF LiveRows
<1>3. IsFiniteSet(LiveRows') /\ Cardinality(LiveRows) \in Nat /\ Cardinality(LiveRows') \in Nat
    BY <1>2, PartsAreCounted
<1>4. Cardinality(LiveRows) <= Cardinality(LiveRows')
    BY <1>2, <1>3, FS_Subset
<1> QED  BY <1>3, <1>4 DEF Live

LEMMA NotJoiningYet ==
    ASSUME TypeInv, NEW r \in Request, Begin(r) \/ BeginScore(r) \/ Expire(r)
    PROVE  ~Joining(r)'
<1>0. req \in [Request -> Held \cup {Idle}] /\ scenario.kinds \subseteq Kinds
    BY ContestAssumption DEF TypeInv, ContestTypeOK
<1>1. ASSUME NEW u, NEW kind, NEW cur, NEW step, NEW p, Start(r, u, kind, cur, step, p)
      PROVE  req'[r].at = step /\ req'[r].kind = kind
    <2>1. req' = [req EXCEPT ![r] =
                 [at |-> step, kind |-> kind, user |-> u, cur |-> cur, ended |-> FALSE,
                  edit |-> 0, part |-> p, flag |-> p \in disqualified, seen |-> 0, sub |-> NoSub]]
        BY <1>1 DEF Start
    <2>2. req'[r] = [at |-> step, kind |-> kind, user |-> u, cur |-> cur,
                  ended |-> FALSE, edit |-> 0, part |-> p, flag |-> p \in disqualified,
                  seen |-> 0, sub |-> NoSub]
        BY <1>0, <2>1
    <2> QED  BY <2>2
<1>2. First("join") = "lookup"
    BY DEF First
<1>3. CASE Begin(r)
    <2>1. PICK u \in User, kind \in Kinds :
              Start(r, u, kind, current[u],
                    IF current[u] # NoPart /\ Over(current[u]) THEN "expire" ELSE First(kind),
                    NoPart)
        BY <1>0, <1>3 DEF Begin
    <2> DEFINE step == IF current[u] # NoPart /\ Over(current[u]) THEN "expire" ELSE First(kind)
    <2>2. kind = "join" => step \in {"expire", "lookup"}
        BY <1>2
    <2> HIDE DEF step
    <2>3. Start(r, u, kind, current[u], step, NoPart)
        BY <2>1 DEF step
    <2>4. req'[r].at = step /\ req'[r].kind = kind
        BY <2>3, <1>1
    <2> QED  BY <2>2, <2>4 DEF Joining
<1>4. CASE BeginScore(r)
    <2>1. PICK p \in parts : Start(r, UserOf(p), "score", NoPart, "saveScore", p)
        BY <1>4 DEF BeginScore
    <2>2. req'[r].kind = "score"
        BY <2>1, <1>1
    <2> QED  BY <2>2 DEF Joining
<1>5. CASE Expire(r)
    <2>1. /\ req[r] \in Held /\ req' = [req EXCEPT ![r] = IF First(req[r].kind) = "idle" THEN Idle
                                   ELSE [@ EXCEPT !.cur = NoPart, !.at = First(req[r].kind)]]
        BY <1>5, BusyIsHeld DEF Expire, At, RemoveContest
    <2>2. CASE req[r].kind = "join"
        <3>1. req'[r] = [req[r] EXCEPT !.cur = NoPart, !.at = "lookup"]
            BY <1>0, <1>2, <2>1, <2>2
        <3>2. req'[r].at = "lookup"
            BY <2>1, <3>1 DEF Held
        <3> QED  BY <3>2 DEF Joining
    <2>3. CASE req[r].kind # "join"
        <3>1. req'[r] = Idle \/ Kept(r)
            BY <1>5, RemoveEffect
        <3> QED  BY <2>3, <3>1 DEF Kept, Joining, Busy, Idle
    <2> QED  BY <2>2, <2>3
<1> QED  BY <1>3, <1>4, <1>5

LEMMA InitRow == ContestInit => RowInv
<1> SUFFICES ASSUME ContestInit PROVE RowInv
    OBVIOUS
<1>1. parts = {<<u, LIVE>> : u \in scenario.joined} /\ userCount = Cardinality(scenario.joined)
    BY DEF ContestInit
<1>2. scenario.joined \in SUBSET User /\ IsFiniteSet(scenario.joined)
    <2>1. scenario.joined \in SUBSET User
        BY ContestAssumption DEF ContestInit
    <2> QED  BY <2>1, ContestAssumption, FS_Subset
<1>3. LiveRows = parts
    BY <1>1 DEF LiveRows, Virtual
<1>4. Cardinality(parts) = Cardinality(scenario.joined)
    <2> DEFINE f == [u \in scenario.joined |-> <<u, LIVE>>]
    <2>1. ExistsBijection(scenario.joined, parts)
        <3>1. f \in Bijection(scenario.joined, parts)
            BY <1>1 DEF Bijection, Injection, Surjection, IsInjective
        <3> QED  BY <3>1 DEF ExistsBijection
    <2>2. Cardinality(scenario.joined) = Cardinality(parts)
        BY <1>2, <2>1, FS_Bijection
    <2> QED  BY <2>2
<1>5. Cardinality(scenario.joined) \in Nat
    BY <1>2, FS_CardinalityType
<1>6. \A r \in Request : req[r].at = "idle"
    BY DEF ContestInit, Idle
<1>7. userCount = Live
    BY <1>1, <1>3, <1>4 DEF Live
<1>8. Bounded /\ Exact
    BY <1>5, <1>1, <1>6, <1>7 DEF Bounded, Exact
<1>9. Alone
    BY <1>6 DEF ContestInit, Alone, Joining, Busy
<1> QED  BY <1>8, <1>9 DEF RowInv

\* The steps of a request that write neither the contest's row nor a new reading of it.
LEMMA RowStays ==
    ASSUME TypeInv, TypeInv', RowInv, NEW r \in Request, OthersWait(r),
           parts \subseteq parts', LiveRows' = LiveRows \/ Joining(r),
           UNCHANGED <<userCount, settings, edits, crowded>>,
           req'[r].at = "saveContest" => req'[r].seen = Live',
           Joining(r)' => Joining(r) /\ req'[r].edit = req[r].edit,
           req'[r].at \notin Counting => req[r].at \notin Counting /\ LiveRows' = LiveRows
    PROVE  RowInv'
<1>0. /\ Live \in Nat /\ Live' \in Nat /\ Live <= Live'
      /\ LiveRows' = LiveRows => Live' = Live
    BY LiveGrows DEF Live
<1>1. userCount \in Nat /\ \A o \in Request : req[o].at = "saveContest" => req[o].seen \in Nat
    BY BusyIsHeld DEF TypeInv, ContestTypeOK
<1>2. \A o \in Request \ {r} : req'[o] = req[o] /\ (Joining(o)' <=> Joining(o))
    BY DEF OthersWait, Joining, Busy
<1>3. Bounded'
    <2>1. userCount' <= Live'
        BY <1>0, <1>1 DEF RowInv, Bounded
    <2>2. ASSUME NEW o \in Request, req'[o].at = "saveContest"
          PROVE  req'[o].seen <= Live'
        <3>1. CASE o = r
            BY <1>0, <2>2, <3>1
        <3>2. CASE o # r
            <4>1. req[o].seen <= Live /\ req[o].seen \in Nat /\ req'[o].seen = req[o].seen
                BY <1>1, <1>2, <2>2, <3>2 DEF RowInv, Bounded
            <4> QED  BY <1>0, <4>1
        <3> QED  BY <3>1, <3>2
    <2> QED  BY <2>1, <2>2 DEF Bounded
<1>4. Alone'
    <2> SUFFICES ASSUME ~crowded
                 PROVE  /\ settings' = edits'
                        /\ \A o \in Request : Joining(o)' => req'[o].edit = edits'
                        /\ \A o, n \in Request : Joining(o)' /\ Joining(n)' => o = n
        BY DEF Alone
    <2>1. \A o \in Request : Joining(o)' => Joining(o) /\ req'[o].edit = req[o].edit
        BY <1>2
    <2> QED  BY <2>1 DEF RowInv, Alone
<1>5. Exact'
    <2> SUFFICES ASSUME ~crowded
                 PROVE  /\ \A o \in Request : req'[o].at = "saveContest" => req'[o].seen = Live'
                        /\ (\A o \in Request : req'[o].at \notin Counting) => userCount' = Live'
        BY DEF Exact
    <2>1. ASSUME NEW o \in Request, req'[o].at = "saveContest"
          PROVE  req'[o].seen = Live'
        <3>1. CASE o # r
            <4>1. req[o].at = "saveContest" /\ req'[o].seen = req[o].seen
                BY <1>2, <2>1, <3>1
            <4>2. Joining(o) /\ req[o].seen = Live
                BY <4>1, InsideJoins DEF RowInv, Exact, Inside
            <4>3. ~Joining(r)
                BY <3>1, <4>2 DEF RowInv, Alone
            <4> QED  BY <1>0, <4>1, <4>2, <4>3
        <3> QED  BY <2>1, <3>1
    <2>2. ASSUME \A o \in Request : req'[o].at \notin Counting
          PROVE  userCount' = Live'
        <3>1. \A o \in Request : req[o].at \notin Counting
            BY <1>2, <2>2
        <3> QED  BY <1>0, <2>2, <3>1 DEF RowInv, Exact
    <2> QED  BY <2>1, <2>2
<1> QED  BY <1>3, <1>4, <1>5 DEF RowInv

\* Steps that leave the contest's row, the participations and the requests alone.
LEMMA RowUntouched ==
    ASSUME RowInv, UNCHANGED <<parts, userCount, settings, edits, crowded, req>>
    PROVE  RowInv'
<1>1. Live' = Live
    BY DEF Live, LiveRows
<1>2. \A r \in Request : Joining(r)' <=> Joining(r)
    BY DEF Joining, Busy
<1>3. Bounded'
    BY <1>1 DEF RowInv, Bounded
<1>4. Alone'
    BY <1>2 DEF RowInv, Alone
<1>5. Exact'
    BY <1>1 DEF RowInv, Exact
<1> QED  BY <1>3, <1>4, <1>5 DEF RowInv

\* A join reads the contest: it is the only one, or the history says that it is not.
LEMMA LookupRow ==
    ASSUME TypeInv, TypeInv', RowInv, NEW r \in Request, Lookup(r)
    PROVE  RowInv'
<1>1. /\ OthersWait(r) /\ req[r].at = "lookup"
      /\ \/ req'[r] = Idle
         \/ /\ req'[r].at \in {"remove", "admit"} /\ req'[r].kind = req[r].kind
            /\ req'[r].edit = settings
      /\ crowded' = (crowded \/ (req[r].kind = "join" /\ \E o \in Request : Joining(o)))
      /\ UNCHANGED <<parts, userCount, settings, edits>>
    BY LookupEffect DEF contestRows, Rest
<1>2. req'[r].at \in {"idle", "remove", "admit"} /\ Live' = Live
    BY <1>1 DEF Idle, Live, LiveRows
<1>3. \A o \in Request \ {r} : req'[o] = req[o] /\ (Joining(o)' <=> Joining(o))
    BY <1>1 DEF OthersWait, Joining, Busy
<1>4. Joining(r)' => req[r].kind = "join" /\ req'[r].edit = settings
    BY <1>1 DEF Joining, Busy, Idle
<1>5. Bounded'
    BY <1>1, <1>2, <1>3 DEF RowInv, Bounded
<1>6. CASE crowded'
    BY <1>5, <1>6 DEF RowInv, Alone, Exact
<1>7. CASE ~crowded'
    <2>1. ~crowded /\ (req[r].kind = "join" => \A o \in Request : ~Joining(o))
        BY <1>1, <1>7, Zenon
    <2>2. settings' = edits'
        BY <1>1, <2>1 DEF RowInv, Alone
    <2>3. \A o \in Request : Joining(o)' => req'[o].edit = edits'
        BY <1>1, <1>3, <1>4, <2>1, <2>2 DEF RowInv, Alone
    <2>4. \A n, o \in Request : Joining(n)' /\ Joining(o)' => n = o
        BY <1>3, <1>4, <2>1 DEF RowInv, Alone
    <2>5. \A o \in Request : req'[o].at = "saveContest" => req'[o].seen = Live'
        BY <1>2, <1>3, <2>1 DEF RowInv, Exact
    <2>6. (\A o \in Request : req'[o].at \notin Counting) => userCount' = Live'
        <3> SUFFICES ASSUME \A o \in Request : req'[o].at \notin Counting
                     PROVE  userCount' = Live'
            OBVIOUS
        <3>1. \A o \in Request : req[o].at \notin Counting
            BY <1>1, <1>3 DEF Counting
        <3> QED  BY <1>1, <1>2, <2>1, <3>1 DEF RowInv, Exact
    <2> QED  BY <1>5, <2>2, <2>3, <2>4, <2>5, <2>6 DEF RowInv, Alone, Exact
<1> QED  BY <1>6, <1>7

\* The contest's row is written as it was read, with the new count.
LEMMA SaveRow ==
    ASSUME TypeInv, TypeInv', RowInv, NEW r \in Request, SaveContest(r)
    PROVE  RowInv'
<1>1. /\ OthersWait(r) /\ req'[r] = Idle /\ req[r].at = "saveContest"
      /\ userCount' = req[r].seen /\ settings' = req[r].edit
      /\ UNCHANGED <<parts, edits, crowded>>
    <2>1. req[r].at = "saveContest"
        BY DEF SaveContest, At
    <2> QED  BY <2>1, SaveEffect DEF Rest
<1>2. Live' = Live /\ Idle.at = "idle"
    BY <1>1 DEF Idle, Live, LiveRows
<1>3. \A o \in Request \ {r} : req'[o] = req[o] /\ (Joining(o)' <=> Joining(o))
    BY <1>1 DEF OthersWait, Joining, Busy
<1>4. Joining(r) /\ ~Joining(r)'
    BY <1>1, <1>2, InsideJoins DEF Inside, Joining, Busy
<1>5. Bounded'
    BY <1>1, <1>2, <1>3 DEF RowInv, Bounded
<1>6. Alone'
    <2> SUFFICES ASSUME ~crowded
                 PROVE  /\ settings' = edits'
                        /\ \A o \in Request : Joining(o)' => req'[o].edit = edits'
                        /\ \A o, n \in Request : Joining(o)' /\ Joining(n)' => o = n
        BY <1>1 DEF Alone
    <2>1. req[r].edit = edits
        BY <1>4 DEF RowInv, Alone
    <2>2. \A o \in Request : ~Joining(o)'
        BY <1>3, <1>4 DEF RowInv, Alone
    <2> QED  BY <1>1, <2>1, <2>2
<1>7. Exact'
    <2> SUFFICES ASSUME ~crowded
                 PROVE  /\ \A o \in Request : req'[o].at = "saveContest" => req'[o].seen = Live'
                        /\ userCount' = Live'
        BY <1>1 DEF Exact
    <2>1. \A o \in Request : req'[o].at = "saveContest" => req'[o].seen = Live'
        BY <1>1, <1>2, <1>3 DEF RowInv, Exact
    <2>2. userCount' = Live'
        BY <1>1, <1>2 DEF RowInv, Exact
    <2> QED  BY <2>1, <2>2
<1> QED  BY <1>5, <1>6, <1>7 DEF RowInv

LEMMA EditRow ==
    ASSUME TypeInv, TypeInv', RowInv, EditContest
    PROVE  RowInv'
<1>1. /\ settings' = edits' /\ crowded' = (crowded \/ \E r \in Request : Joining(r))
      /\ UNCHANGED <<parts, userCount, req>>
    BY DEF EditContest
<1>2. Live' = Live
    BY <1>1 DEF Live, LiveRows
<1>3. \A r \in Request : req'[r] = req[r] /\ (Joining(r)' <=> Joining(r))
    BY <1>1 DEF Joining, Busy
<1>4. Bounded'
    BY <1>1, <1>2, <1>3 DEF RowInv, Bounded
<1>5. CASE crowded'
    BY <1>4, <1>5 DEF RowInv, Alone, Exact
<1>6. CASE ~crowded'
    <2>1. ~crowded /\ \A r \in Request : ~Joining(r)
        BY <1>1, <1>6, Zenon
    <2>2. Alone'
        BY <1>1, <1>3, <2>1 DEF Alone
    <2>3. Exact'
        BY <1>1, <1>2, <2>1 DEF RowInv, Exact
    <2> QED  BY <1>4, <2>2, <2>3 DEF RowInv
<1> QED  BY <1>5, <1>6

LEMMA NextRow == TypeInv /\ TypeInv' /\ RowInv /\ [ContestNext]_contestVars => RowInv'
<1> SUFFICES ASSUME TypeInv, TypeInv', RowInv, [ContestNext]_contestVars PROVE RowInv'
    OBVIOUS
<1>0. Idle.at = "idle"
    BY DEF Idle
<1>1. ASSUME NEW r \in Request, Begin(r) \/ BeginScore(r) PROVE RowInv'
    <2>1. /\ OthersWait(r) /\ req[r].at = "idle"
          /\ req'[r].at \in {"expire", "lookup", "limit", "saveProfile", "saveScore"}
          /\ UNCHANGED <<parts, userCount, settings, edits, crowded>>
        BY <1>1, StartEffect DEF contestRows
    <2>2. ~Joining(r)'
        BY <1>1, NotJoiningYet
    <2> QED  BY <2>1, <2>2, RowStays DEF Counting, LiveRows
<1>2. ASSUME NEW r \in Request, Expire(r) PROVE RowInv'
    <2>1. /\ OthersWait(r) /\ req[r].at \in {"expire", "remove"}
          /\ req'[r].at \in {"idle", "lookup", "limit", "saveProfile", "admit"}
          /\ UNCHANGED <<parts, userCount, settings, edits, crowded>>
        BY <1>0, <1>2, RemoveEffect DEF Rest
    <2>2. ~Joining(r)'
        BY <1>2, NotJoiningYet
    <2> QED  BY <2>1, <2>2, RowStays DEF Counting, LiveRows
<1>3. ASSUME NEW r \in Request, Remove(r) PROVE RowInv'
    <2>1. /\ OthersWait(r) /\ req[r].at = "remove" /\ (req'[r] = Idle \/ Kept(r))
          /\ req'[r].at \in {"idle", "lookup", "limit", "saveProfile", "admit"}
          /\ UNCHANGED <<parts, userCount, settings, edits, crowded>>
        BY <1>0, <1>3, RemoveEffect DEF Rest, Remove, At
    <2>2. Joining(r)' => Joining(r) /\ req'[r].edit = req[r].edit
        BY <1>0, <2>1 DEF Joining, Busy, Kept
    <2> QED  BY <2>1, <2>2, RowStays DEF Counting, LiveRows
<1>4. ASSUME NEW r \in Request, SaveProfile(r) \/ SaveScore(r) \/ Judge(r) PROVE RowInv'
    <2>1. req[r].at \in {"saveProfile", "saveScore", "judge"}
        BY <1>4 DEF SaveProfile, SaveScore, Judge, At
    <2>2. /\ OthersWait(r) /\ req'[r] = Idle
          /\ UNCHANGED <<parts, userCount, settings, edits, crowded>>
        BY <1>4, <2>1, SaveEffect DEF Rest
    <2>3. ~Joining(r)'
        BY <1>0, <2>2 DEF Joining, Busy
    <2> QED  BY <1>0, <2>1, <2>2, <2>3, RowStays DEF Counting, LiveRows
<1>5. ASSUME NEW r \in Request, Lookup(r) \/ SaveContest(r) PROVE RowInv'
    BY <1>5, LookupRow, SaveRow
<1>6. ASSUME NEW r \in Request, Admit(r) \/ Create(r) \/ Enter(r) \/ Limit(r) \/ Check(r)
      PROVE  RowInv'
    <2>1. /\ OthersWait(r) /\ req[r].at \in {"admit", "create", "enter", "limit", "check"}
          /\ req'[r] = Idle \/ (Kept(r) /\ req'[r].at # "saveContest")
          /\ parts \subseteq parts'
          /\ parts' = parts \/ (req[r].at = "create" /\ req'[r].at = "enter")
          /\ req[r].at = "enter" => req'[r].at = "count"
          /\ UNCHANGED <<userCount, settings, edits, crowded>>
        BY <1>6, MoveEffect DEF Rest
    <2>2. Joining(r)' => Joining(r) /\ req'[r].edit = req[r].edit
        BY <1>0, <2>1 DEF Joining, Busy, Kept
    <2>3. LiveRows' = LiveRows \/ Joining(r)
        BY <2>1, InsideJoins DEF Inside, LiveRows
    <2> QED  BY <1>0, <2>1, <2>2, <2>3, RowStays DEF Counting, LiveRows
<1>7. ASSUME NEW r \in Request, Number(r) PROVE RowInv'
    <2>1. /\ OthersWait(r) /\ req[r].at = "number" /\ req'[r].at = "create" /\ Kept(r)
          /\ UNCHANGED <<parts, userCount, settings, edits, crowded>>
        BY <1>7, NumberEffect DEF Rest, contestRows
    <2>2. Joining(r)' => Joining(r) /\ req'[r].edit = req[r].edit
        BY <2>1 DEF Joining, Busy, Kept
    <2> QED  BY <2>1, <2>2, RowStays DEF Counting, LiveRows
<1>8. ASSUME NEW r \in Request, Find(r) PROVE RowInv'
    <2>1. /\ OthersWait(r) /\ req[r].at = "find" /\ req'[r].at \in {"create", "enter"} /\ Kept(r)
          /\ parts' = parts \/ parts' = parts \cup {<<req[r].user, SPECTATE>>}
          /\ UNCHANGED <<userCount, settings, edits, crowded>>
        BY <1>8, FindEffect DEF Rest
    <2>2. Joining(r)' => Joining(r) /\ req'[r].edit = req[r].edit
        BY <2>1 DEF Joining, Busy, Kept
    <2>3. LiveRows' = LiveRows
        BY <2>1 DEF LiveRows, Virtual, LIVE, SPECTATE
    <2> QED  BY <2>1, <2>2, <2>3, RowStays DEF Counting
<1>9. ASSUME NEW r \in Request, Count(r) PROVE RowInv'
    <2>1. /\ OthersWait(r) /\ req[r].at = "count" /\ req'[r].at = "saveContest" /\ Kept(r)
          /\ req'[r].seen = Cardinality(LiveRows)
          /\ UNCHANGED <<parts, userCount, settings, edits, crowded>>
        BY <1>9, CountEffect DEF Rest, contestRows
    <2>2. Joining(r)' => Joining(r) /\ req'[r].edit = req[r].edit
        BY <2>1 DEF Joining, Busy, Kept
    <2>3. LiveRows' = LiveRows /\ req'[r].seen = Live'
        BY <2>1 DEF Live, LiveRows
    <2> QED  BY <2>1, <2>2, <2>3, RowStays DEF Counting
<1>10. ASSUME NEW r \in Request, Insert(r) PROVE RowInv'
    <2>1. /\ OthersWait(r) /\ req[r].at = "insert" /\ req'[r].at = "judge" /\ Kept(r)
          /\ UNCHANGED <<parts, userCount, settings, edits, crowded>>
        BY <1>10, InsertEffect DEF Rest
    <2>2. Joining(r)' => Joining(r) /\ req'[r].edit = req[r].edit
        BY <2>1 DEF Joining, Busy, Kept
    <2> QED  BY <2>1, <2>2, RowStays DEF Counting, LiveRows
<1>11. CASE EditContest
    BY <1>11, EditRow
<1>12. ASSUME \/ \E s \in Submission : StatusWritten(s) \/ Rejudge(s)
              \/ \E p \in parts : Disqualify(p)
              \/ Kick \/ Ban \/ Unban \/ TimePasses \/ UNCHANGED contestVars
       PROVE  RowInv'
    <2>1. UNCHANGED <<parts, userCount, settings, edits, crowded, req>>
        BY <1>12 DEF StatusWritten, Rejudge, Disqualify, Kick, Ban, Unban, TimePasses, contestVars,
               contestRows, history
    <2> QED  BY <2>1, RowUntouched
<1> QED  BY <1>1, <1>2, <1>3, <1>4, <1>5, <1>6, <1>7, <1>8, <1>9, <1>10, <1>11, <1>12,
            NextCases DEF AdminStep

\* The count of the contest's row is never too high; a join that ran alone leaves it exact
\* and loses no edit.
THEOREM ContestRowIsKept == ContestSpec => []ContestRowKept
<1>1. TypeInv /\ RowInv => ContestRowKept
    <2> SUFFICES ASSUME TypeInv, RowInv PROVE ContestRowKept
        OBVIOUS
    <2>1. ASSUME ~crowded, \A r \in Request : ~Joining(r)
          PROVE  userCount = Cardinality(LiveRows)
        <3>1. \A r \in Request : req[r].at \notin Counting
            BY <2>1, InsideJoins DEF Counting, Inside
        <3> QED  BY <2>1, <3>1 DEF RowInv, Exact, Live
    <2> QED  BY <2>1 DEF ContestRowKept, RowInv, Bounded, Alone, Live
<1>2. TypeInv /\ TypeInv' /\ RowInv /\ [ContestNext]_contestVars => RowInv'
    BY NextRow
<1> QED  BY <1>1, <1>2, InitRow, TypesHold, PTL DEF ContestSpec

-----------------------------------------------------------------------------
(* Disqualification.                                                       *)

\* The disqualification in progress is about u.
About(u) == dq.at # "none" /\ UserOf(dq.part) = u

\* Where a request stands that has passed the check of banned users.
Admitted == {"number", "find", "create", "enter"}

\* A banned user is not in the participation he was banned for; a superuser may be.
Out(u) == u \in scenario.superusers \/ current[u] # banFor[u]

\* A request r of a banned user has not read the participation he was banned for, and
\* will not be let in.
Harmless(r, u) ==
    u \in scenario.superusers \/ (req[r].cur # banFor[u] /\ req[r].at \notin Admitted)

BanInv ==
    \A u \in banned \ raced : ~About(u) =>
        /\ banFor[u] \in disqualified /\ UserOf(banFor[u]) = u /\ Out(u)
        /\ \A r \in Request : Busy(r) /\ req[r].user = u => Harmless(r, u)

\* A disqualification that no request has overlapped.
KickInv ==
    dq.at # "none" /\ UserOf(dq.part) \notin raced =>
        /\ \A r \in Request : Busy(r) => req[r].user # UserOf(dq.part)
        /\ dq.at \in {"kick", "ban"} => dq.part \in disqualified
        /\ dq.at = "ban" => current[UserOf(dq.part)] # dq.part

\* A verdict has read of the participation what is still there.
ReadInv(r) ==
    req[r].at = "saveScore" /\ req[r].user \notin raced =>
        (req[r].flag <=> req[r].part \in disqualified)

OutInv == BanInv /\ KickInv /\ \A r \in Request : ReadInv(r)

LEMMA InitOut == ContestInit => OutInv
<1> SUFFICES ASSUME ContestInit PROVE OutInv
    OBVIOUS
<1>1. \A r \in Request : req[r].at = "idle"
    BY DEF ContestInit, Idle
<1>2. ASSUME NEW u \in banned
      PROVE  /\ banFor[u] \in disqualified /\ UserOf(banFor[u]) = u /\ current[u] # banFor[u]
    <2>1. u \in scenario.out /\ u \in User
        BY <1>2, ContestAssumption DEF ContestInit
    <2>2. <<u, LIVE>> \in Part
        BY <2>1, ContestAssumption DEF Part, LIVE, SPECTATE
    <2>3. banFor[u] = <<u, LIVE>> /\ current[u] = NoPart
        BY <2>1 DEF ContestInit
    <2> QED  BY <2>1, <2>2, <2>3, ContestAssumption DEF ContestInit, UserOf
<1>3. dq.at = "none"
    BY DEF ContestInit
<1> QED  BY <1>1, <1>2, <1>3 DEF OutInv, BanInv, KickInv, ReadInv, Busy, Out

\* A step of a request of user u that writes rows of u only, and of the profile or the
\* participation nothing that undoes a disqualification.
LEMMA OutMoves ==
    ASSUME TypeInv, OutInv, NEW r \in Request, OthersWait(r), req[r].at # "idle",
           NEW u, u = req[r].user,
           UNCHANGED <<scenario, banned, dq, banFor, raced>>,
           \/ req'[r] = Idle
           \/ req'[r].user = u /\ req'[r].at \notin {"idle", "saveScore"},
           \A v \in User \ {u} : current'[v] = current[v],
           \A p \in Part : UserOf(p) # u => (p \in disqualified' <=> p \in disqualified),
           u \notin raced => disqualified' = disqualified,
           u \in banned \ raced /\ ~About(u) =>
               Out(u)' /\ (req'[r] = Idle \/ Harmless(r, u)')
    PROVE  OutInv'
<1>0. /\ Idle.at = "idle" /\ banned \in SUBSET User /\ disqualified \in SUBSET Part
      /\ dq.at # "none" => dq.part \in Part /\ UserOf(dq.part) \in User
    BY DEF Idle, TypeInv, ContestTypeOK, Shape, Part, UserOf
<1>1. \A o \in Request \ {r} : /\ req'[o] = req[o] /\ (Busy(o)' <=> Busy(o))
                               /\ \A v : Harmless(o, v)' <=> Harmless(o, v)
    BY DEF OthersWait, Busy, Harmless, Out
<1>2. BanInv'
    <2> SUFFICES ASSUME NEW v \in banned \ raced, ~About(v)
                 PROVE  /\ banFor[v] \in disqualified' /\ UserOf(banFor[v]) = v
                        /\ Out(v)'
                        /\ \A o \in Request : Busy(o)' /\ req'[o].user = v => Harmless(o, v)'
        BY DEF BanInv, About
    <2>1. /\ banFor[v] \in disqualified /\ UserOf(banFor[v]) = v /\ Out(v)
          /\ \A o \in Request : Busy(o) /\ req[o].user = v => Harmless(o, v)
        BY DEF OutInv, BanInv
    <2>2. banFor[v] \in disqualified' /\ Out(v)'
        BY <1>0, <2>1 DEF Out
    <2>3. \A o \in Request : Busy(o)' /\ req'[o].user = v => Harmless(o, v)'
        <3> SUFFICES ASSUME NEW o \in Request, Busy(o)', req'[o].user = v
                     PROVE  Harmless(o, v)'
            OBVIOUS
        <3>1. CASE o = r
            <4>1. req'[r] # Idle /\ v = u
                BY <1>0, <3>1 DEF Busy
            <4> QED  BY <3>1, <4>1
        <3>2. CASE o # r
            BY <1>1, <2>1, <3>2
        <3> QED  BY <3>1, <3>2
    <2> QED  BY <2>1, <2>2, <2>3
<1>3. KickInv'
    <2> SUFFICES ASSUME dq.at # "none", UserOf(dq.part) \notin raced
                 PROVE  /\ \A o \in Request : Busy(o)' => req'[o].user # UserOf(dq.part)
                        /\ dq.at \in {"kick", "ban"} => dq.part \in disqualified'
                        /\ dq.at = "ban" => current'[UserOf(dq.part)] # dq.part
        BY DEF KickInv
    <2>1. /\ \A o \in Request : Busy(o) => req[o].user # UserOf(dq.part)
          /\ dq.at \in {"kick", "ban"} => dq.part \in disqualified
          /\ dq.at = "ban" => current[UserOf(dq.part)] # dq.part
        BY DEF OutInv, KickInv
    <2>2. UserOf(dq.part) # u
        BY <2>1 DEF Busy
    <2>3. \A o \in Request : Busy(o)' => req'[o].user # UserOf(dq.part)
        <3> SUFFICES ASSUME NEW o \in Request, Busy(o)' PROVE req'[o].user # UserOf(dq.part)
            OBVIOUS
        <3>1. CASE o = r
            BY <1>0, <2>2, <3>1 DEF Busy
        <3>2. CASE o # r
            BY <1>1, <2>1, <3>2
        <3> QED  BY <3>1, <3>2
    <2> QED  BY <1>0, <2>1, <2>2, <2>3
<1>4. ASSUME NEW o \in Request, req'[o].at = "saveScore", req'[o].user \notin raced
      PROVE  req'[o].flag <=> req'[o].part \in disqualified'
    <2>1. o # r
        BY <1>0, <1>4
    <2>2. req'[o] = req[o] /\ req[o].at = "saveScore" /\ req[o].user \notin raced
        BY <1>1, <1>4, <2>1
    <2>3. req[o].part \in Part /\ UserOf(req[o].part) = req[o].user
        BY <2>2, BusyIsHeld DEF RequestOK
    <2>4. req[o].part \in disqualified' <=> req[o].part \in disqualified
        BY <2>2, <2>3
    <2>5. req[o].flag <=> req[o].part \in disqualified
        BY <2>2 DEF OutInv, ReadInv
    <2> QED  BY <2>2, <2>4, <2>5, Zenon
<1>5. \A o \in Request : ReadInv(o)'
    BY <1>4, Zenon DEF ReadInv
<1> QED  BY <1>2, <1>3, <1>5 DEF OutInv

\* A request begins: it reads what is there, or it overlaps a disqualification.
LEMMA BeginOut ==
    ASSUME TypeInv, OutInv, NEW r \in Request, Begin(r) \/ BeginScore(r)
    PROVE  OutInv'
<1>1. /\ OthersWait(r) /\ req[r].at = "idle"
      /\ req'[r].at \in {"expire", "lookup", "limit", "saveProfile", "saveScore"}
      /\ req'[r].at # "saveScore" => req'[r].cur = current[req'[r].user]
      /\ req'[r].at = "saveScore" => req'[r].cur = NoPart
      /\ About(req'[r].user) => req'[r].user \in raced'
      /\ raced \subseteq raced'
      /\ UNCHANGED <<scenario, banned, dq, banFor, current, disqualified>>
    BY StartEffect DEF contestRows, About
<1>2. req'[r].at = "saveScore" => (req'[r].flag <=> req'[r].part \in disqualified)
    BY StartEffect, Zenon
<1>3. \A o \in Request \ {r} : /\ req'[o] = req[o] /\ (Busy(o)' <=> Busy(o))
                               /\ \A v : Harmless(o, v)' <=> Harmless(o, v)
    BY <1>1 DEF OthersWait, Busy, Harmless, Out
<1>4. BanInv'
    <2> SUFFICES ASSUME NEW v \in banned \ raced', ~About(v)
                 PROVE  /\ banFor[v] \in disqualified /\ UserOf(banFor[v]) = v
                        /\ Out(v)
                        /\ \A o \in Request : Busy(o)' /\ req'[o].user = v => Harmless(o, v)'
        BY <1>1 DEF BanInv, About, Out
    <2>1. /\ banFor[v] \in disqualified /\ UserOf(banFor[v]) = v /\ Out(v)
          /\ \A o \in Request : Busy(o) /\ req[o].user = v => Harmless(o, v)
        BY <1>1 DEF OutInv, BanInv
    <2>2. banFor[v] # NoPart
        BY <2>1, ContestAssumption DEF TypeInv, ContestTypeOK
    <2>3. req'[r].user = v => Harmless(r, v)'
        BY <1>1, <2>1, <2>2 DEF Harmless, Out, Admitted
    <2> QED  BY <1>3, <2>1, <2>3
<1>5. KickInv'
    BY <1>1, <1>3 DEF OutInv, KickInv, About
<1>6. ASSUME NEW o \in Request, req'[o].at = "saveScore", req'[o].user \notin raced'
      PROVE  req'[o].flag <=> req'[o].part \in disqualified'
    <2>1. CASE o = r
        BY <1>1, <1>2, <1>6, <2>1, Zenon
    <2>2. CASE o # r
        <3>1. req'[o] = req[o] /\ req[o].at = "saveScore" /\ req[o].user \notin raced
            BY <1>1, <1>3, <1>6, <2>2
        <3>2. req[o].flag <=> req[o].part \in disqualified
            BY <3>1 DEF OutInv, ReadInv
        <3> QED  BY <1>1, <3>1, <3>2, Zenon
    <2> QED  BY <2>1, <2>2
<1>7. \A o \in Request : ReadInv(o)'
    BY <1>6, Zenon DEF ReadInv
<1> QED  BY <1>4, <1>5, <1>7 DEF OutInv

\* The steps of a request, one kind at a time.
LEMMA RequestOut ==
    ASSUME TypeInv, OutInv, NEW r \in Request, RequestStep(r)
    PROVE  OutInv'
<1> SUFFICES ASSUME NEW u, u = req[r].user PROVE OutInv'
    OBVIOUS
<1>0. Idle.at = "idle"
    BY DEF Idle
<1>1. req[r].at # "idle" => u \in User /\ req[r].cur \in Part \cup {NoPart}
    BY BusyIsHeld
<1>2. current \in [User -> Part \cup {NoPart}]
    BY DEF TypeInv, ContestTypeOK
<1>3. u \in banned \ raced /\ ~About(u) /\ req[r].at # "idle" =>
          Harmless(r, u) /\ Out(u) /\ banFor[u] # NoPart
    BY ContestAssumption DEF OutInv, BanInv, Busy, TypeInv, ContestTypeOK
<1>4. ASSUME Expire(r) \/ Remove(r) PROVE OutInv'
    <2>1. /\ OthersWait(r) /\ req[r].at \in {"expire", "remove"}
          /\ \/ req'[r] = Idle
             \/ /\ req'[r].at \in {"lookup", "limit", "saveProfile", "admit"}
                /\ req'[r].cur = NoPart /\ req'[r].user = u
          /\ current' = [current EXCEPT ![u] = NoPart]
          /\ UNCHANGED <<scenario, banned, dq, banFor, raced, disqualified>>
        BY <1>4, RemoveEffect DEF Rest, Kept
    <2>2. current'[u] = NoPart /\ \A v \in User \ {u} : current'[v] = current[v]
        BY <1>1, <1>2, <2>1
    <2>3. u \in banned \ raced /\ ~About(u) =>
              Out(u)' /\ (req'[r] = Idle \/ Harmless(r, u)')
        BY <1>3, <2>1, <2>2 DEF Harmless, Out, Admitted
    <2>4. /\ req[r].at # "idle"
          /\ \/ req'[r] = Idle
             \/ req'[r].user = u /\ req'[r].at \notin {"idle", "saveScore"}
          /\ \A v \in User \ {u} : current'[v] = current[v]
          /\ \A p \in Part : UserOf(p) # u => (p \in disqualified' <=> p \in disqualified)
        BY <2>1, <2>2
    <2> QED  BY <2>1, <2>2, <2>3, <2>4, OutMoves
<1>5. ASSUME SaveProfile(r) PROVE OutInv'
    <2>1. req[r].at = "saveProfile"
        BY <1>5 DEF SaveProfile, At
    <2>2. /\ OthersWait(r) /\ req'[r] = Idle
          /\ current' = [current EXCEPT ![u] = req[r].cur]
          /\ UNCHANGED <<scenario, banned, dq, banFor, raced, disqualified>>
        BY <1>5, <2>1, SaveEffect DEF Rest
    <2>3. current'[u] = req[r].cur /\ \A v \in User \ {u} : current'[v] = current[v]
        BY <1>1, <1>2, <2>1, <2>2
    <2>4. u \in banned \ raced /\ ~About(u) => Out(u)'
        BY <1>3, <2>1, <2>2, <2>3 DEF Harmless, Out
    <2> QED  BY <2>1, <2>2, <2>3, <2>4, OutMoves
<1>6. ASSUME SaveScore(r) PROVE OutInv'
    <2>1. req[r].at = "saveScore"
        BY <1>6 DEF SaveScore, At
    <2>2. /\ OthersWait(r) /\ req'[r] = Idle
          /\ disqualified' = IF req[r].flag THEN disqualified \cup {req[r].part}
                             ELSE disqualified \ {req[r].part}
          /\ UNCHANGED <<scenario, banned, dq, banFor, raced, current>>
        BY <1>6, <2>1, SaveEffect DEF Rest
    <2>3. UserOf(req[r].part) = u
        BY <2>1, BusyIsHeld DEF RequestOK
    <2>4. \A p \in Part : UserOf(p) # u => (p \in disqualified' <=> p \in disqualified)
        BY <2>2, <2>3
    <2>5. u \notin raced => disqualified' = disqualified
        <3> SUFFICES ASSUME u \notin raced PROVE disqualified' = disqualified
            OBVIOUS
        <3>1. req[r].flag <=> req[r].part \in disqualified
            BY <2>1 DEF OutInv, ReadInv
        <3>2. CASE req[r].flag
            BY <2>2, <3>1, <3>2
        <3>3. CASE ~req[r].flag
            BY <2>2, <3>1, <3>3
        <3> QED  BY <3>2, <3>3
    <2>6. u \in banned \ raced /\ ~About(u) => Out(u)'
        BY <1>3, <2>1, <2>2 DEF Out
    <2> QED  BY <2>1, <2>2, <2>4, <2>5, <2>6, OutMoves
<1>7. ASSUME Judge(r) \/ SaveContest(r) PROVE OutInv'
    <2>1. req[r].at \in {"judge", "saveContest"}
        BY <1>7 DEF Judge, SaveContest, At
    <2>2. /\ OthersWait(r) /\ req'[r] = Idle
          /\ UNCHANGED <<scenario, banned, dq, banFor, raced, current, disqualified>>
        BY <1>7, <2>1, SaveEffect DEF Rest
    <2>3. u \in banned \ raced /\ ~About(u) => Out(u)'
        BY <1>3, <2>1, <2>2 DEF Out
    <2> QED  BY <2>1, <2>2, <2>3, OutMoves
<1>8. ASSUME Lookup(r) PROVE OutInv'
    <2>1. /\ OthersWait(r) /\ req[r].at = "lookup"
          /\ \/ req'[r] = Idle
             \/ /\ req'[r].at \in {"remove", "admit"}
                /\ req'[r].user = u /\ req'[r].cur = req[r].cur
          /\ UNCHANGED <<scenario, banned, dq, banFor, raced, current, disqualified>>
        BY <1>8, LookupEffect DEF Rest, contestRows
    <2>2. u \in banned \ raced /\ ~About(u) =>
              Out(u)' /\ (req'[r] = Idle \/ Harmless(r, u)')
        BY <1>3, <2>1 DEF Harmless, Out, Admitted
    <2>3. /\ req[r].at # "idle"
          /\ \/ req'[r] = Idle
             \/ req'[r].user = u /\ req'[r].at \notin {"idle", "saveScore"}
          /\ \A v \in User \ {u} : current'[v] = current[v]
          /\ \A p \in Part : UserOf(p) # u => (p \in disqualified' <=> p \in disqualified)
        BY <2>1, <2>2
    <2> QED  BY <2>1, <2>2, <2>3, OutMoves
<1>9. ASSUME Admit(r) \/ Create(r) \/ Enter(r) \/ Limit(r) \/ Check(r) PROVE OutInv'
    <2>1. /\ OthersWait(r) /\ req[r].at \in {"admit", "create", "enter", "limit", "check"}
          /\ \/ req'[r] = Idle
             \/ /\ req'[r].at \in {"number", "find", "enter", "count", "check", "insert"}
                /\ req'[r].user = u /\ req'[r].cur = req[r].cur
                /\ req[r].at = "admit" => u \notin banned \ scenario.superusers
                /\ req[r].at = "limit" => req'[r].at = "check"
                /\ req[r].at = "check" => req'[r].at = "insert"
          /\ req[r].at # "enter" => UNCHANGED current
          /\ req[r].at = "enter" => current' = [current EXCEPT ![u] = req[r].part]
          /\ UNCHANGED <<scenario, banned, dq, banFor, raced, disqualified>>
        BY <1>9, MoveEffect DEF Rest, Kept
    <2>2. \A v \in User \ {u} : current'[v] = current[v]
        BY <1>1, <1>2, <2>1
    <2>3. u \in banned \ raced /\ ~About(u) =>
              Out(u)' /\ (req'[r] = Idle \/ Harmless(r, u)')
        BY <1>3, <2>1 DEF Harmless, Out, Admitted
    <2>4. /\ req[r].at # "idle"
          /\ \/ req'[r] = Idle
             \/ req'[r].user = u /\ req'[r].at \notin {"idle", "saveScore"}
          /\ \A v \in User \ {u} : current'[v] = current[v]
          /\ \A p \in Part : UserOf(p) # u => (p \in disqualified' <=> p \in disqualified)
        BY <2>1, <2>2
    <2> QED  BY <2>1, <2>2, <2>3, <2>4, OutMoves
<1>10. ASSUME Number(r) \/ Find(r) \/ Count(r) \/ Insert(r) PROVE OutInv'
    <2>1. /\ OthersWait(r) /\ req[r].at \in {"number", "find", "count", "insert"}
          /\ req'[r].at \in {"create", "enter", "saveContest", "judge"}
          /\ req[r].at = "insert" => req'[r].at = "judge"
          /\ req[r].at = "count" => req'[r].at = "saveContest"
          /\ req'[r].user = u /\ req'[r].cur = req[r].cur
          /\ UNCHANGED <<scenario, banned, dq, banFor, raced, current, disqualified>>
        BY <1>10, NumberEffect, FindEffect, CountEffect, InsertEffect DEF Rest, contestRows, Kept
    <2>2. u \in banned \ raced /\ ~About(u) => Out(u)' /\ Harmless(r, u)'
        BY <1>3, <2>1 DEF Harmless, Out, Admitted
    <2>3. /\ req[r].at # "idle"
          /\ \/ req'[r] = Idle
             \/ req'[r].user = u /\ req'[r].at \notin {"idle", "saveScore"}
          /\ \A v \in User \ {u} : current'[v] = current[v]
          /\ \A p \in Part : UserOf(p) # u => (p \in disqualified' <=> p \in disqualified)
        BY <2>1, <2>2
    <2> QED  BY <2>1, <2>2, <2>3, OutMoves
<1> QED  BY <1>4, <1>5, <1>6, <1>7, <1>8, <1>9, <1>10 DEF RequestStep

\* The admin's side: the row, the profile, the list.
LEMMA DisqualifyOut ==
    ASSUME TypeInv, OutInv, NEW p \in parts, Disqualify(p)
    PROVE  OutInv'
<1>1. /\ dq.at = "none" /\ dq'.part = p
      /\ dq'.at = IF p \in disqualified THEN "unban" ELSE "kick"
      /\ disqualified' = IF p \in disqualified THEN disqualified \ {p} ELSE disqualified \cup {p}
      /\ raced' = IF \E r \in Request : Busy(r) /\ req[r].user = UserOf(p)
                  THEN raced \cup {UserOf(p)} ELSE raced
      /\ UNCHANGED <<scenario, current, banned, banFor, req>>
    BY DEF Disqualify
<1>2. \A r \in Request : Busy(r)' <=> Busy(r)
    BY <1>1 DEF Busy
<1>3. raced \subseteq raced'
    BY <1>1
<1>4. BanInv'
    <2> SUFFICES ASSUME NEW v \in banned \ raced', v # UserOf(p)
                 PROVE  /\ banFor[v] \in disqualified' /\ UserOf(banFor[v]) = v
                        /\ Out(v)
                        /\ \A r \in Request : Busy(r) /\ req[r].user = v => Harmless(r, v)
        BY <1>1, <1>2 DEF BanInv, About, Harmless, Out
    <2>1. /\ banFor[v] \in disqualified /\ UserOf(banFor[v]) = v /\ Out(v)
          /\ \A r \in Request : Busy(r) /\ req[r].user = v => Harmless(r, v)
        BY <1>1, <1>3 DEF OutInv, BanInv, About
    <2>2. banFor[v] # p
        BY <2>1
    <2> QED  BY <1>1, <2>1, <2>2
<1>5. KickInv'
    BY <1>1, <1>2 DEF KickInv
<1>6. ASSUME NEW r \in Request, req[r].at = "saveScore", req[r].user \notin raced'
      PROVE  req[r].flag <=> req[r].part \in disqualified'
    <2>1. req[r].user # UserOf(p)
        BY <1>1, <1>6 DEF Busy
    <2>2. UserOf(req[r].part) = req[r].user
        BY <1>6, BusyIsHeld DEF RequestOK
    <2>3. req[r].flag <=> req[r].part \in disqualified
        BY <1>3, <1>6 DEF OutInv, ReadInv
    <2>4. req[r].part \in disqualified' <=> req[r].part \in disqualified
        BY <1>1, <2>1, <2>2
    <2> QED  BY <2>3, <2>4, Zenon
<1>7. \A r \in Request : ReadInv(r)'
    BY <1>1, <1>6, Zenon DEF ReadInv
<1> QED  BY <1>4, <1>5, <1>7 DEF OutInv

LEMMA KickOut ==
    ASSUME TypeInv, OutInv, Kick
    PROVE  OutInv'
<1> DEFINE w == UserOf(dq.part)
<1>1. /\ dq.at = "kick" /\ dq'.at = "ban" /\ dq'.part = dq.part
      /\ current' = [current EXCEPT ![w] = IF @ = dq.part THEN NoPart ELSE @]
      /\ UNCHANGED <<scenario, banned, disqualified, req, banFor, raced>>
    BY DEF Kick, history, TypeInv, ContestTypeOK
<1>2. /\ current \in [User -> Part \cup {NoPart}] /\ banned \subseteq User
      /\ dq.part \in Part /\ w \in User /\ NoPart \notin Part
    BY <1>1, ContestAssumption DEF TypeInv, ContestTypeOK, Shape, Part, UserOf
<1>3. current'[w] # dq.part /\ \A v \in User \ {w} : current'[v] = current[v]
    BY <1>1, <1>2
<1>4. BanInv'
    BY <1>1, <1>2, <1>3 DEF OutInv, BanInv, About, Harmless, Out, Busy
<1>5. KickInv'
    BY <1>1, <1>3 DEF OutInv, KickInv, Busy
<1>6. \A r \in Request : ReadInv(r)'
    BY <1>1, Zenon DEF OutInv, ReadInv
<1> QED  BY <1>4, <1>5, <1>6 DEF OutInv

LEMMA BanOut ==
    ASSUME TypeInv, OutInv, Ban
    PROVE  OutInv'
<1> DEFINE w == UserOf(dq.part)
<1>1. /\ dq.at = "ban" /\ dq'.at = "none" /\ banned' = banned \cup {w}
      /\ banFor' = [banFor EXCEPT ![w] = dq.part]
      /\ UNCHANGED <<scenario, current, disqualified, req, raced>>
    BY DEF Ban
<1>2. /\ banFor \in [User -> Part \cup {NoPart}] /\ w \in User /\ banned \subseteq User
    BY <1>1 DEF TypeInv, ContestTypeOK, Shape, Part, UserOf
<1>3. banFor'[w] = dq.part /\ \A v \in User \ {w} : banFor'[v] = banFor[v]
    BY <1>1, <1>2
<1>4. BanInv'
    <2> SUFFICES ASSUME NEW v \in banned' \ raced
                 PROVE  /\ banFor'[v] \in disqualified /\ UserOf(banFor'[v]) = v
                        /\ Out(v)'
                        /\ \A r \in Request : Busy(r) /\ req[r].user = v => Harmless(r, v)'
        BY <1>1 DEF BanInv, Busy
    <2>1. CASE v = w
        BY <1>1, <1>3, <2>1 DEF OutInv, KickInv, Out
    <2>2. CASE v # w
        <3>1. /\ banFor[v] \in disqualified /\ UserOf(banFor[v]) = v /\ Out(v)
              /\ \A r \in Request : Busy(r) /\ req[r].user = v => Harmless(r, v)
            BY <1>1, <2>2 DEF OutInv, BanInv, About
        <3> QED  BY <1>1, <1>2, <1>3, <2>2, <3>1 DEF Harmless, Out
    <2> QED  BY <2>1, <2>2
<1>5. KickInv'
    BY <1>1 DEF KickInv
<1>6. \A r \in Request : ReadInv(r)'
    BY <1>1, Zenon DEF OutInv, ReadInv
<1> QED  BY <1>4, <1>5, <1>6 DEF OutInv

LEMMA UnbanOut ==
    ASSUME TypeInv, OutInv, Unban
    PROVE  OutInv'
<1>1. /\ dq.at = "unban" /\ dq'.at = "none" /\ banned' = banned \ {UserOf(dq.part)}
      /\ UNCHANGED <<scenario, current, disqualified, req, raced, banFor>>
    BY DEF Unban, history
<1>2. BanInv'
    BY <1>1 DEF OutInv, BanInv, About, Harmless, Out, Busy
<1>3. KickInv'
    BY <1>1 DEF KickInv
<1>4. \A r \in Request : ReadInv(r)'
    BY <1>1, Zenon DEF OutInv, ReadInv
<1> QED  BY <1>2, <1>3, <1>4 DEF OutInv

LEMMA NextOut == TypeInv /\ OutInv /\ [ContestNext]_contestVars => OutInv'
<1> SUFFICES ASSUME TypeInv, OutInv, [ContestNext]_contestVars PROVE OutInv'
    OBVIOUS
<1>1. ASSUME NEW r \in Request, Begin(r) \/ BeginScore(r) \/ RequestStep(r) PROVE OutInv'
    BY <1>1, BeginOut, RequestOut
<1>2. ASSUME \/ \E s \in Submission : StatusWritten(s) \/ Rejudge(s)
             \/ EditContest \/ TimePasses \/ UNCHANGED contestVars
      PROVE  OutInv'
    <2>1. UNCHANGED <<scenario, banned, raced, dq, banFor, current, disqualified, req>>
        BY <1>2 DEF StatusWritten, Rejudge, EditContest, TimePasses, contestVars, contestRows,
               history
    <2>2. BanInv' /\ KickInv'
        BY <2>1 DEF OutInv, BanInv, KickInv, About, Harmless, Out, Busy
    <2>3. \A r \in Request : ReadInv(r)'
        BY <2>1, Zenon DEF OutInv, ReadInv
    <2> QED  BY <2>2, <2>3 DEF OutInv
<1> QED  BY <1>1, <1>2, DisqualifyOut, KickOut, BanOut, UnbanOut DEF ContestNext, AdminStep

\* A banned user is out of the participation he was banned for, unless he is a superuser,
\* and it stays disqualified, whatever the other requests do, if none about him overlapped
\* the disqualification.
THEOREM DisqualificationIsKept == ContestSpec => []DisqualificationHolds
<1>1. OutInv => DisqualificationHolds
    BY DEF OutInv, BanInv, About, Out, DisqualificationHolds
<1> QED  BY <1>1, InitOut, NextOut, TypesHold, PTL DEF ContestSpec
=============================================================================
