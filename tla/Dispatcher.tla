------------------------------ MODULE Dispatcher ------------------------------
(***************************************************************************)
(* What the bridge promises as long as no call fails in it: submissions    *)
(* wait in a line for each priority, a judge has at most one, and a judge  *)
(* that becomes free takes the first it fits, by priority and then by      *)
(* arrival.  A submission leaves its line to a judge or by an abort, and   *)
(* leaves its judge when it is finished or the judge is lost.              *)
(***************************************************************************)
EXTENDS Integers, Sequences, SequencesExt

CONSTANTS Submission, Handler, Priority, NoJudge

VARIABLES
    line,  \* the submissions that wait, by priority
    at,    \* the judge that has the submission, or NoJudge
    fits   \* input: the waiting submissions each judge could take

Waits(s) == \E p \in Priority : \E i \in DOMAIN line[p] : line[p][i] = s

\* h takes the i-th submission of line p before any other.
IsNext(h, p, i) ==
    /\ line[p][i] \in fits[h]
    /\ \A q \in Priority : \A j \in DOMAIN line[q] :
          line[q][j] \in fits[h] => p < q \/ (p = q /\ i <= j)

TakeFrom(p, i) == line' = [line EXCEPT ![p] = RemoveAt(@, i)]

\* Judge h is free and looks for work; its last submission is already off "held".
Look(h, held) ==
    \/ /\ ~\E p \in Priority : \E i \in DOMAIN line[p] : line[p][i] \in fits[h]
       /\ at' = held /\ UNCHANGED line
    \/ \E p \in Priority : \E i \in DOMAIN line[p] :
          /\ IsNext(h, p, i)
          /\ at' = [held EXCEPT ![line[p][i]] = h]
          /\ TakeFrom(p, i)

Free(h) == \A s \in Submission : at[s] # h

Enqueue(s, p) ==
    /\ ~Waits(s) /\ at[s] = NoJudge
    /\ line' = [line EXCEPT ![p] = Append(@, s)]
    /\ UNCHANGED at

Start(s, h) ==
    /\ ~Waits(s) /\ at[s] = NoJudge /\ Free(h)
    /\ at' = [at EXCEPT ![s] = h]
    /\ UNCHANGED line

Join(h) == Free(h) /\ Look(h, at)

Finish(s, h) == at[s] = h /\ Look(h, [at EXCEPT ![s] = NoJudge])

Lose(s, h) ==
    /\ at[s] = h
    /\ at' = [at EXCEPT ![s] = NoJudge]
    /\ UNCHANGED line

Abort(p, i) == TakeFrom(p, i) /\ UNCHANGED at

Init ==
    /\ line = [p \in Priority |-> <<>>]
    /\ at = [s \in Submission |-> NoJudge]

Next ==
    \/ \E s \in Submission, p \in Priority : Enqueue(s, p)
    \/ \E p \in Priority : \E i \in DOMAIN line[p] : Abort(p, i)
    \/ \E s \in Submission, h \in Handler : Start(s, h) \/ Finish(s, h) \/ Lose(s, h)
    \/ \E h \in Handler : Join(h)

Spec == Init /\ [][Next]_<<line, at>>
=============================================================================
