------------------------- MODULE DispatcherRefinement -------------------------
(***************************************************************************)
(* How JudgeBridge implements Dispatcher: a line is what stands between    *)
(* two markers of the queue.                                               *)
(***************************************************************************)
EXTENDS JudgeBridge

PositionIn(q, x) == CHOOSE i \in DOMAIN q : q[i] = x

StartOf(q, p) == IF p = 0 THEN 0 ELSE PositionIn(q, p - 1)

LineOf(q, p) == SubSeq(q, StartOf(q, p) + 1, PositionIn(q, p) - 1)

Lines == [p \in Priority |-> LineOf(queue, p)]

Fits == [h \in Handler |-> {s \in Submission : CanJudge(h, s, nodeMap[s])}]

Abstract == INSTANCE Dispatcher WITH line <- Lines, at <- submissionMap, fits <- Fits

\* As long as no call fails, the marker list, the two maps and the judges' set of
\* judge_list.py behave as one line for each priority.
ImplementsDispatcher == Abstract!Spec
=============================================================================
