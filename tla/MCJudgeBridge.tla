---------------------------- MODULE MCJudgeBridge ----------------------------
(* Small instances of JudgeBridge. *)
EXTENDS DispatcherRefinement

CONSTANTS s1, s2, h1, h2, h3, n1, n2, p1, p2

\* The second submission needs a problem only some judges have.
MCProblemOf == [s \in Submission |-> IF s = s1 THEN p1 ELSE p2]

\* Two names for three connections: h3 is the judge of h1 coming back.
MCNameOf == [h \in Handler |-> IF h = h2 THEN n2 ELSE n1]

\* h1 and h3 are two connections of one judge: exchanging them changes nothing.
MCSymmetry == Permutations({h1, h3})

MCProblemLists == {{p1}, {p1, p2}}

MCRequests ==
    {[id |-> s1, judge |-> AnyJudge, priority |-> 1],
     [id |-> s2, judge |-> AnyJudge, priority |-> 0],
     [id |-> s1, judge |-> n1, priority |-> 2]}

MCScript == <<>>
MCScriptProgress == <<"test-case-status">>
MCVerdicts == {"grading-end"}
=============================================================================
