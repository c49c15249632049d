------------------------ MODULE MCSubmissionLifecycle ------------------------
(* Small instances of SubmissionLifecycle: one submission, two judges. *)
EXTENDS SubmissionLifecycle

CONSTANTS s1, h1, h2, n1, n2, p1, w1, w2

\* Site processes are alike.
MCSymmetry == Permutations({w1, w2})

MCNameOf == [h \in Handler |-> IF h = h1 THEN n1 ELSE n2]
MCProblemOf == [s \in Submission |-> p1]
MCProblemLists == {{p1}}
MCRequests == {[id |-> s1, judge |-> AnyJudge, priority |-> 2]}
MCScript == <<"grading-begin", "test-case-status">>
MCVerdicts == {"grading-end", "compile-error", "internal-error"}
=============================================================================
