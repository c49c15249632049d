----------------------- MODULE MCContestParticipation -----------------------
(* A small instance of ContestParticipation: two users, two requests at once. *)
EXTENDS ContestParticipation, TLC

CONSTANTS u1, u2, r1, r2, s1, s2, s3

MCSymmetry == Permutations({r1, r2}) \cup Permutations({s1, s2, s3})

Scenario(joined, out, eds, supers, spam, kinds, requests, actions) ==
    [joined |-> joined, out |-> out, editors |-> eds, superusers |-> supers,
     spammers |-> spam, kinds |-> kinds, requests |-> requests, admin |-> actions]

\* Two users join and leave, and the contest is edited; an editor joins; users submit up
\* to the limits, in the contest or after it, or with the permission to exceed the second;
\* a user is disqualified, or disqualified already, and may be a superuser.
MCScenarios ==
    {Scenario({}, {}, {}, {}, {}, {"join", "leave"}, 3, 1),
     Scenario({}, {}, {u1}, {}, {}, Kinds, 2, 1),
     Scenario({u1}, {}, {}, {}, {u2}, {"submit"}, 3, 0),
     Scenario({u1}, {}, {}, {}, {u2}, {"submit"}, 2, 2),
     Scenario({u1}, {}, {}, {}, {}, Kinds \ {"submit"}, 2, 2),
     Scenario({u1}, {u1}, {}, {}, {}, Kinds \ {"submit"}, 2, 2),
     Scenario({u1}, {u1}, {}, {u1}, {}, {"join", "leave", "profile"}, 2, 1)}
=============================================================================
