SPECIFICATION ResolverSpec
CONSTANTS
    Users = 3
    Problems = 2
    Contests <- MCContests
    MaxHurry = 1
INVARIANTS ResolverTypeOK BoardSorted PageFollows FinalStanding NeverStuck
PROPERTIES TiesKept AnnouncedIsFinal
