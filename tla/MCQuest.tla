------------------------------ MODULE MCQuest ------------------------------
EXTENDS QuestLifecycle, TLC

CONSTANTS w1, w2, w3, c1, c2

MCWorkers == {w1, w2, w3}
MCConditions == {c1, c2}

Kind(m, p, n, r) ==
    [mode |-> m, participation |-> p, headcount |-> n, proofRequired |-> r]

MCKinds ==
    {Kind("FCFS", "GROUP", 3, TRUE), Kind("FCFS", "GROUP", 3, FALSE),
     Kind("CANDIDATE", "GROUP", 3, FALSE), Kind("FCFS", "SINGLE", 1, FALSE),
     Kind("CANDIDATE", "GROUP", 2, TRUE), Kind("CANDIDATE", "SINGLE", 1, TRUE)}

MCExtras == {{"EDIT"}, {"ADMIN"}, {"DISPUTE"}}

Symmetry == Permutations(MCWorkers) \union Permutations(MCConditions)
=============================================================================
