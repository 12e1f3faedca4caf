-------------------------- MODULE MCPlanningSchedule --------------------------
(* Small instances of PlanningSchedule for TLC. *)
EXTENDS PlanningSchedule, TLC

CONSTANTS s1, s2, a1, a2, m1, c1

Symmetry == Permutations(Sessions) \cup Permutations(Activities)

OneChapter == [t \in Tasks |-> c1]

\* an item with an APU that takes some days and one without an APU or quantity
SmallItems == {[ch |-> c1, qty |-> 3, apu |-> TRUE, yield |-> 1],
               [ch |-> c1, qty |-> 0, apu |-> FALSE, yield |-> 0]}
SmallBoqs  == [Activities -> SmallItems]
\* everything with chapters, without or with milestones, and only what has an APU without chapters
SmallChoices ==
    {[chapters |-> c, onlyPositive |-> ~c, withoutApu |-> c, milestones |-> c /\ m, min |-> 0, crew |-> 2] :
        c \in BOOLEAN, m \in BOOLEAN}

SmallLags  == {-1, 1}
SomeKinds  == {[type |-> "FS", lag |-> -1], [type |-> "FF", lag |-> 1]}
=============================================================================
