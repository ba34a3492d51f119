------------------------------ MODULE MCTasks ------------------------------
EXTENDS Tasks, TLC

CONSTANTS p1, p2

MCBoardOf == [s \in Slots |-> s]

Sym == Permutations(Slots)
=============================================================================
