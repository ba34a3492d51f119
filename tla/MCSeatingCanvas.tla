-------------------------- MODULE MCSeatingCanvas --------------------------
EXTENDS SeatingCanvas, TLC

CONSTANTS w, g1, g2, t1, t2, d1, d2

MCWeddingOf == [r \in Rows |-> w]

Sym == Permutations(Tables) \cup Permutations(Decos)
       \cup Permutations(Handlers)
=============================================================================
