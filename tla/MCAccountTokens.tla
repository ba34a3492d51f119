-------------------------- MODULE MCAccountTokens --------------------------
EXTENDS AccountTokens, TLC

CONSTANTS a, A     \* an address in lower case, and in capitals

MCNorm == [e \in Emails |-> IF e = A THEN a ELSE e]
MCTtl == [k \in Kinds |-> IF k = "verify_email" THEN 3 ELSE 1]

Slots == Permutations(Mails) \cup Permutations(Resets) \cup Permutations(Clicks)
=============================================================================
