---------------------------- MODULE MCInvitations ----------------------------
EXTENDS Invitations, TLC

\* Rows of one table, and slots, are interchangeable.
Symmetry == Permutations(Guests) \cup Permutations(Invs) \cup Permutations(Handlers)
=============================================================================
