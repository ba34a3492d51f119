----------------------------- MODULE MCOtpFlow -----------------------------
EXTENDS OtpFlow, TLC

CONSTANTS i1, i2, p1, p2, MaxDisturbances

\* Both invitations accept the phone p1, none accepts p2.
MCAccepted == [i \in Invitations |-> {p1}]

Slots == Permutations(Verifies) \cup Permutations(Invitations)

\* What the run combines: restarts, deleted invitations and failed increments.
Disturbances ==
  restarts + Cardinality(Invitations \ live)
  + Cardinality({o \in DOMAIN otps : otps[o].uncounted > 0})

\* Bound of the exploration.
FewDisturbances == Disturbances <= MaxDisturbances
=============================================================================
