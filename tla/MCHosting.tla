----------------------------- MODULE MCHosting -----------------------------
EXTENDS Hosting, TLC

CONSTANTS a, h1, h2, g1, g2

\* A first version, one whose migration follows, one of a branch with its own, and a
\* commit of the main branch deployed again.
MCHistory == <<{1}, {1, 2}, {1, 3}, {1}>>

\* Bounds: deployments alone go through everything, the photographs of a host only
\* through the scripts that follow a first or successful deployment or a rollback,
\* on two versions.
NoPhotos ==
  /\ rows = [p \in Photos |-> NoRow] /\ files = {} /\ parted = {}
  /\ hand = [h \in Handlers |-> Idle]
AfterSuccess ==
  exit \in {"none", "done", "rolledBack"} /\ {code, latest, app.image, before.image} \subseteq 0 .. 2
Focus == NoPhotos \/ AfterSuccess

Sym == Permutations(Handlers) \cup Permutations(Pages)
=============================================================================
