------------------------- MODULE MCDecorationLayer -------------------------
EXTENDS DecorationLayer, TLC

CONSTANTS w, x, g1, t1, d1, d2

\* A decoration for each wedding, and a table and a guest of the couple's.
MCWeddingOf == [r \in Rows |-> IF r = d2 THEN x ELSE w]

\* The requests that connect rows, or remove what they are connected to.
MCOthers ==
  {q \in Requests :
     \/ q.op \in {"createTable", "deleteTable", "assign", "deleteDeco"}
     \/ q.op \in {"createDeco", "attach"} /\ q.place = FirstPlace}

Slots == Permutations(Handlers)
=============================================================================
