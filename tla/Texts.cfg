SPECIFICATION Spec
CONSTANTS
  i1 = i1
  e1 = e1  e2 = e2  a1 = a1  a2 = a2  b1 = b1  A = A  B = B
  Invs = {i1}
  Texts = {"t"}  Images = {"i"}  Names = {"n"}  Banks = {"b"}  None = "none"
  Drafts <- MCDrafts
  Editors = {e1, e2}
  Slots = {a1, a2, b1}
  Pages = {A, B}
  PageOf <- MCPageOf
  Faults = {"error", "lost"}
  MaxRequests = 3
SYMMETRY Sym
INVARIANTS TypeOK EveryPublicationCounts NothingHalfPublished ListAgrees
PROPERTIES MarkedByToggle
CHECK_DEADLOCK FALSE
