SPECIFICATION Spec
CONSTANTS
  Guests = {g1, g2}
  Invs = {i1, i2}
  Phones = {p1}
  Answers = {"confirmed"}
  Handlers = {h1, h2}
  Devices = {d1}
  Null = Null
  MaxRequests = 3
SYMMETRY Symmetry
INVARIANT FamilyAnswersTogether
CHECK_DEADLOCK FALSE
