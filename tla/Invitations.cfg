SPECIFICATION Spec
CONSTANTS
  Guests = {g1, g2}
  Invs = {i1, i2}
  Phones = {p1}
  Answers = {"confirmed", "declined"}
  Handlers = {h1, h2}
  Devices = {d1}
  Null = Null
  MaxRequests = 3
SYMMETRY Symmetry
INVARIANTS TypeOK LinkedIsLive AnswersFromOwnLink OkMeansStored
CHECK_DEADLOCK FALSE
