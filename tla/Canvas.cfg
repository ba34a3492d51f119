SPECIFICATION CSpec
CONSTANTS
  w = w  g1 = g1  g2 = g2  t1 = t1  t2 = t2  d1 = d1  d2 = d2
  Weddings = {w}
  Me = w
  Tables = {t1, t2}
  Guests = {g1, g2}
  Decos = {d1, d2}
  WeddingOf <- MCWeddingOf
  MaxSeat = 2
  Caps = {1, 2}  Places = {1, 2}  Spots = {1, 2}  FirstCap = 1  FirstPlace = 1
  Faults = {"midway", "lost"}
  Handlers = {h1}
  Null = Null
SYMMETRY Sym
INVARIANTS ShownOnce AgreesWithServer
