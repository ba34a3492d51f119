SPECIFICATION LSpec
CONSTANTS
  w = w  x = x  g1 = g1  t1 = t1  d1 = d1  d2 = d2
  Weddings = {w, x}
  Tables = {t1}
  Guests = {g1}
  Decos = {d1, d2}
  WeddingOf <- MCWeddingOf
  MaxSeat = 0
  Caps = {1}  Places = {1}  Spots = {1, 2}  FirstCap = 1  FirstPlace = 1
  Faults = {"midway", "lost"}
  Handlers = {h1, h2}
  Null = Null
  Couple = w
  Others <- MCOthers
SYMMETRY Slots
INVARIANTS SeatedAtLiveTables TenantsApart LayerAgrees
PROPERTY PlanKept
