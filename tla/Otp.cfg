SPECIFICATION Spec
CONSTANTS
  i1 = i1  i2 = i2  p1 = p1  p2 = p2
  Invitations = {i1, i2}
  Phones = {p1, p2}
  Devices = {d1}
  Accepted <- MCAccepted
  Requests = {r1}
  Verifies = {v1, v2}
  MaxAttempts = 1
  OtpTtl = 2  AccessTtl = 1  TrustTtl = 2
  Bypass = TRUE
  RateLimit = 1  RateWindow = 2
  MaxOtps = 2  MaxTime = 2  MaxRestarts = 1  MaxUncounted = 1
  MaxDisturbances = 1
CONSTRAINT FewDisturbances
SYMMETRY Slots
INVARIANTS TypeOK WrongCodesBounded RedemptionsBounded AccessBacked
           UsableBounded CodesWithinBudget RefusalIsEarned
PROPERTIES TrustedDeviceKeepsAccess
CHECK_DEADLOCK FALSE
