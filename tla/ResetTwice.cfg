SPECIFICATION Spec
CONSTANTS
  a = a  A = A
  Emails = {a}
  Norm <- MCNorm
  Mails = {m1}
  Resets = {r1, r2}
  Clicks = {c1}
  Ttl <- MCTtl
  Required = TRUE
  RateLimit = 1  RateWindow = 2
  MaxTokens = 3  MaxTime = 2  MaxRestarts = 0
INVARIANT ResetLinkSpentOnce
CHECK_DEADLOCK FALSE
