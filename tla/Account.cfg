SPECIFICATION Spec
CONSTANTS
  a = a  A = A
  Emails = {a, A}
  Norm <- MCNorm
  Mails = {m1, m2}
  Resets = {r1, r2}
  Clicks = {c1}
  Ttl <- MCTtl
  Required = TRUE
  RateLimit = 1  RateWindow = 2
  MaxTokens = 3  MaxTime = 2  MaxRestarts = 1
SYMMETRY Slots
INVARIANTS LinksDieWithReset UsesBounded LiveLinksBounded MailsWithinBudget
PROPERTY PromiseKept
CHECK_DEADLOCK FALSE
