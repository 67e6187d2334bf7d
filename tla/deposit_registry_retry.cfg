SPECIFICATION Spec
CONSTANTS
  q1 = q1
  q2 = q2
  alice = alice
  bob = bob
  c1 = c1
  c2 = c2
  forged = forged
  AccountIds = {alice, bob}
  RequestIds = {q1}
  Coins = {c1, c2}
  Genuine = {c1, c2}
  Value <- MCValue
  Requests <- OneRequest
  Handlers = {h1}
  InitialBalances = {0}
  MaxBalance = 4
  Configurations = {TRUE}
  NoRequest = NoRequest
  NoId = NoId
INVARIANT RetryReplays
