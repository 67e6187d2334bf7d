SPECIFICATION FairSpec
CONSTANTS
  q1 = q1
  q2 = q2
  alice = alice
  bob = bob
  c1 = c1
  c2 = c2
  forged = forged
  AccountIds = {alice, bob}
  RequestIds = {q1, q2}
  Coins = {c1, c2, forged}
  Genuine = {c1, c2}
  Value <- MCValue
  Requests <- SharedCoinRequests
  Handlers = {h1, h2}
  InitialBalances = {2}
  MaxBalance = 4
  Configurations = {TRUE, FALSE}
  NoRequest = NoRequest
  NoId = NoId
INVARIANT TypeOK
INVARIANT SpentIffDeposited
INVARIANT RepliesAreTrue
INVARIANT MoneyConserved
INVARIANT CreditedOnlyIfRegistered
PROPERTY RefinesContract
PROPERTY DepositEnds
VIEW View
