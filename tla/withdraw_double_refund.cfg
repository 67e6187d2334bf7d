SPECIFICATION Spec
CONSTANTS
  r1 = r1
  r2 = r2
  alice = alice
  bob = bob
  good = good
  other = other
  bad = bad
  AccountIds = {alice}
  RequestIds = {r1}
  Messages = {good, other, bad}
  Signable = {good, other}
  Denominations = {1, 2}
  Requests <- BadRequests
  Handlers = {h1, h2}
  Recoverer = recoverer
  InitialBalances = {1}
  DepositAmounts = {}
  MaxBalance = 4
  DbFaults = FALSE
  NoRequest = NoRequest
  NoSig = NoSig
INVARIANT MoneyConserved
