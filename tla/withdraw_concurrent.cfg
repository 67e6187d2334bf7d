SPECIFICATION Spec
CONSTANTS
  r1 = r1
  r2 = r2
  alice = alice
  bob = bob
  good = good
  other = other
  bad = bad
  AccountIds = {alice, bob}
  RequestIds = {r1, r2}
  Messages = {good, other, bad}
  Signable = {good, other}
  Denominations = {1, 2}
  Requests <- SignableRequests
  Handlers = {h1, h2}
  Recoverer = recoverer
  InitialBalances = {0, 2}
  DepositAmounts = {1}
  MaxBalance = 2
  DbFaults = TRUE
  NoRequest = NoRequest
  NoSig = NoSig
INVARIANT TypeOK
INVARIANT RepliesMatchRecord
INVARIANT MoneyConserved
PROPERTY RefinesContract
