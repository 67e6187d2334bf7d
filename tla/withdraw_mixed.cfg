SPECIFICATION FairSpec
CONSTANTS
  r1 = r1
  r2 = r2
  alice = alice
  bob = bob
  good = good
  other = other
  bad = bad
  AccountIds = {alice, bob}
  RequestIds = {r1, r2}
  Messages = {good, other, bad}
  Signable = {good, other}
  Denominations = {1, 2}
  Requests <- MixedRequests
  Handlers = {h1, h2, h3}
  Recoverer = recoverer
  InitialBalances = {2}
  DepositAmounts = {}
  MaxBalance = 8
  DbFaults = FALSE
  NoRequest = NoRequest
  NoSig = NoSig
INVARIANT NoRefundedSignature
INVARIANT NothingLost
PROPERTY OutcomeIsFinal
PROPERTY RecoveryLeavesNothingOpen
PROPERTY RecoveryDecides
