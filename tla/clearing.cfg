\* Two handlers, one coin deposited at two banks and a second coin.
SPECIFICATION ClearingSpec
CONSTANTS
  bankA = bankA
  bankB = bankB
  q1 = q1
  a1 = a1
  a2 = a2
  Banks = {bankA, bankB}
  Admin = bankA
  Coins = {a1, a2}
  Issuer <- MCIssuer
  Value <- MCValue
  MaxValue = 2
  Submitters = {h1, h2}
  Settlers = {}
  CapValues = {2}
  MaxAmount = 2
  Ids = {q1}
  Requests <- MCRequests
  NoCap = NoCap
  NoJob = NoJob
  NoBank = NoBank
  NoRequest = NoRequest
VIEW View
INVARIANT TypeOK
INVARIANT RepliesAreTrue
INVARIANT EvidenceKept
INVARIANT RegisteredIsCredited
INVARIANT CreditIsBacked
PROPERTY NetworkKeepsContract
