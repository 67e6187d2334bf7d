SPECIFICATION Spec
CONSTANTS
  bankA = bankA
  bankB = bankB
  a1 = a1
  a2 = a2
  a3 = a3
  h1 = h1
  h2 = h2
  Banks = {bankA, bankB}
  Admin = bankA
  Coins = {a1, a2}
  Issuer <- MCIssuer
  Value <- MCValue
  MaxValue = 1
  Submitters = {h1, h2}
  Settlers = {h1, h2}
  CapValues = {0, 1}
  MaxAmount = 9
  NoCap = NoCap
  NoJob = NoJob
  NoBank = NoBank
INVARIANT OnlyRacesLose
INVARIANT OnlyRacesClaimTwice
INVARIANT OvershootBounded
VIEW CapView
SYMMETRY Symmetry
