SPECIFICATION Spec
CONSTANTS
  alice = alice
  bob = bob
  k1 = k1
  k2 = k2
  n1 = n1
  n2 = n2
  AccountIds = {alice, bob}
  Keys = {k1, k2}
  Nonces = {n1, n2}
  Requests <- MCRequests
  Handlers = {h1, h2}
  Skew = 2
  TTL = 4
  PruneInterval = 2
  MaxStall = 1
  MaxTime = 9
  NoKey = NoKey
  NoRequest = NoRequest
INVARIANT TypeOK
INVARIANT ReplayBound
INVARIANT OneKeyPerAccount
