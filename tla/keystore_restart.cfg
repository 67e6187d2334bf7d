\* Two processes, one denomination and the CA key, four key pairs: both
\* processes create both keys, or one of them creates again after a crash.
CONSTANTS
  d1 = d1
  ca = ca
  Processes = {p1, p2}
  Denominations = {d1}
  Ca = ca
  N = 2
  Order <- MCOrder
  KeyIds = {k1, k2, k3, k4}
  Absent = Absent
  Torn = Torn
  NoKey = NoKey
SYMMETRY Symmetry
SPECIFICATION Spec
INVARIANTS KeysInUseOnDisk HonouredLater
PROPERTY SettledKeysStay
