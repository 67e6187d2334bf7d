SPECIFICATION MCSpec
CONSTANTS
  Denominations <- MCDenominations
  Wallets = {payer, payee}
  AccountIds = {alice, bob}
  Serials = {s1, s2}
  Files = {f1, f2}
  Amounts = {1, 3}
  InitialBalances = {3}
  Served = {1, 2}
  MaxHeld = 3
  NoWallet = NoWallet
  NoAccount = NoAccount
SYMMETRY Symmetry
INVARIANT TypeOK
INVARIANT CoinsAccountedFor
INVARIANT MoneyConserved
INVARIANT RespendNeedsCutOff
INVARIANT HeldCoinsAreGood
INVARIANT AccountsStayUsable
INVARIANT SelectsBest
INVARIANT DecomposesShortest
CHECK_DEADLOCK FALSE
