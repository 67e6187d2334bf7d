---------------------------- MODULE WalletCoins -----------------------------
(***************************************************************************)
(* How the wallet makes an amount from denominations (wallet.rs, decompose *)
(* and select_exact).  Coins are counted per denomination: a bag of coins  *)
(* is a function from the positions of DENOMINATIONS to Nat.  Both loops   *)
(* walk the denominations from the largest to the smallest and carry what  *)
(* remains of the amount.                                                  *)
(***************************************************************************)
EXTENDS Naturals, Sequences

CONSTANTS Denominations   \* DENOMINATIONS of digicash-proto, ascending

ASSUME DenominationsAssumption ==
  /\ Denominations \in Seq(Nat \ {0})
  /\ Denominations # << >>
  /\ Denominations[1] = 1
  /\ \A i \in 1..(Len(Denominations) - 1) : Denominations[i + 1] = 2 * Denominations[i]

Last     == Len(Denominations)
Kinds    == 1..Last
CoinBags == [Kinds -> Nat]
NoBag    == << >>               \* None: the amount cannot be made

Smaller(m, n) == IF m < n THEN m ELSE n

\* Wrong variant: a denomination is used once only.
DecomposeOnce(amount) ==
  LET left[i \in 1..(Last + 1)] ==
        IF i = Last + 1 THEN amount
        ELSE left[i + 1] - Denominations[i] * Smaller(1, left[i + 1] \div Denominations[i])
  IN [i \in Kinds |-> Smaller(1, left[i + 1] \div Denominations[i])]

\* decompose: each denomination as often as it fits into the rest.
Decompose(amount) ==
  LET left[i \in 1..(Last + 1)] ==
        IF i = Last + 1 THEN amount ELSE left[i + 1] % Denominations[i]
  IN [i \in Kinds |-> left[i + 1] \div Denominations[i]]

\* Wrong variant: the coins are walked from the smallest to the largest.
SelectExactSmallestFirst(held, amount) ==
  LET left[i \in 0..Last] ==
        IF i = 0 THEN amount
        ELSE left[i - 1]
               - Denominations[i] * Smaller(held[i], left[i - 1] \div Denominations[i])
  IN IF left[Last] = 0
       THEN [i \in Kinds |-> Smaller(held[i], left[i - 1] \div Denominations[i])]
       ELSE NoBag

\* select_exact: each coin held is taken if it fits into the rest, so of a
\* denomination as many as are held and fit; the rest must come to 0.
SelectExact(held, amount) ==
  LET left[i \in 1..(Last + 1)] ==
        IF i = Last + 1 THEN amount
        ELSE left[i + 1]
               - Denominations[i] * Smaller(held[i], left[i + 1] \div Denominations[i])
  IN IF left[1] = 0
       THEN [i \in Kinds |-> Smaller(held[i], left[i + 1] \div Denominations[i])]
       ELSE NoBag
=============================================================================
