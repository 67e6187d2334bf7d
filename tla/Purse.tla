------------------------------- MODULE Purse --------------------------------
(***************************************************************************)
(* What decompose and select_exact (WalletCoins) should compute, stated    *)
(* for a purse: any bag of coins.                                          *)
(***************************************************************************)
EXTENDS WalletCoins, FiniteSetsExt

VARIABLE purse     \* a bag of coins

Total(bag)  == SumFunctionOnSet([i \in Kinds |-> bag[i] * Denominations[i]], Kinds)
Size(bag)   == SumFunctionOnSet(bag, Kinds)
Minus(b, c) == [i \in Kinds |-> b[i] - c[i]]

\* The bags of coins one can take out of b.
SubBags(b) == {c \in [Kinds -> 0..Max({b[i] : i \in Kinds})] : \A i \in Kinds : c[i] <= b[i]}

-----------------------------------------------------------------------------
(* Properties *)

\* "Correct for the powers-of-two denomination set" (wallet.rs, select_exact):
\* whenever some of the coins held make the amount, the greedy walk finds coins
\* held that make exactly it, and what it leaves is the best change: another
\* payment that the two together allowed can still be made.
SelectsBest ==
  \A c \in SubBags(purse) :
    LET s == SelectExact(purse, Total(c)) IN
    /\ s \in SubBags(purse)
    /\ Total(s) = Total(c)
    /\ \A d \in SubBags(Minus(purse, c)) : SelectExact(Minus(purse, s), Total(d)) # NoBag

\* A withdrawal takes exactly the amount from the account, in the fewest coins
\* (wallet.rs, decompose): no coins make the amount of their own total with fewer.
DecomposesShortest ==
  Total(Decompose(Total(purse))) = Total(purse) /\ Size(Decompose(Total(purse))) <= Size(purse)
=============================================================================
