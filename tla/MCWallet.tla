------------------------------ MODULE MCWallet ------------------------------
(***************************************************************************)
(* Wallet with a payer and a payee; and, in a purse, the two greedy        *)
(* functions it takes from WalletCoins.  The coins of the commands are too *)
(* few to tell a good selection from a bad one, so the purse is apart from *)
(* theirs and holds any number of coins up to MaxHeld of each              *)
(* denomination; the commands run beside the empty purse only.             *)
(***************************************************************************)
EXTENDS Wallet, Purse, TLC

CONSTANT MaxHeld   \* coins of one denomination the purse holds at most

\* The bank serves the first two.
MCDenominations == <<1, 2, 4, 8>>

\* Serials and files are interchangeable.
Symmetry == Permutations(Serials) \cup Permutations(Files)

-----------------------------------------------------------------------------
Purses == [Kinds -> 0..MaxHeld]

MCInit == Init /\ purse \in Purses

MCNext == Size(purse) = 0 /\ Next /\ UNCHANGED purse

MCSpec == MCInit /\ [][MCNext]_<<vars, purse>>
=============================================================================
