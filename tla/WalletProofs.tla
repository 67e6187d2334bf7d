---------------------------- MODULE WalletProofs ----------------------------
(***************************************************************************)
(* Proofs about Wallet, for every number of wallets, accounts, serials and *)
(* files and every set of denominations.                                   *)
(***************************************************************************)
EXTENDS Wallet, Purse, SumTheorems

\* The part of TypeOK the proofs need.
Shapes ==
  /\ coins \in [Wallets -> SUBSET Coins]
  /\ files \in [Files -> SUBSET Coins]
  /\ step \in [Wallets -> Steps]
  /\ batch \in [Wallets -> SUBSET Coins]

\* A coin that does not depend on a store any more.
Kept(c) ==
  \/ \E f \in Files : c \in files[f]
  \/ c \in spent \/ c \in undelivered \/ c \in overwritten

\* Every coin signed is in a store, on its way to one, or kept elsewhere.
PlacedInv ==
  \A c \in issued :
    \/ \E w \in Wallets : c \in coins[w]
    \/ \E w \in Wallets : step[w] = "store" /\ c \in batch[w]
    \/ Kept(c)

\* What a spend still has to remove is kept elsewhere.
RemovalInv ==
  \A w \in Wallets : step[w] = "remove" => \A c \in batch[w] : Kept(c)

\* The inductive invariant behind CoinsAccountedFor.
IInv == Shapes /\ PlacedInv /\ RemovalInv

-----------------------------------------------------------------------------
LEMMA InitInv == Init => IInv
BY DEF Init, IInv, Shapes, PlacedInv, RemovalInv, Steps

\* A step that gives no coin away and starts no removal keeps the invariant.
LEMMA QuietInv ==
  ASSUME IInv, NEW w \in Wallets, NEW s \in Steps \ {"store", "remove"},
         NEW b \in SUBSET Coins, step[w] # "store",
         step' = [step EXCEPT ![w] = s], batch' = [batch EXCEPT ![w] = b],
         UNCHANGED <<coins, files, issued, undelivered, overwritten>>,
         spent \subseteq spent'
  PROVE  IInv'
<1> USE DEF IInv
<1>1. Shapes'
  BY DEF Shapes
<1>2. ASSUME NEW c, Kept(c) PROVE Kept(c)'
  BY <1>2 DEF Kept
<1>3. PlacedInv'
  BY <1>2 DEF PlacedInv, Shapes
<1>4. RemovalInv'
  BY <1>2 DEF RemovalInv, Shapes
<1> QED BY <1>1, <1>3, <1>4

LEMMA WithdrawCoinInv ==
  ASSUME IInv, NEW w \in Wallets, WithdrawCoin(w)
  PROVE  IInv'
<1> PICK i \in Kinds :
      /\ step[w] = "withdraw"
      /\ \/ \E s \in Serials :
              /\ issued' = issued \cup {[serial |-> s, kind |-> i]}
              /\ Goto(w, "store", [due[w] EXCEPT ![i] = @ - 1], {[serial |-> s, kind |-> i]})
         \/ Finish(w) /\ UNCHANGED issued
      /\ UNCHANGED <<identities, accounts, spent, disk, past>>
  BY DEF WithdrawCoin, FreshSerials
<1>0. UNCHANGED <<coins, files, spent, undelivered, overwritten>>
  BY DEF disk, past
<1>1. ASSUME NEW s \in Serials,
             issued' = issued \cup {[serial |-> s, kind |-> i]},
             Goto(w, "store", [due[w] EXCEPT ![i] = @ - 1], {[serial |-> s, kind |-> i]})
      PROVE  IInv'
  <2> DEFINE c == [serial |-> s, kind |-> i]
  <2>1. c \in Coins
    BY DEF Coins
  <2>2. step' = [step EXCEPT ![w] = "store"] /\ batch' = [batch EXCEPT ![w] = {c}]
    BY <1>1 DEF Goto
  <2>3. \A d : Kept(d) => Kept(d)'
    BY <1>0 DEF Kept
  <2> HIDE DEF c
  <2>4. Shapes'
    BY <1>0, <2>1, <2>2 DEF IInv, Shapes, Steps
  <2>5. issued' = issued \cup {c}
    BY <1>1 DEF c
  <2>6. PlacedInv'
    BY <1>0, <2>2, <2>3, <2>5 DEF IInv, PlacedInv, Shapes
  <2>7. RemovalInv'
    BY <2>2, <2>3 DEF IInv, RemovalInv, Shapes
  <2> QED BY <2>4, <2>6, <2>7 DEF IInv
<1>2. ASSUME Finish(w), UNCHANGED issued PROVE IInv'
  <2>1. step' = [step EXCEPT ![w] = "idle"] /\ batch' = [batch EXCEPT ![w] = {}]
    BY <1>2 DEF Finish, Goto
  <2>2. step[w] # "store" /\ "idle" \in Steps \ {"store", "remove"} /\ {} \in SUBSET Coins
    BY DEF Steps
  <2> QED BY <1>0, <1>2, <2>1, <2>2, QuietInv
<1> QED BY <1>1, <1>2

LEMMA PutCoinInv ==
  ASSUME IInv, NEW w \in Wallets, PutCoin(w)
  PROVE  IInv'
<1>0. /\ step[w] = "store"
      /\ coins' = [coins EXCEPT ![w] = coins[w] \cup batch[w]]
      /\ step' = [step EXCEPT ![w] = "idle"] \/ step' = [step EXCEPT ![w] = "withdraw"]
      /\ batch' = [batch EXCEPT ![w] = {}]
      /\ UNCHANGED <<files, issued, spent, undelivered, overwritten>>
  BY DEF PutCoin, PutCoins, Finish, Goto, bank, past
<1>1. \A d : Kept(d) => Kept(d)'
  BY <1>0 DEF Kept
<1>2. Shapes'
  BY <1>0 DEF IInv, Shapes, Steps
<1>3. PlacedInv'
  BY <1>0, <1>1 DEF IInv, PlacedInv, Shapes
<1>4. RemovalInv'
  BY <1>0, <1>1 DEF IInv, RemovalInv, Shapes
<1> QED BY <1>2, <1>3, <1>4 DEF IInv

LEMMA SpendInv ==
  ASSUME IInv, NEW w \in Wallets, NEW amount, NEW f \in Files, Spend(w, amount, f)
  PROVE  IInv'
<1> PICK s \in SUBSET coins[w] :
      /\ step[w] = "idle"
      /\ files' = [files EXCEPT ![f] = s]
      /\ overwritten' = overwritten \cup files[f]
      /\ Goto(w, IF s = {} THEN "idle" ELSE "remove", Empty, s)
      /\ UNCHANGED <<bank, identity, coins, account, undelivered, paidIn>>
  BY DEF Spend
<1>0. /\ step' = [step EXCEPT ![w] = IF s = {} THEN "idle" ELSE "remove"]
      /\ batch' = [batch EXCEPT ![w] = s]
      /\ UNCHANGED <<coins, issued, spent, undelivered>>
  BY DEF Goto, bank
<1>1. Shapes'
  BY <1>0 DEF IInv, Shapes, Steps
<1>2. \A d : Kept(d) => Kept(d)'
  BY <1>0 DEF Kept, IInv, Shapes
<1>3. \A c \in s : Kept(c)'
  BY DEF Kept, IInv, Shapes
<1>4. PlacedInv'
  BY <1>0, <1>2 DEF IInv, PlacedInv, Shapes
<1>5. RemovalInv'
  BY <1>0, <1>2, <1>3 DEF IInv, RemovalInv, Shapes
<1> QED BY <1>1, <1>4, <1>5 DEF IInv

LEMMA SpendFailsInv ==
  ASSUME IInv, NEW w \in Wallets, NEW amount, NEW f \in Files, SpendFails(w, amount, f)
  PROVE  IInv'
<1>0. /\ files' = [files EXCEPT ![f] = {}]
      /\ overwritten' = overwritten \cup files[f]
      /\ UNCHANGED <<coins, issued, spent, undelivered, step, batch>>
  BY DEF SpendFails, bank, memory
<1>1. \A d : Kept(d) => Kept(d)'
  BY <1>0 DEF Kept, IInv, Shapes
<1> QED BY <1>0, <1>1 DEF IInv, Shapes, PlacedInv, RemovalInv

LEMMA RemoveCoinInv ==
  ASSUME IInv, NEW w \in Wallets, RemoveCoin(w)
  PROVE  IInv'
<1> PICK c \in batch[w] :
      /\ step[w] = "remove"
      /\ coins' = [coins EXCEPT ![w] = coins[w] \ {c}]
      /\ \/ Finish(w)
         \/ Goto(w, "remove", Empty, batch[w] \ {c})
      /\ UNCHANGED <<bank, identity, files, past>>
  BY DEF RemoveCoin, DropCoin
<1>0. UNCHANGED <<files, issued, spent, undelivered, overwritten>>
  BY DEF bank, past
<1>1. \A d : Kept(d) => Kept(d)'
  BY <1>0 DEF Kept
<1>2. \/ step' = [step EXCEPT ![w] = "idle"] /\ batch' = [batch EXCEPT ![w] = {}]
      \/ step' = [step EXCEPT ![w] = "remove"] /\ batch' = [batch EXCEPT ![w] = batch[w] \ {c}]
  BY DEF Finish, Goto
<1>3. Shapes'
  BY <1>0, <1>2 DEF IInv, Shapes, Steps
<1>4. Kept(c)
  BY DEF IInv, RemovalInv
<1>5. PlacedInv'
  BY <1>0, <1>1, <1>2, <1>4 DEF IInv, PlacedInv, Shapes
<1>6. RemovalInv'
  BY <1>1, <1>2 DEF IInv, RemovalInv, Shapes
<1> QED BY <1>3, <1>5, <1>6 DEF IInv

LEMMA DepositCoinInv ==
  ASSUME IInv, NEW w \in Wallets, DepositCoin(w)
  PROVE  IInv'
<1> PICK c \in batch[w] :
      /\ step[w] = "deposit"
      /\ spent' = spent \cup {c} \/ spent' = spent
      /\ Finish(w) \/ Goto(w, "deposit", Empty, batch[w] \ {c})
      /\ UNCHANGED <<identities, accounts, issued, disk, past>>
  BY DEF DepositCoin
<1>0. UNCHANGED <<coins, files, issued, undelivered, overwritten>> /\ spent \subseteq spent'
  BY DEF disk, past
<1>1. batch[w] \ {c} \in SUBSET Coins /\ {} \in SUBSET Coins
  BY DEF IInv, Shapes
<1>2. CASE Finish(w)
  BY <1>0, <1>1, <1>2, QuietInv DEF Finish, Goto, Steps
<1>3. CASE Goto(w, "deposit", Empty, batch[w] \ {c})
  BY <1>0, <1>1, <1>3, QuietInv DEF Goto, Steps
<1> QED BY <1>2, <1>3

LEMMA FailInv ==
  ASSUME IInv, NEW w \in Wallets, Fail(w)
  PROVE  IInv'
<1>0. /\ step[w] # "idle"
      /\ undelivered' = IF step[w] = "store" THEN undelivered \cup batch[w] ELSE undelivered
      /\ step' = [step EXCEPT ![w] = "idle"]
      /\ batch' = [batch EXCEPT ![w] = {}]
      /\ UNCHANGED <<coins, files, issued, spent, overwritten>>
  BY DEF Fail, Finish, Goto, bank
<1>1. \A d : Kept(d) => Kept(d)'
  BY <1>0 DEF Kept
<1>2. Shapes'
  BY <1>0 DEF IInv, Shapes, Steps
<1>3. \A c \in batch[w] : step[w] = "store" => Kept(c)'
  BY <1>0 DEF Kept
<1>4. PlacedInv'
  BY <1>0, <1>1, <1>3 DEF IInv, PlacedInv, Shapes
<1>5. RemovalInv'
  BY <1>0, <1>1 DEF IInv, RemovalInv, Shapes
<1> QED BY <1>2, <1>4, <1>5 DEF IInv

\* Registration, and the steps that begin a withdrawal or a deposit, are quiet.
LEMMA OtherInv ==
  ASSUME IInv, NEW w \in Wallets,
         \/ \E a \in AccountIds : Register(w, a)
         \/ SetIdentity(w)
         \/ \E b \in InitialBalances : CreateAccount(w, b)
         \/ \E amount \in Amounts : Withdraw(w, amount)
         \/ \E f \in Files : Deposit(w, f)
  PROVE  IInv'
<1> DEFINE Moves(s, b) == /\ step' = [step EXCEPT ![w] = s]
                          /\ batch' = [batch EXCEPT ![w] = b]
<1>1. step[w] # "store" /\ UNCHANGED <<coins, files, issued, undelivered, overwritten, spent>>
  BY DEF Register, SetIdentity, CreateAccount, Withdraw, Deposit, bank, disk, past
<1>2. \/ \E s \in Steps \ {"store", "remove"} : Moves(s, {})
      \/ \E f \in Files : Moves("deposit", files[f])
  BY DEF Register, SetIdentity, CreateAccount, Withdraw, Deposit, Finish, Goto, Steps
<1>3. {} \in SUBSET Coins /\ \A f \in Files : files[f] \in SUBSET Coins
  BY DEF IInv, Shapes
<1>4. ASSUME NEW s \in Steps \ {"store", "remove"}, Moves(s, {}) PROVE IInv'
  BY <1>1, <1>3, <1>4, QuietInv
<1>5. ASSUME NEW f \in Files, Moves("deposit", files[f]) PROVE IInv'
  <2>1. "deposit" \in Steps \ {"store", "remove"}
    BY DEF Steps
  <2> QED BY <1>1, <1>3, <1>5, <2>1, QuietInv
<1> QED BY <1>2, <1>4, <1>5

LEMMA StepInv == IInv /\ [Next]_vars => IInv'
<1> SUFFICES ASSUME IInv, [Next]_vars PROVE IInv'
  OBVIOUS
<1>1. CASE UNCHANGED vars
  BY <1>1 DEF vars, IInv, Shapes, PlacedInv, RemovalInv, Kept
<1>2. CASE Next
  BY <1>2, WithdrawCoinInv, PutCoinInv, SpendInv, SpendFailsInv, RemoveCoinInv,
     DepositCoinInv, FailInv, OtherInv DEF Next
<1> QED BY <1>1, <1>2

\* IInv holds in every reachable state.
THEOREM Invariance == Spec => []IInv
BY InitInv, StepInv, PTL DEF Spec

\* For all wallets, amounts and failures a coin is lost only with the response
\* that carries its signature or with a bundle that is written over: what the
\* order "bundle first, then the removals" of wallet.rs, spend, is for.
THEOREM NoOtherLoss == Spec => []CoinsAccountedFor
<1>1. IInv => CoinsAccountedFor
  BY DEF IInv, PlacedInv, Kept, CoinsAccountedFor
<1> QED BY <1>1, Invariance, PTL

-----------------------------------------------------------------------------
(* Where a coin can be at the same time *)

\* A coin that has left its wallet: in a bundle, being deposited, or credited.
Out(c) ==
  \/ c \in spent
  \/ \E f \in Files : c \in files[f]
  \/ \E v \in Wallets : step[v] = "deposit" /\ c \in batch[v]

\* Only signed coins are about.
SignedInv ==
  /\ \A w \in Wallets : coins[w] \subseteq issued /\ batch[w] \subseteq issued
  /\ \A f \in Files : files[f] \subseteq issued
  /\ spent \subseteq issued

\* A coin in a store has not left it, except one a running spend removes or a
\* spend that was cut off did not remove.
HeldInv ==
  \A w \in Wallets : \A c \in coins[w] :
    Out(c) => c \in cutOff \/ (step[w] = "remove" /\ c \in batch[w])

\* A coin on its way to a store is nowhere else.
FreshInv ==
  \A w \in Wallets : step[w] = "store" => \A c \in batch[w] :
    /\ ~Out(c)
    /\ \A v \in Wallets : c \notin coins[v] /\ (v # w /\ step[v] = "store" => c \notin batch[v])

\* A coin is in one store.
ApartInv == \A v, w \in Wallets : v # w => coins[v] \cap coins[w] = {}

\* The inductive invariant behind RespendNeedsCutOff and HeldCoinsAreGood.
CleanInv ==
  Shapes /\ SignedInv /\ HeldInv /\ FreshInv /\ ApartInv /\ RespendNeedsCutOff

LEMMA CleanInit == Init => CleanInv
BY DEF Init, CleanInv, Shapes, SignedInv, HeldInv, FreshInv, ApartInv, RespendNeedsCutOff,
       Out, Steps

\* A step that ends or goes on with a command whose coins are out already.
LEMMA CleanQuiet ==
  ASSUME CleanInv, NEW w \in Wallets, NEW s \in Steps \ {"store", "remove"},
         NEW b \in SUBSET Coins, b \subseteq issued, \A c \in b : s = "deposit" => Out(c),
         step[w] \notin {"store", "remove"},
         step' = [step EXCEPT ![w] = s], batch' = [batch EXCEPT ![w] = b],
         UNCHANGED <<coins, files, issued, cutOff>>,
         \A c \in spent' : Out(c), spent' \subseteq issued
  PROVE  CleanInv'
<1> USE DEF CleanInv
<1>1. Shapes'
  BY DEF Shapes
<1>2. \A c : Out(c)' => Out(c)
  BY DEF Out, Shapes
<1>3. SignedInv'
  BY DEF SignedInv, Shapes
<1>4. HeldInv'
  BY <1>2 DEF HeldInv, Shapes
<1>5. FreshInv'
  BY <1>2 DEF FreshInv, Shapes
<1>6. ApartInv' /\ RespendNeedsCutOff'
  BY DEF ApartInv, RespendNeedsCutOff
<1> QED BY <1>1, <1>3, <1>4, <1>5, <1>6

LEMMA CleanWithdrawCoin ==
  ASSUME CleanInv, NEW w \in Wallets, WithdrawCoin(w)
  PROVE  CleanInv'
<1> PICK i \in Kinds :
      /\ step[w] = "withdraw"
      /\ \/ \E s \in Serials \ {c.serial : c \in issued} :
              /\ issued' = issued \cup {[serial |-> s, kind |-> i]}
              /\ Goto(w, "store", [due[w] EXCEPT ![i] = @ - 1], {[serial |-> s, kind |-> i]})
         \/ Finish(w) /\ UNCHANGED issued
      /\ UNCHANGED <<identities, accounts, spent, disk, past>>
  BY DEF WithdrawCoin, FreshSerials
<1>0. UNCHANGED <<coins, files, spent, cutOff>>
  BY DEF disk, past
<1>1. ASSUME NEW s \in Serials \ {c.serial : c \in issued},
             issued' = issued \cup {[serial |-> s, kind |-> i]},
             Goto(w, "store", [due[w] EXCEPT ![i] = @ - 1], {[serial |-> s, kind |-> i]})
      PROVE  CleanInv'
  <2> DEFINE c == [serial |-> s, kind |-> i]
  <2>1. c \in Coins /\ c.serial = s
    BY DEF Coins
  <2>2. step' = [step EXCEPT ![w] = "store"] /\ batch' = [batch EXCEPT ![w] = {c}]
    BY <1>1 DEF Goto
  <2>3. c \notin issued
    BY <2>1
  <2>4. issued' = issued \cup {c}
    BY <1>1
  <2> HIDE DEF c
  <2> USE DEF CleanInv
  <2>5. Shapes'
    BY <1>0, <2>1, <2>2 DEF Shapes, Steps
  <2>6. \A d : Out(d)' => Out(d)
    BY <1>0, <2>2 DEF Out, Shapes
  <2>7. SignedInv'
    BY <1>0, <2>2, <2>4 DEF SignedInv, Shapes
  <2>8. HeldInv'
    BY <1>0, <2>2, <2>6 DEF HeldInv, Shapes
  <2>9. ~Out(c) /\ \A v \in Wallets : c \notin coins[v] /\ c \notin batch[v]
    BY <2>3 DEF Out, SignedInv
  <2>10. FreshInv'
    BY <1>0, <2>2, <2>6, <2>9 DEF FreshInv, Shapes
  <2>11. ApartInv' /\ RespendNeedsCutOff'
    BY <1>0 DEF ApartInv, RespendNeedsCutOff
  <2> QED BY <2>5, <2>7, <2>8, <2>10, <2>11
<1>2. ASSUME Finish(w), UNCHANGED issued PROVE CleanInv'
  <2>1. step' = [step EXCEPT ![w] = "idle"] /\ batch' = [batch EXCEPT ![w] = {}]
    BY <1>2 DEF Finish, Goto
  <2>2. /\ step[w] \notin {"store", "remove"}
        /\ "idle" \in Steps \ {"store", "remove"}
        /\ {} \in SUBSET Coins /\ {} \subseteq issued
    BY DEF Steps
  <2>3. (\A c \in spent' : Out(c)) /\ spent' \subseteq issued
    BY <1>0 DEF Out, CleanInv, SignedInv
  <2> QED BY <1>0, <1>2, <2>1, <2>2, <2>3, CleanQuiet
<1> QED BY <1>1, <1>2

LEMMA CleanPutCoin ==
  ASSUME CleanInv, NEW w \in Wallets, PutCoin(w)
  PROVE  CleanInv'
<1>0. /\ step[w] = "store"
      /\ coins' = [coins EXCEPT ![w] = coins[w] \cup batch[w]]
      /\ step' = [step EXCEPT ![w] = "idle"] \/ step' = [step EXCEPT ![w] = "withdraw"]
      /\ batch' = [batch EXCEPT ![w] = {}]
      /\ UNCHANGED <<files, issued, spent, cutOff>>
  BY DEF PutCoin, PutCoins, Finish, Goto, bank, past
<1> USE DEF CleanInv
<1>1. Shapes'
  BY <1>0 DEF Shapes, Steps
<1>2. \A d : Out(d)' => Out(d)
  BY <1>0 DEF Out, Shapes
<1>3. SignedInv'
  BY <1>0 DEF SignedInv, Shapes
<1>4. HeldInv'
  BY <1>0, <1>2 DEF HeldInv, FreshInv, Shapes
<1>5. FreshInv'
  BY <1>0, <1>2 DEF FreshInv, Shapes
<1>6. ApartInv' /\ RespendNeedsCutOff'
  BY <1>0 DEF ApartInv, RespendNeedsCutOff, FreshInv, Shapes
<1> QED BY <1>1, <1>3, <1>4, <1>5, <1>6

LEMMA CleanSpend ==
  ASSUME CleanInv, NEW w \in Wallets, NEW amount, NEW f \in Files, Spend(w, amount, f)
  PROVE  CleanInv'
<1> PICK s \in SUBSET coins[w] :
      /\ step[w] = "idle"
      /\ files' = [files EXCEPT ![f] = s]
      /\ Goto(w, IF s = {} THEN "idle" ELSE "remove", Empty, s)
      /\ UNCHANGED <<bank, identity, coins, account, undelivered, cutOff, paidIn>>
  BY DEF Spend
<1>0. /\ step' = [step EXCEPT ![w] = IF s = {} THEN "idle" ELSE "remove"]
      /\ batch' = [batch EXCEPT ![w] = s]
      /\ UNCHANGED <<coins, issued, spent, cutOff>>
  BY DEF Goto, bank
<1> USE DEF CleanInv
<1>1. Shapes'
  BY <1>0 DEF Shapes, Steps
<1>2. \A d : Out(d)' => Out(d) \/ d \in s
  BY <1>0 DEF Out, Shapes
<1>3. \A c \in s : Out(c) => c \in cutOff
  BY DEF HeldInv
<1>4. SignedInv'
  BY <1>0 DEF SignedInv, Shapes
<1>5. \A v \in Wallets : v # w => coins[v] \cap s = {}
  BY DEF ApartInv
<1>6. HeldInv'
  BY <1>0, <1>2, <1>5 DEF HeldInv, Shapes
<1>7. FreshInv'
  BY <1>0, <1>2 DEF FreshInv, Shapes
<1>8. ApartInv' /\ RespendNeedsCutOff'
  BY <1>0, <1>3 DEF ApartInv, RespendNeedsCutOff, Out, Shapes
<1> QED BY <1>1, <1>4, <1>6, <1>7, <1>8

LEMMA CleanRemoveCoin ==
  ASSUME CleanInv, NEW w \in Wallets, RemoveCoin(w)
  PROVE  CleanInv'
<1> PICK c \in batch[w] :
      /\ step[w] = "remove"
      /\ coins' = [coins EXCEPT ![w] = coins[w] \ {c}]
      /\ \/ batch[w] = {c} /\ Finish(w)
         \/ Goto(w, "remove", Empty, batch[w] \ {c})
      /\ UNCHANGED <<bank, identity, files, past>>
  BY DEF RemoveCoin, DropCoin
<1>0. UNCHANGED <<files, issued, spent, cutOff>>
  BY DEF bank, past
<1>1. batch' = [batch EXCEPT ![w] = batch[w] \ {c}]
  BY DEF Finish, Goto
<1>2. \/ step' = [step EXCEPT ![w] = "idle"] /\ batch[w] = {c}
      \/ step' = [step EXCEPT ![w] = "remove"]
  BY DEF Finish, Goto
<1> USE DEF CleanInv
<1>3. Shapes'
  BY <1>0, <1>1, <1>2 DEF Shapes, Steps
<1>4. \A d : Out(d)' => Out(d)
  BY <1>0, <1>1, <1>2 DEF Out, Shapes
<1>5. SignedInv'
  BY <1>0, <1>1 DEF SignedInv, Shapes
<1>6. HeldInv'
  BY <1>0, <1>1, <1>2, <1>4 DEF HeldInv, Shapes
<1>7. FreshInv'
  BY <1>0, <1>1, <1>2, <1>4 DEF FreshInv, Shapes
<1>8. ApartInv' /\ RespendNeedsCutOff'
  BY <1>0 DEF ApartInv, RespendNeedsCutOff, Shapes
<1> QED BY <1>3, <1>5, <1>6, <1>7, <1>8

LEMMA CleanDepositCoin ==
  ASSUME CleanInv, NEW w \in Wallets, DepositCoin(w)
  PROVE  CleanInv'
<1> PICK c \in batch[w] :
      /\ step[w] = "deposit"
      /\ spent' = spent \cup {c} \/ spent' = spent
      /\ Finish(w) \/ Goto(w, "deposit", Empty, batch[w] \ {c})
      /\ UNCHANGED <<identities, accounts, issued, disk, past>>
  BY DEF DepositCoin
<1>0. UNCHANGED <<coins, files, issued, cutOff>>
  BY DEF disk, past
<1>1. \A d \in batch[w] : Out(d) /\ d \in issued /\ d \in Coins
  BY DEF Out, CleanInv, SignedInv, Shapes
<1>2. (\A d \in spent' : Out(d)) /\ spent' \subseteq issued
  BY <1>1 DEF Out, CleanInv, SignedInv
<1>3. /\ batch[w] \ {c} \in SUBSET Coins /\ {} \in SUBSET Coins
      /\ batch[w] \ {c} \subseteq issued /\ {} \subseteq issued
      /\ step[w] \notin {"store", "remove"}
      /\ "idle" \in Steps \ {"store", "remove"} /\ "deposit" \in Steps \ {"store", "remove"}
      /\ \A d \in batch[w] \ {c} : Out(d)
  BY <1>1 DEF Steps
<1>4. CASE Finish(w)
  <2>1. step' = [step EXCEPT ![w] = "idle"] /\ batch' = [batch EXCEPT ![w] = {}]
    BY <1>4 DEF Finish, Goto
  <2> QED BY <1>0, <1>2, <1>3, <2>1, CleanQuiet
<1>5. CASE Goto(w, "deposit", Empty, batch[w] \ {c})
  <2>1. /\ step' = [step EXCEPT ![w] = "deposit"]
        /\ batch' = [batch EXCEPT ![w] = batch[w] \ {c}]
    BY <1>5 DEF Goto
  <2> QED BY <1>0, <1>2, <1>3, <2>1, CleanQuiet
<1> QED BY <1>4, <1>5

LEMMA CleanOther ==
  ASSUME CleanInv, NEW w \in Wallets,
         \/ \E a \in AccountIds : Register(w, a)
         \/ SetIdentity(w)
         \/ \E b \in InitialBalances : CreateAccount(w, b)
         \/ \E amount \in Amounts : Withdraw(w, amount)
         \/ \E f \in Files : Deposit(w, f)
  PROVE  CleanInv'
<1> DEFINE Moves(s, b) == /\ step' = [step EXCEPT ![w] = s]
                          /\ batch' = [batch EXCEPT ![w] = b]
<1>1. step[w] \notin {"store", "remove"} /\ UNCHANGED <<coins, files, issued, spent, cutOff>>
  BY DEF Register, SetIdentity, CreateAccount, Withdraw, Deposit, bank, disk, past
<1>2. \/ \E s \in Steps \ {"store", "remove"} : Moves(s, {})
      \/ \E f \in Files : Moves("deposit", files[f])
  BY DEF Register, SetIdentity, CreateAccount, Withdraw, Deposit, Finish, Goto, Steps
<1>3. /\ {} \in SUBSET Coins /\ {} \subseteq issued
      /\ \A f \in Files : files[f] \in SUBSET Coins /\ files[f] \subseteq issued
      /\ (\A c \in spent' : Out(c)) /\ spent' \subseteq issued
  BY <1>1 DEF CleanInv, Shapes, SignedInv, Out
<1>4. ASSUME NEW s \in Steps \ {"store", "remove"}, Moves(s, {}) PROVE CleanInv'
  BY <1>1, <1>3, <1>4, CleanQuiet
<1>5. ASSUME NEW f \in Files, Moves("deposit", files[f]) PROVE CleanInv'
  <2>1. "deposit" \in Steps \ {"store", "remove"} /\ \A c \in files[f] : Out(c)
    BY DEF Steps, Out
  <2> QED BY <1>1, <1>3, <1>5, <2>1, CleanQuiet
<1> QED BY <1>2, <1>4, <1>5

LEMMA CleanSpendFails ==
  ASSUME CleanInv, NEW w \in Wallets, NEW amount, NEW f \in Files, SpendFails(w, amount, f)
  PROVE  CleanInv'
<1>0. /\ files' = [files EXCEPT ![f] = {}]
      /\ UNCHANGED <<coins, step, batch, issued, spent, cutOff>>
  BY DEF SpendFails, bank, memory
<1> USE DEF CleanInv
<1>1. Shapes'
  BY <1>0 DEF Shapes
<1>2. \A d : Out(d)' => Out(d)
  BY <1>0 DEF Out, Shapes
<1>3. SignedInv'
  BY <1>0 DEF SignedInv, Shapes
<1>4. HeldInv' /\ FreshInv'
  BY <1>0, <1>2 DEF HeldInv, FreshInv
<1>5. ApartInv' /\ RespendNeedsCutOff'
  BY <1>0 DEF ApartInv, RespendNeedsCutOff, Shapes
<1> QED BY <1>1, <1>3, <1>4, <1>5

LEMMA CleanFail ==
  ASSUME CleanInv, NEW w \in Wallets, Fail(w)
  PROVE  CleanInv'
<1>0. /\ step' = [step EXCEPT ![w] = "idle"]
      /\ batch' = [batch EXCEPT ![w] = {}]
      /\ cutOff \subseteq cutOff'
      /\ step[w] = "remove" => batch[w] \subseteq cutOff'
      /\ UNCHANGED <<coins, files, issued, spent>>
  BY DEF Fail, Finish, Goto, bank
<1> USE DEF CleanInv
<1>1. Shapes'
  BY <1>0 DEF Shapes, Steps
<1>2. \A d : Out(d)' => Out(d)
  BY <1>0 DEF Out, Shapes
<1>3. SignedInv'
  BY <1>0 DEF SignedInv, Shapes
<1>4. HeldInv'
  BY <1>0, <1>2 DEF HeldInv, Shapes
<1>5. FreshInv'
  BY <1>0, <1>2 DEF FreshInv, Shapes
<1>6. ApartInv' /\ RespendNeedsCutOff'
  BY <1>0 DEF ApartInv, RespendNeedsCutOff
<1> QED BY <1>1, <1>3, <1>4, <1>5, <1>6

LEMMA CleanStep == CleanInv /\ [Next]_vars => CleanInv'
<1> SUFFICES ASSUME CleanInv, [Next]_vars PROVE CleanInv'
  OBVIOUS
<1>1. CASE UNCHANGED vars
  BY <1>1 DEF vars, CleanInv, Shapes, SignedInv, HeldInv, FreshInv, ApartInv,
     RespendNeedsCutOff, Out
<1>2. CASE Next
  BY <1>2, CleanWithdrawCoin, CleanPutCoin, CleanSpend, CleanSpendFails, CleanRemoveCoin,
     CleanDepositCoin, CleanFail, CleanOther DEF Next
<1> QED BY <1>1, <1>2

\* CleanInv holds in every reachable state.
THEOREM CleanInvariance == Spec => []CleanInv
BY CleanInit, CleanStep, PTL DEF Spec

\* For all wallets, bundles and failures, only a spend cut off before its removals
\* (wallet.rs, spend) makes an honest wallet pay twice with one coin.
THEOREM RespendOnlyInWindow == Spec => []RespendNeedsCutOff
<1>1. CleanInv => RespendNeedsCutOff
  BY DEF CleanInv
<1> QED BY <1>1, CleanInvariance, PTL

\* An idle wallet holds spent coins only after such a cut-off spend.
THEOREM HeldIsGood == Spec => []HeldCoinsAreGood
<1>1. CleanInv => HeldCoinsAreGood
  BY DEF CleanInv, HeldInv, Out, HeldCoinsAreGood
<1> QED BY <1>1, CleanInvariance, PTL

-----------------------------------------------------------------------------
(* Which accounts can be used *)

\* The part of TypeOK this argument needs.
IdentityShapes ==
  /\ identities \in [AccountIds -> Wallets \cup {NoWallet}]
  /\ identity \in [Wallets -> AccountIds \cup {NoAccount}]
  /\ account \in [Wallets -> AccountIds \cup {NoAccount}]
  /\ step \in [Wallets -> Steps]

\* The bank has the key before the store has it, and keeps it.
RegisteredInv ==
  /\ \A w \in Wallets : identity[w] # NoAccount => identities[identity[w]] = w
  /\ \A w \in Wallets : step[w] = "save" =>
       account[w] # NoAccount /\ identities[account[w]] = w /\ identity[w] # account[w]
  /\ \A a \in stranded : a \in AccountIds /\ identities[a] # NoWallet

\* The inductive invariant behind AccountsStayUsable.
UsableInv == IdentityShapes /\ RegisteredInv /\ AccountsStayUsable

LEMMA UsableInit == Init => UsableInv
BY ConstantsAssumption
   DEF Init, UsableInv, IdentityShapes, RegisteredInv, AccountsStayUsable, Steps

\* A step of a command other than registration changes no identity.
LEMMA UsableQuiet ==
  ASSUME UsableInv, NEW w \in Wallets, NEW s \in Steps, s # "save", step[w] # "save",
         step' = [step EXCEPT ![w] = s],
         account' = account \/ account' = [account EXCEPT ![w] = NoAccount],
         UNCHANGED <<identities, identity, stranded>>
  PROVE  UsableInv'
<1> USE DEF UsableInv
<1>1. IdentityShapes'
  BY DEF IdentityShapes
<1>2. \A v \in Wallets : step'[v] = "save" <=> step[v] = "save"
  BY DEF IdentityShapes
<1>3. \A v \in Wallets : step[v] = "save" => account'[v] = account[v]
  BY DEF IdentityShapes
<1>4. RegisteredInv'
  BY <1>2, <1>3 DEF RegisteredInv
<1>5. AccountsStayUsable'
  BY <1>2, <1>3 DEF AccountsStayUsable
<1> QED BY <1>1, <1>4, <1>5

LEMMA UsableRegister ==
  ASSUME UsableInv, NEW w \in Wallets, NEW a \in AccountIds, Register(w, a)
  PROVE  UsableInv'
<1>0. /\ step[w] = "idle" /\ identities[a] = NoWallet
      /\ identities' = [identities EXCEPT ![a] = w]
      /\ account' = [account EXCEPT ![w] = a]
      /\ step' = [step EXCEPT ![w] = "save"]
      /\ UNCHANGED <<identity, stranded>>
  BY DEF Register, Goto, disk, past
<1> USE ConstantsAssumption DEF UsableInv
<1>1. IdentityShapes'
  BY <1>0 DEF IdentityShapes, Steps
<1>2. /\ \A v \in Wallets : identity[v] # a /\ (step[v] = "save" => account[v] # a)
      /\ a \notin stranded
  BY <1>0 DEF RegisteredInv, IdentityShapes
<1>3. RegisteredInv'
  BY <1>0, <1>2 DEF RegisteredInv, IdentityShapes
<1>4. AccountsStayUsable'
  BY <1>0, <1>2 DEF AccountsStayUsable, IdentityShapes
<1> QED BY <1>1, <1>3, <1>4

\* What set_identity leaves, done or cut off: b is the identity in the store.
LEMMA UsableSave ==
  ASSUME UsableInv, NEW w \in Wallets, step[w] = "save",
         NEW s \in Steps, s # "save", step' = [step EXCEPT ![w] = s],
         NEW b \in {identity[w], NoAccount, account[w]},
         identity' = [identity EXCEPT ![w] = b],
         stranded' = stranded \cup ({identity[w], account[w]} \ {b, NoAccount}),
         account' = account \/ account' = [account EXCEPT ![w] = NoAccount],
         UNCHANGED identities
  PROVE  UsableInv'
<1> USE ConstantsAssumption DEF UsableInv
<1>1. IdentityShapes'
  BY DEF IdentityShapes
<1>2. \A v \in Wallets : /\ step'[v] = "save" <=> v # w /\ step[v] = "save"
                         /\ v # w => account'[v] = account[v] /\ identity'[v] = identity[v]
  BY DEF IdentityShapes
<1>3. identity'[w] = b
  BY DEF IdentityShapes
<1>4. RegisteredInv'
  <2>1. \A v \in Wallets : identity'[v] # NoAccount => identities'[identity'[v]] = v
    BY <1>2, <1>3 DEF RegisteredInv
  <2>2. \A v \in Wallets : step'[v] = "save" =>
          account'[v] # NoAccount /\ identities'[account'[v]] = v /\ identity'[v] # account'[v]
    BY <1>2 DEF RegisteredInv
  <2>3. \A a \in stranded' : a \in AccountIds /\ identities'[a] # NoWallet
    BY DEF RegisteredInv, IdentityShapes
  <2> QED BY <2>1, <2>2, <2>3 DEF RegisteredInv
<1>5. AccountsStayUsable'
  <2> SUFFICES ASSUME NEW a \in AccountIds, NEW v \in Wallets, identities[a] = v
               PROVE  a \notin stranded' <=>
                        identity'[v] = a \/ (step'[v] = "save" /\ account'[v] = a)
    BY DEF AccountsStayUsable
  <2>1. a \notin stranded <=> identity[v] = a \/ (step[v] = "save" /\ account[v] = a)
    BY DEF AccountsStayUsable
  <2>2. CASE v # w
    <3>1. a # identity[w] /\ a # account[w]
      BY <2>2 DEF RegisteredInv, IdentityShapes
    <3> QED BY <1>2, <2>1, <2>2, <3>1
  <2>3. CASE v = w
    <3>1. identity[w] # account[w]
      BY DEF RegisteredInv
    <3>2. a # NoAccount
      OBVIOUS
    <3> QED BY <1>2, <1>3, <2>1, <2>3, <3>1, <3>2
  <2> QED BY <2>2, <2>3
<1> QED BY <1>1, <1>4, <1>5

LEMMA UsableSetIdentity ==
  ASSUME UsableInv, NEW w \in Wallets, SetIdentity(w)
  PROVE  UsableInv'
<1>1. /\ step[w] = "save" /\ step' = [step EXCEPT ![w] = "open"]
      /\ identity' = [identity EXCEPT ![w] = account[w]]
      /\ stranded' = stranded \cup ({identity[w]} \ {NoAccount})
      /\ UNCHANGED <<identities, account>>
  BY DEF SetIdentity, Goto, bank
<1>2. {identity[w]} \ {NoAccount} = {identity[w], account[w]} \ {account[w], NoAccount}
  BY <1>1 DEF UsableInv, RegisteredInv
<1>3. "open" \in Steps /\ account[w] \in {identity[w], NoAccount, account[w]}
  BY DEF Steps
<1> QED BY <1>1, <1>2, <1>3, UsableSave

LEMMA UsableFail ==
  ASSUME UsableInv, NEW w \in Wallets, Fail(w)
  PROVE  UsableInv'
<1>0. /\ "idle" \in Steps /\ step' = [step EXCEPT ![w] = "idle"]
      /\ account' = [account EXCEPT ![w] = NoAccount]
      /\ UNCHANGED identities
  BY DEF Fail, Finish, Goto, bank, Steps
<1>1. CASE step[w] = "save"
  <2> PICK b \in {identity[w], NoAccount, account[w]} :
        /\ identity' = [identity EXCEPT ![w] = b]
        /\ stranded' = stranded \cup ({identity[w], account[w]} \ {b, NoAccount})
    BY <1>1 DEF Fail
  <2> QED BY <1>0, <1>1, UsableSave
<1>2. CASE step[w] # "save"
  <2>1. identity' = [identity EXCEPT ![w] = identity[w]] /\ stranded' = stranded
    BY <1>2 DEF Fail
  <2>2. identity' = identity
    BY <2>1 DEF UsableInv, IdentityShapes
  <2> QED BY <1>0, <1>2, <2>1, <2>2, UsableQuiet
<1> QED BY <1>1, <1>2

\* The steps of the other commands.
LEMMA UsableOther ==
  ASSUME UsableInv, NEW w \in Wallets,
         \/ \E b \in InitialBalances : CreateAccount(w, b)
         \/ \E amount \in Amounts : Withdraw(w, amount)
         \/ WithdrawCoin(w)
         \/ PutCoin(w)
         \/ \E amount \in Amounts, f \in Files : Spend(w, amount, f)
         \/ RemoveCoin(w)
         \/ \E f \in Files : Deposit(w, f)
         \/ DepositCoin(w)
  PROVE  UsableInv'
<1>1. /\ step[w] # "save"
      /\ account' = account \/ account' = [account EXCEPT ![w] = NoAccount]
      /\ UNCHANGED <<identities, identity, stranded>>
  BY DEF CreateAccount, Withdraw, WithdrawCoin, PutCoin, Spend, RemoveCoin, Deposit,
         DepositCoin, Finish, bank, disk, past
<1>2. \E s \in Steps : s # "save" /\ step' = [step EXCEPT ![w] = s]
  BY DEF CreateAccount, Withdraw, WithdrawCoin, PutCoin, Spend, RemoveCoin, Deposit,
         DepositCoin, Finish, Goto, Steps
<1> QED BY <1>1, <1>2, UsableQuiet

LEMMA UsableStep == UsableInv /\ [Next]_vars => UsableInv'
<1> SUFFICES ASSUME UsableInv, [Next]_vars PROVE UsableInv'
  OBVIOUS
<1>1. CASE UNCHANGED vars
  BY <1>1 DEF vars, UsableInv, IdentityShapes, RegisteredInv, AccountsStayUsable
<1>2. ASSUME NEW w \in Wallets, NEW amount \in Amounts, NEW f \in Files,
             SpendFails(w, amount, f)
      PROVE  UsableInv'
  BY <1>2 DEF SpendFails, bank, memory, UsableInv, IdentityShapes, RegisteredInv,
     AccountsStayUsable
<1>3. CASE Next
  BY <1>2, <1>3, UsableRegister, UsableSetIdentity, UsableFail, UsableOther DEF Next
<1> QED BY <1>1, <1>3

\* For all wallets, accounts and failures, the only accounts their owner loses are
\* those of a registration cut off before set_identity (store.rs) and those whose
\* identity a later `account create` replaced, and these are lost for good.
THEOREM AccountsUsable == Spec => []AccountsStayUsable
<1>1. UsableInv => AccountsStayUsable
  BY DEF UsableInv
<1> QED BY <1>1, UsableInit, UsableStep, PTL DEF Spec

-----------------------------------------------------------------------------
(* Money *)

\* The bank's tables and what was paid in, as numbers of cents of finitely many
\* accounts and coins.
LedgerShapes ==
  /\ balance \in [AccountIds -> Nat]
  /\ accounts \subseteq AccountIds /\ IsFiniteSet(accounts)
  /\ issued \subseteq Coins /\ IsFiniteSet(issued)
  /\ paidIn \in Nat

MoneyInv == LedgerShapes /\ MoneyConserved

Worth == [c \in Coins |-> Value(c)]

\* A denomination is a positive number of cents.
LEMMA DenominationType == \A i \in Kinds : Denominations[i] \in Nat \ {0}
BY DenominationsAssumption DEF Kinds, Last

LEMMA WorthType == \A c \in Coins : Worth[c] = Denominations[c.kind] /\ Worth[c] \in Nat
BY DenominationType DEF Worth, Value, Coins

\* The coins that are signed and not credited are finitely many.
LEMMA OutstandingFinite ==
  ASSUME LedgerShapes
  PROVE  IsFiniteSet(issued \ spent) /\ issued \ spent \subseteq Coins
<1>1. IsFiniteSet(issued \ spent)
  BY FS_Difference DEF LedgerShapes
<1> QED BY <1>1 DEF LedgerShapes

\* The two sums are numbers.
LEMMA LedgerSums ==
  ASSUME LedgerShapes
  PROVE  /\ SumFunctionOnSet(balance, accounts) \in Int
         /\ SumFunctionOnSet(Worth, issued \ spent) \in Int
<1>1. \A a \in accounts : balance[a] \in Int
  BY DEF LedgerShapes
<1>2. SumFunctionOnSet(balance, accounts) \in Int
  BY <1>1, SumType DEF LedgerShapes
<1>3. \A c \in issued \ spent : Worth[c] \in Int
  BY OutstandingFinite, WorthType
<1>4. SumFunctionOnSet(Worth, issued \ spent) \in Int
  BY <1>3, OutstandingFinite, SumType
<1> QED BY <1>2, <1>4

\* A step that changes the balance of one existing account.
LEMMA BalanceStep ==
  ASSUME LedgerShapes, NEW a \in accounts, NEW n \in Nat,
         balance' = [balance EXCEPT ![a] = n]
  PROVE  SumFunctionOnSet(balance', accounts) =
           SumFunctionOnSet(balance, accounts) + (n - balance[a])
<1>1. PICK f : f = balance
  OBVIOUS
<1>2. PICK g : g = balance'
  OBVIOUS
<1>3. g[a] = n /\ \A c \in accounts : f[c] \in Int /\ g[c] \in Int /\ (c # a => f[c] = g[c])
  BY <1>1, <1>2 DEF LedgerShapes
<1>4. SumFunctionOnSet(g, accounts) = SumFunctionOnSet(f, accounts) + (g[a] - f[a])
  BY <1>3, SumUpdate DEF LedgerShapes
<1> QED BY <1>1, <1>2, <1>3, <1>4

LEMMA MoneyInit == Init => MoneyInv
<1> SUFFICES ASSUME Init PROVE MoneyInv
  OBVIOUS
<1>1. accounts = {} /\ issued \ spent = {} /\ issued = {} /\ IsFiniteSet({})
  BY FS_EmptySet DEF Init
<1>2. LedgerShapes
  BY <1>1 DEF Init, LedgerShapes
<1>3. SumFunctionOnSet(balance, accounts) = 0 /\ SumFunctionOnSet(Worth, issued \ spent) = 0
  BY <1>1, SumEmpty
<1>4. MoneyConserved
  BY <1>3 DEF Init, MoneyConserved, Worth
<1> QED BY <1>2, <1>4 DEF MoneyInv

\* A new account brings its opening balance.
LEMMA MoneyCreateAccount ==
  ASSUME MoneyInv, UsableInv, NEW w \in Wallets, NEW b \in InitialBalances, CreateAccount(w, b)
  PROVE  MoneyInv'
<1>0. PICK a \in AccountIds : a = identity[w]
  BY DEF CreateAccount, SignedCall, HasClient, UsableInv, IdentityShapes
<1>1. UNCHANGED <<issued, spent>> /\ b \in Nat
  BY ConstantsAssumption DEF CreateAccount
<1>2. CASE UNCHANGED <<accounts, balance, paidIn>>
  BY <1>1, <1>2 DEF MoneyInv, LedgerShapes, MoneyConserved
<1>3. CASE /\ a \notin accounts
           /\ accounts' = accounts \cup {a}
           /\ balance' = [balance EXCEPT ![a] = b]
           /\ paidIn' = paidIn + b
  <2>1. LedgerShapes'
    BY <1>1, <1>3, FS_AddElement DEF MoneyInv, LedgerShapes
  <2>2. PICK f : f = balance
    OBVIOUS
  <2>3. PICK g : g = balance'
    OBVIOUS
  <2>4. /\ g[a] = b
        /\ \A c \in accounts \cup {a} : g[c] \in Int
        /\ \A c \in accounts : f[c] = g[c]
    BY <1>1, <1>3, <2>2, <2>3 DEF MoneyInv, LedgerShapes
  <2>5. IsFiniteSet(accounts)
    BY DEF MoneyInv, LedgerShapes
  <2>6. SumFunctionOnSet(g, accounts \cup {a}) = SumFunctionOnSet(g, accounts) + g[a]
    BY <1>3, <2>4, <2>5, SumAdd
  <2>7. SumFunctionOnSet(g, accounts) = SumFunctionOnSet(f, accounts)
    BY <2>4, <2>5, SumSame
  <2>8. SumFunctionOnSet(balance', accounts') = SumFunctionOnSet(balance, accounts) + b
    BY <1>3, <2>2, <2>3, <2>4, <2>6, <2>7
  <2>9. SumFunctionOnSet(balance, accounts) \in Int /\ SumFunctionOnSet(Worth, issued \ spent) \in Int
    BY LedgerSums DEF MoneyInv
  <2>10. paidIn = SumFunctionOnSet(balance, accounts) + SumFunctionOnSet(Worth, issued \ spent)
    BY DEF MoneyInv, MoneyConserved, Worth
  <2>11. paidIn' = SumFunctionOnSet(balance', accounts') + SumFunctionOnSet(Worth, issued' \ spent')
    BY <1>1, <1>3, <2>8, <2>9, <2>10
  <2> QED BY <2>1, <2>11 DEF MoneyInv, MoneyConserved, Worth
<1> QED BY <1>0, <1>2, <1>3 DEF CreateAccount

\* A withdrawal turns balance into an outstanding coin of the same value.
LEMMA MoneyWithdrawCoin ==
  ASSUME MoneyInv, CleanInv, NEW w \in Wallets, WithdrawCoin(w)
  PROVE  MoneyInv'
<1>0. UNCHANGED <<accounts, spent, paidIn>>
  BY DEF WithdrawCoin, past
<1>1. CASE UNCHANGED <<issued, balance>>
  BY <1>0, <1>1 DEF MoneyInv, LedgerShapes, MoneyConserved
<1>2. CASE ~ UNCHANGED <<issued, balance>>
  <2>1. PICK i \in Kinds, s \in FreshSerials :
          /\ identity[w] \in accounts
          /\ balance[identity[w]] >= Denominations[i]
          /\ issued' = issued \cup {[serial |-> s, kind |-> i]}
          /\ balance' = [balance EXCEPT ![identity[w]] = @ - Denominations[i]]
    BY <1>2 DEF WithdrawCoin
  <2>2. PICK c \in Coins : c = [serial |-> s, kind |-> i]
    BY <2>1 DEF FreshSerials, Coins
  <2>3. PICK a \in accounts : a = identity[w]
    BY <2>1
  <2>4. PICK d \in Nat : d = Denominations[i]
    BY DenominationType
  <2>5. PICK n \in Nat : n = balance[a] - d /\ balance[a] \in Nat
    BY <2>1, <2>3, <2>4 DEF MoneyInv, LedgerShapes
  <2>6. Worth[c] = d
    BY <2>2, <2>4, WorthType
  <2>7. c \notin issued /\ c \notin spent
    BY <2>1, <2>2 DEF FreshSerials, CleanInv, SignedInv
  <2>8. issued' = issued \cup {c} /\ balance' = [balance EXCEPT ![a] = n]
    BY <2>1, <2>2, <2>3, <2>4, <2>5
  <2>9. LedgerShapes'
    BY <1>0, <2>8, FS_AddElement DEF MoneyInv, LedgerShapes
  <2>10. SumFunctionOnSet(balance', accounts) = SumFunctionOnSet(balance, accounts) + (n - balance[a])
    BY <2>8, BalanceStep DEF MoneyInv
  <2>11. issued' \ spent' = (issued \ spent) \cup {c}
    BY <1>0, <2>7, <2>8
  <2>12. SumFunctionOnSet(Worth, (issued \ spent) \cup {c}) =
           SumFunctionOnSet(Worth, issued \ spent) + Worth[c]
    <3>1. IsFiniteSet(issued \ spent) /\ c \notin issued \ spent
      BY <2>7, OutstandingFinite DEF MoneyInv
    <3>2. \A x \in (issued \ spent) \cup {c} : Worth[x] \in Int
      BY WorthType, OutstandingFinite DEF MoneyInv
    <3> QED BY <3>1, <3>2, SumAdd
  <2>13. SumFunctionOnSet(balance, accounts) \in Int /\ SumFunctionOnSet(Worth, issued \ spent) \in Int
    BY LedgerSums DEF MoneyInv
  <2>14. paidIn = SumFunctionOnSet(balance, accounts) + SumFunctionOnSet(Worth, issued \ spent)
    BY DEF MoneyInv, MoneyConserved, Worth
  <2>15. paidIn' = SumFunctionOnSet(balance', accounts') + SumFunctionOnSet(Worth, issued' \ spent')
    <3>1. SumFunctionOnSet(balance', accounts') = SumFunctionOnSet(balance, accounts) + (n - balance[a])
      BY <1>0, <2>10
    <3>2. SumFunctionOnSet(Worth, issued' \ spent') = SumFunctionOnSet(Worth, issued \ spent) + d
      BY <2>6, <2>11, <2>12
    <3>3. paidIn' = paidIn
      BY <1>0
    <3> QED BY <2>5, <2>13, <2>14, <3>1, <3>2, <3>3
  <2> QED BY <2>9, <2>15 DEF MoneyInv, MoneyConserved, Worth
<1> QED BY <1>1, <1>2

\* A deposit turns an outstanding coin into balance, once.
LEMMA MoneyDepositCoin ==
  ASSUME MoneyInv, CleanInv, NEW w \in Wallets, DepositCoin(w)
  PROVE  MoneyInv'
<1>0. UNCHANGED <<accounts, issued, paidIn>>
  BY DEF DepositCoin, past
<1>1. CASE UNCHANGED <<balance, spent>>
  BY <1>0, <1>1 DEF MoneyInv, LedgerShapes, MoneyConserved
<1>2. CASE ~ UNCHANGED <<balance, spent>>
  <2>1. PICK c \in batch[w] :
          /\ c \notin spent /\ identity[w] \in accounts
          /\ balance' = [balance EXCEPT ![identity[w]] = @ + Value(c)]
          /\ spent' = spent \cup {c}
    BY <1>2 DEF DepositCoin
  <2>2. PICK a \in accounts : a = identity[w]
    BY <2>1
  <2>3. c \in issued \ spent /\ c \in Coins
    BY <2>1 DEF CleanInv, SignedInv, Shapes
  <2>4. PICK d \in Nat : d = Value(c) /\ d = Worth[c]
    BY <2>3, WorthType DEF Worth
  <2>5. PICK n \in Nat : n = balance[a] + d /\ balance[a] \in Nat
    BY DEF MoneyInv, LedgerShapes
  <2>6. balance' = [balance EXCEPT ![a] = n]
    BY <2>1, <2>2, <2>4, <2>5
  <2>7. LedgerShapes'
    BY <1>0, <2>6 DEF MoneyInv, LedgerShapes
  <2>8. SumFunctionOnSet(balance', accounts) = SumFunctionOnSet(balance, accounts) + (n - balance[a])
    BY <2>6, BalanceStep DEF MoneyInv
  <2>9. issued' \ spent' = (issued \ spent) \ {c}
    BY <1>0, <2>1
  <2>10. SumFunctionOnSet(Worth, issued \ spent) =
           Worth[c] + SumFunctionOnSet(Worth, (issued \ spent) \ {c})
    <3>1. IsFiniteSet(issued \ spent)
      BY OutstandingFinite DEF MoneyInv
    <3>2. \A x \in issued \ spent : Worth[x] \in Int
      BY WorthType, OutstandingFinite DEF MoneyInv
    <3> QED BY <2>3, <3>1, <3>2, SumRemove
  <2>11. SumFunctionOnSet(Worth, (issued \ spent) \ {c}) \in Int
    <3>1. IsFiniteSet((issued \ spent) \ {c})
      BY OutstandingFinite, FS_RemoveElement DEF MoneyInv
    <3>2. \A x \in (issued \ spent) \ {c} : Worth[x] \in Int
      BY WorthType, OutstandingFinite DEF MoneyInv
    <3> QED BY <3>1, <3>2, SumType
  <2>12. SumFunctionOnSet(balance, accounts) \in Int
    BY LedgerSums DEF MoneyInv
  <2>13. paidIn = SumFunctionOnSet(balance, accounts) + SumFunctionOnSet(Worth, issued \ spent)
    BY DEF MoneyInv, MoneyConserved, Worth
  <2>14. paidIn' = SumFunctionOnSet(balance', accounts') + SumFunctionOnSet(Worth, issued' \ spent')
    <3>1. SumFunctionOnSet(balance', accounts') = SumFunctionOnSet(balance, accounts) + (n - balance[a])
      BY <1>0, <2>8
    <3>2. PICK o \in Int : o = SumFunctionOnSet(Worth, (issued \ spent) \ {c})
      BY <2>11
    <3>3. SumFunctionOnSet(Worth, issued \ spent) = d + o
      BY <2>4, <2>10, <3>2
    <3>4. SumFunctionOnSet(Worth, issued' \ spent') = o
      BY <2>9, <3>2
    <3>5. paidIn' = paidIn
      BY <1>0
    <3> QED BY <2>5, <2>12, <2>13, <3>1, <3>2, <3>3, <3>4, <3>5
  <2> QED BY <2>7, <2>14 DEF MoneyInv, MoneyConserved, Worth
<1> QED BY <1>1, <1>2

LEMMA MoneyStep == MoneyInv /\ CleanInv /\ UsableInv /\ [Next]_vars => MoneyInv'
<1> SUFFICES ASSUME MoneyInv, CleanInv, UsableInv, [Next]_vars PROVE MoneyInv'
  OBVIOUS
<1>1. ASSUME UNCHANGED <<balance, accounts, issued, spent, paidIn>> PROVE MoneyInv'
  BY <1>1 DEF MoneyInv, LedgerShapes, MoneyConserved
<1>2. ASSUME NEW w \in Wallets,
             \/ \E a \in AccountIds : Register(w, a)
             \/ SetIdentity(w)
             \/ \E amount \in Amounts : Withdraw(w, amount)
             \/ PutCoin(w)
             \/ \E amount \in Amounts, f \in Files : Spend(w, amount, f) \/ SpendFails(w, amount, f)
             \/ RemoveCoin(w)
             \/ \E f \in Files : Deposit(w, f)
             \/ Fail(w)
      PROVE  MoneyInv'
  BY <1>1, <1>2 DEF Register, SetIdentity, Withdraw, PutCoin, Spend, SpendFails, RemoveCoin,
     Deposit, Fail, bank, past
<1>3. CASE Next
  BY <1>2, <1>3, MoneyCreateAccount, MoneyWithdrawCoin, MoneyDepositCoin DEF Next
<1>4. CASE UNCHANGED vars
  BY <1>1, <1>4 DEF vars
<1> QED BY <1>3, <1>4

\* Money is neither made nor lost by any mix of commands of any number of wallets,
\* wherever they are cut off and however often a coin is handed on: what was paid
\* in is in the accounts or in coins signed and not yet credited.
THEOREM CommandsConserveMoney == Spec => []MoneyConserved
<1>1. MoneyInv => MoneyConserved
  BY DEF MoneyInv
<1>2. Init => UsableInv
  BY UsableInit
<1>3. UsableInv /\ [Next]_vars => UsableInv'
  BY UsableStep
<1> QED BY <1>1, <1>2, <1>3, MoneyInit, MoneyStep, CleanInvariance, PTL DEF Spec

-----------------------------------------------------------------------------
(* decompose and select_exact *)

\* A walk down the denominations that carries a number is well defined.
LEMMA WalkExists ==
  ASSUME NEW n \in Nat, NEW start \in Nat, NEW F \in [(1..n) \X Nat -> Nat]
  PROVE  \E g \in [1..(n + 1) -> Nat] :
           g = [i \in 1..(n + 1) |-> IF i = n + 1 THEN start ELSE F[<<i, g[i + 1]>>]]
<1> DEFINE Walk(m, g) == /\ g \in [m..(n + 1) -> Nat]
                         /\ g[n + 1] = start
                         /\ \A i \in m..n : g[i] = F[<<i, g[i + 1]>>]
           B == {k \in 0..n : ~ \E g : Walk(n + 1 - k, g)}
<1>1. ASSUME NEW k \in B, \A j \in 0..(k - 1) : j \notin B PROVE FALSE
  <2>1. CASE k = 0
    <3> DEFINE g == [i \in {n + 1} |-> start]
    <3>1. Walk(n + 1, g)
      OBVIOUS
    <3> QED BY <2>1, <3>1
  <2>2. CASE k # 0
    <3> DEFINE m == n + 1 - k
    <3>0. m \in 1..n /\ k - 1 \in 0..(k - 1) /\ k - 1 \in 0..n /\ n + 1 - (k - 1) = m + 1
      BY <2>2
    <3>1. PICK g : Walk(m + 1, g)
      <4> HIDE DEF Walk, m
      <4>1. \E g : Walk(n + 1 - (k - 1), g)
        BY <1>1, <3>0
      <4> QED BY <3>0, <4>1
    <3> DEFINE h == [i \in m..(n + 1) |-> IF i = m THEN F[<<m, g[m + 1]>>] ELSE g[i]]
    <3>2. F[<<m, g[m + 1]>>] \in Nat
      BY <3>0, <3>1
    <3>3. h \in [m..(n + 1) -> Nat]
      BY <3>0, <3>1, <3>2
    <3>4. h[n + 1] = start /\ h[m] = F[<<m, h[m + 1]>>]
      <4>1. m \in m..(n + 1) /\ m + 1 \in m..(n + 1) /\ n + 1 \in m..(n + 1) /\ m # m + 1 /\ m # n + 1
        BY <3>0
      <4>2. h[m] = F[<<m, g[m + 1]>>] /\ h[m + 1] = g[m + 1] /\ h[n + 1] = g[n + 1]
        BY <4>1
      <4> QED BY <3>1, <4>2
    <3>5. \A i \in (m + 1)..n : h[i] = g[i] /\ h[i + 1] = g[i + 1]
      BY <3>0
    <3>6. \A i \in m..n : h[i] = F[<<i, h[i + 1]>>]
      <4> SUFFICES ASSUME NEW i \in m..n PROVE h[i] = F[<<i, h[i + 1]>>]
        OBVIOUS
      <4>1. CASE i = m
        BY <3>4, <4>1
      <4>2. CASE i # m
        <5>1. i \in (m + 1)..n
          BY <3>0, <4>2
        <5> QED BY <3>1, <3>5, <5>1
      <4> QED BY <4>1, <4>2
    <3>7. Walk(m, h)
      BY <3>3, <3>4, <3>6
    <3> QED BY <3>7
  <2> QED BY <2>1, <2>2
<1>2. B = {}
  <2>1. B \in SUBSET (0..n)
    OBVIOUS
  <2> HIDE DEF B
  <2> QED BY <1>1, <2>1, SmallestNumber
<1>3. PICK g : Walk(1, g)
  <2>1. n \in 0..n /\ n + 1 - n = 1
    OBVIOUS
  <2> HIDE DEF Walk
  <2>2. \E g : Walk(n + 1 - n, g)
    BY <1>2, <2>1
  <2> QED BY <2>1, <2>2
<1>4. g = [i \in 1..(n + 1) |-> IF i = n + 1 THEN start ELSE F[<<i, g[i + 1]>>]]
  BY <1>3
<1> QED BY <1>3, <1>4

\* How many denominations there are, and that each is a positive number of cents.
LEMMA KindsType ==
  /\ Last \in Nat \ {0} /\ Kinds = 1..Last
  /\ \A i \in Kinds : Denominations[i] \in Nat \ {0}
  /\ Denominations[1] = 1
  /\ \A i \in 1..(Last - 1) : Denominations[i + 1] = 2 * Denominations[i]
BY DenominationsAssumption DEF Kinds, Last

\* Division with remainder by a positive number.
LEMMA Division ==
  ASSUME NEW x \in Nat, NEW d \in Nat \ {0}
  PROVE  /\ x \div d \in Nat
         /\ x % d \in 0..(d - 1)
         /\ x = d * (x \div d) + (x % d)
<1>1. x \div d \in Int /\ x % d \in 0..(d - 1)
  OBVIOUS
<1>2. x \div d >= 0
  OBVIOUS
<1>3. x = d * (x \div d) + (x % d)
  OBVIOUS
<1> QED BY <1>1, <1>2, <1>3

\* What remains of the amount at each denomination, in decompose.
DecomposeRest(amount) ==
  CHOOSE left : left = [i \in 1..(Last + 1) |->
                          IF i = Last + 1 THEN amount ELSE left[i + 1] % Denominations[i]]

LEMMA DecomposeWalk ==
  ASSUME NEW amount \in Nat
  PROVE  /\ Decompose(amount) =
              [i \in Kinds |-> DecomposeRest(amount)[i + 1] \div Denominations[i]]
         /\ DecomposeRest(amount) \in [1..(Last + 1) -> Nat]
         /\ DecomposeRest(amount)[Last + 1] = amount
         /\ \A i \in Kinds :
              DecomposeRest(amount)[i] = DecomposeRest(amount)[i + 1] % Denominations[i]
<1> DEFINE Walk(g) == g = [i \in 1..(Last + 1) |->
                             IF i = Last + 1 THEN amount ELSE g[i + 1] % Denominations[i]]
           r == DecomposeRest(amount)
<1>0. Last \in Nat /\ Kinds = 1..Last
  BY KindsType
<1>1. Decompose(amount) = [i \in Kinds |-> DecomposeRest(amount)[i + 1] \div Denominations[i]]
  BY DEF Decompose, DecomposeRest
<1>2. \A i \in Kinds, x \in Nat : x % Denominations[i] \in Nat
  BY KindsType
<1>3. \E g : Walk(g)
  <2> DEFINE F == [p \in (1..Last) \X Nat |-> p[2] % Denominations[p[1]]]
  <2>1. F \in [(1..Last) \X Nat -> Nat]
    BY <1>0, <1>2
  <2>2. \A i \in 1..Last, x \in Nat : F[<<i, x>>] = x % Denominations[i]
    OBVIOUS
  <2> HIDE DEF F
  <2>3. PICK g \in [1..(Last + 1) -> Nat] :
          g = [i \in 1..(Last + 1) |-> IF i = Last + 1 THEN amount ELSE F[<<i, g[i + 1]>>]]
    BY <1>0, <2>1, WalkExists
  <2>4. ASSUME NEW i \in 1..(Last + 1)
        PROVE  g[i] = IF i = Last + 1 THEN amount ELSE g[i + 1] % Denominations[i]
    <3>1. CASE i = Last + 1
      BY <2>3, <3>1
    <3>2. CASE i # Last + 1
      <4>1. i \in 1..Last /\ i + 1 \in 1..(Last + 1)
        BY <1>0, <3>2
      <4> QED BY <2>2, <2>3, <3>2, <4>1
    <3> QED BY <3>1, <3>2
  <2>5. Walk(g)
    BY <2>3, <2>4
  <2> QED BY <2>5
<1>4. Walk(r)
  BY <1>3 DEF DecomposeRest
<1> HIDE DEF r
<1>5. r[Last + 1] = amount
  BY <1>0, <1>4
<1>6. \A i \in Kinds : r[i] = r[i + 1] % Denominations[i]
  <2> SUFFICES ASSUME NEW i \in Kinds PROVE r[i] = r[i + 1] % Denominations[i]
    OBVIOUS
  <2>1. i \in 1..(Last + 1) /\ i # Last + 1
    BY <1>0
  <2> QED BY <1>4, <2>1
<1>7. \A i \in 1..(Last + 1) : r[i] \in Nat
  <2> DEFINE A == {i \in 1..(Last + 1) : r[i] \in Nat}
  <2>1. Last + 1 \in A
    BY <1>0, <1>5
  <2>2. ASSUME NEW i \in 1..Last, i + 1 \in A PROVE i \in A
    <3>1. i \in 1..(Last + 1) /\ i \in Kinds
      BY <1>0
    <3>2. r[i + 1] \in Nat
      BY <2>2
    <3>3. r[i + 1] % Denominations[i] \in Nat
      BY <1>2, <3>1, <3>2
    <3> QED BY <1>6, <3>1, <3>3
  <2>3. \A i \in 1..(Last + 1) : i \in A
    <3> HIDE DEF A
    <3> QED BY <1>0, <2>1, <2>2, CountDown
  <2> QED BY <2>3
<1>8. r \in [1..(Last + 1) -> Nat]
  BY <1>4, <1>7
<1> QED BY <1>1, <1>5, <1>6, <1>8 DEF r

\* decompose returns a number of coins of each denomination.
LEMMA DecomposeType ==
  ASSUME NEW amount \in Nat
  PROVE  Decompose(amount) \in CoinBags
<1>1. ASSUME NEW i \in Kinds PROVE DecomposeRest(amount)[i + 1] \div Denominations[i] \in Nat
  <2>1. i + 1 \in 1..(Last + 1) /\ Denominations[i] \in Nat \ {0}
    BY KindsType
  <2>2. DecomposeRest(amount)[i + 1] \in Nat
    BY <2>1, DecomposeWalk
  <2> QED BY <2>1, <2>2, Division
<1> QED BY <1>1, DecomposeWalk DEF CoinBags

-----------------------------------------------------------------------------
(* Type correctness *)

\* What the other invariants leave of TypeOK: the coins due, and the history.
PastShapes ==
  /\ due \in [Wallets -> CoinBags]
  /\ undelivered \subseteq Coins /\ overwritten \subseteq Coins /\ cutOff \subseteq Coins

LEMMA EmptyType == Empty \in CoinBags
BY DEF Empty, CoinBags

LEMMA PastInit == Init => PastShapes
BY EmptyType DEF Init, PastShapes

\* Every coin due is one decompose asked for and the bank has not signed yet.
LEMMA DueStep ==
  ASSUME PastShapes, CleanInv, NEW w \in Wallets,
         \/ \E a \in AccountIds : Register(w, a)
         \/ SetIdentity(w)
         \/ \E b \in InitialBalances : CreateAccount(w, b)
         \/ \E amount \in Amounts : Withdraw(w, amount)
         \/ WithdrawCoin(w)
         \/ PutCoin(w)
         \/ \E amount \in Amounts, f \in Files : Spend(w, amount, f)
         \/ RemoveCoin(w)
         \/ \E f \in Files : Deposit(w, f)
         \/ DepositCoin(w)
         \/ Fail(w)
  PROVE  due' \in [Wallets -> CoinBags]
<1>1. ASSUME NEW d \in CoinBags, due' = [due EXCEPT ![w] = d]
      PROVE  due' \in [Wallets -> CoinBags]
  BY <1>1 DEF PastShapes
<1>2. CASE due' = [due EXCEPT ![w] = Empty]
  BY <1>1, <1>2, EmptyType
<1>3. CASE PutCoin(w)
  <2>1. due' = [due EXCEPT ![w] = Empty] \/ due' = [due EXCEPT ![w] = due[w]]
    BY <1>3 DEF PutCoin, Finish, Goto
  <2>2. due[w] \in CoinBags
    BY DEF PastShapes
  <2> QED BY <1>1, <1>2, <2>1, <2>2
<1>4. CASE \E amount \in Amounts : Withdraw(w, amount)
  <2>1. PICK amount \in Amounts : due' = [due EXCEPT ![w] = Decompose(amount)]
    BY <1>4 DEF Withdraw, Goto
  <2>2. Decompose(amount) \in CoinBags
    BY DecomposeType, ConstantsAssumption
  <2> QED BY <1>1, <2>1, <2>2
<1>5. CASE WithdrawCoin(w)
  <2>1. PICK i \in Kinds :
          /\ due[w][i] > 0
          /\ \/ due' = [due EXCEPT ![w] = [due[w] EXCEPT ![i] = @ - 1]]
             \/ due' = [due EXCEPT ![w] = Empty]
    BY <1>5 DEF WithdrawCoin, Finish, Goto
  <2>2. [due[w] EXCEPT ![i] = @ - 1] \in CoinBags
    <3>1. due[w] \in CoinBags
      BY DEF PastShapes
    <3>2. due[w][i] - 1 \in Nat
      BY <2>1, <3>1 DEF CoinBags
    <3> QED BY <3>1, <3>2 DEF CoinBags
  <2> QED BY <1>1, <1>2, <2>1, <2>2
<1>6. CASE \/ \E a \in AccountIds : Register(w, a)
           \/ SetIdentity(w)
           \/ \E b \in InitialBalances : CreateAccount(w, b)
           \/ \E amount \in Amounts, f \in Files : Spend(w, amount, f)
           \/ RemoveCoin(w)
           \/ \E f \in Files : Deposit(w, f)
           \/ DepositCoin(w)
           \/ Fail(w)
  <2>1. due' = [due EXCEPT ![w] = Empty]
    BY <1>6 DEF Register, SetIdentity, CreateAccount, Spend, RemoveCoin, Deposit, DepositCoin,
       Fail, Finish, Goto
  <2> QED BY <1>2, <2>1
<1> QED BY <1>3, <1>4, <1>5, <1>6

LEMMA PastStep == PastShapes /\ CleanInv /\ [Next]_vars => PastShapes'
<1> SUFFICES ASSUME PastShapes, CleanInv, [Next]_vars PROVE PastShapes'
  OBVIOUS
<1>0. Shapes
  BY DEF CleanInv
<1>1. CASE UNCHANGED vars
  BY <1>1 DEF vars, PastShapes
<1>2. ASSUME NEW w \in Wallets, NEW amount \in Amounts, NEW f \in Files, SpendFails(w, amount, f)
      PROVE  PastShapes'
  BY <1>0, <1>2 DEF SpendFails, memory, PastShapes, Shapes
<1>3. ASSUME NEW w \in Wallets,
             \/ \E a \in AccountIds : Register(w, a)
             \/ SetIdentity(w)
             \/ \E b \in InitialBalances : CreateAccount(w, b)
             \/ \E amount \in Amounts : Withdraw(w, amount)
             \/ WithdrawCoin(w)
             \/ PutCoin(w)
             \/ \E amount \in Amounts, f \in Files : Spend(w, amount, f)
             \/ RemoveCoin(w)
             \/ \E f \in Files : Deposit(w, f)
             \/ DepositCoin(w)
             \/ Fail(w)
      PROVE  PastShapes'
  <2>1. due' \in [Wallets -> CoinBags]
    BY <1>3, DueStep
  <2>2. undelivered' \subseteq Coins /\ overwritten' \subseteq Coins /\ cutOff' \subseteq Coins
    <3>1. CASE \E amount \in Amounts, f \in Files : Spend(w, amount, f)
      BY <1>0, <3>1 DEF Spend, PastShapes, Shapes
    <3>2. CASE Fail(w)
      BY <1>0, <3>2 DEF Fail, PastShapes, Shapes
    <3>3. CASE \/ \E a \in AccountIds : Register(w, a)
               \/ SetIdentity(w)
               \/ \E b \in InitialBalances : CreateAccount(w, b)
               \/ \E amount \in Amounts : Withdraw(w, amount)
               \/ WithdrawCoin(w)
               \/ PutCoin(w)
               \/ RemoveCoin(w)
               \/ \E f \in Files : Deposit(w, f)
               \/ DepositCoin(w)
      BY <3>3 DEF Register, SetIdentity, CreateAccount, Withdraw, WithdrawCoin, PutCoin,
         RemoveCoin, Deposit, DepositCoin, past, PastShapes
    <3> QED BY <1>3, <3>1, <3>2, <3>3
  <2> QED BY <2>1, <2>2 DEF PastShapes
<1>4. CASE Next
  BY <1>2, <1>3, <1>4 DEF Next
<1> QED BY <1>1, <1>4

\* Type correctness of the wallets and the bank they use: in particular no account
\* is overdrawn by any mix of commands, and a withdrawal never asks for less than
\* no coin of a denomination.
THEOREM TypeCorrect == Spec => []TypeOK
<1>1. MoneyInv /\ CleanInv /\ UsableInv /\ PastShapes => TypeOK
  BY DEF MoneyInv, LedgerShapes, CleanInv, Shapes, SignedInv, UsableInv, IdentityShapes,
     RegisteredInv, PastShapes, TypeOK
<1>2. Init => UsableInv /\ PastShapes
  BY UsableInit, PastInit
<1>3. UsableInv /\ PastShapes /\ CleanInv /\ [Next]_vars => UsableInv' /\ PastShapes'
  BY UsableStep, PastStep
<1> QED BY <1>1, <1>2, <1>3, MoneyInit, MoneyStep, CleanInvariance, PTL DEF Spec

-----------------------------------------------------------------------------
(* The two greedy walks compute what they should *)

CoinValues(b) == [i \in Kinds |-> b[i] * Denominations[i]]

\* The value and the number of the coins of the k smallest denominations.
Cents(b, k)  == SumFunctionOnSet(CoinValues(b), 1..k)
Number(b, k) == SumFunctionOnSet(b, 1..k)

\* One denomination more.
LEMMA PrefixSums ==
  ASSUME NEW b \in CoinBags
  PROVE  /\ Cents(b, 0) = 0 /\ Number(b, 0) = 0
         /\ \A k \in 0..Last : Cents(b, k) \in Nat /\ Number(b, k) \in Nat
         /\ \A k \in 0..(Last - 1) :
              /\ Cents(b, k + 1) = Cents(b, k) + b[k + 1] * Denominations[k + 1]
              /\ Number(b, k + 1) = Number(b, k) + b[k + 1]
         /\ Total(b) = Cents(b, Last) /\ Size(b) = Number(b, Last)
<1>0. Last \in Nat \ {0} /\ Kinds = 1..Last /\ \A i \in Kinds : Denominations[i] \in Nat
  BY KindsType
<1>1. \A i \in Kinds : b[i] \in Nat /\ CoinValues(b)[i] \in Nat
                       /\ CoinValues(b)[i] = b[i] * Denominations[i]
  BY <1>0 DEF CoinBags, CoinValues
<1>2. 1..0 = {}
  OBVIOUS
<1>3. Cents(b, 0) = 0 /\ Number(b, 0) = 0
  BY <1>2, SumEmpty DEF Cents, Number
<1>4. ASSUME NEW k \in 0..(Last - 1)
      PROVE  /\ Cents(b, k + 1) = Cents(b, k) + b[k + 1] * Denominations[k + 1]
             /\ Number(b, k + 1) = Number(b, k) + b[k + 1]
  <2>1. 1..(k + 1) = (1..k) \cup {k + 1} /\ k + 1 \notin 1..k /\ IsFiniteSet(1..k)
    <3>1. 1..(k + 1) = (1..k) \cup {k + 1} /\ k + 1 \notin 1..k
      BY <1>0
    <3>2. 1 \in Int /\ k \in Int
      BY <1>0
    <3> QED BY <3>1, <3>2, FS_Interval
  <2>2. k + 1 \in Kinds /\ \A i \in (1..k) \cup {k + 1} : i \in Kinds
    BY <1>0
  <2>3. PICK S : S = 1..k
    OBVIOUS
  <2>4. PICK x : x = k + 1
    OBVIOUS
  <2>5. IsFiniteSet(S) /\ x \notin S /\ 1..(k + 1) = S \cup {x} /\ x \in Kinds
        /\ \A i \in S \cup {x} : i \in Kinds
    BY <2>1, <2>2, <2>3, <2>4
  <2>6. SumFunctionOnSet(CoinValues(b), S \cup {x}) = SumFunctionOnSet(CoinValues(b), S) + CoinValues(b)[x]
    <3>1. \A i \in S \cup {x} : CoinValues(b)[i] \in Int
      BY <1>1, <2>5
    <3> QED BY <2>5, <3>1, SumAdd
  <2>7. SumFunctionOnSet(b, S \cup {x}) = SumFunctionOnSet(b, S) + b[x]
    <3>1. \A i \in S \cup {x} : b[i] \in Int
      BY <1>1, <2>5
    <3> QED BY <2>5, <3>1, SumAdd
  <2> QED BY <1>1, <2>3, <2>4, <2>5, <2>6, <2>7 DEF Cents, Number
<1>5. \A k \in 0..Last : Cents(b, k) \in Nat /\ Number(b, k) \in Nat
  <2> DEFINE A == {k \in 0..Last : Cents(b, k) \in Nat /\ Number(b, k) \in Nat}
  <2>1. 0 \in A
    BY <1>0, <1>3
  <2>2. ASSUME NEW k \in 0..(Last - 1), k \in A PROVE k + 1 \in A
    <3>1. k + 1 \in 0..Last /\ k + 1 \in Kinds
      BY <1>0
    <3>2. b[k + 1] \in Nat /\ b[k + 1] * Denominations[k + 1] \in Nat
      BY <1>0, <1>1, <3>1
    <3> QED BY <1>4, <2>2, <3>1, <3>2
  <2>3. \A k \in 0..Last : k \in A
    <3> HIDE DEF A
    <3> QED BY <1>0, <2>1, <2>2, CountUp
  <2> QED BY <2>3
<1>6. Total(b) = Cents(b, Last) /\ Size(b) = Number(b, Last)
  BY <1>0 DEF Total, Size, Cents, Number, CoinValues
<1> QED BY <1>3, <1>4, <1>5, <1>6

\* A walk that gives a coin bag and ends with nothing left has given the amount.
LEMMA WalkTotal ==
  ASSUME NEW s \in CoinBags, NEW r \in [1..(Last + 1) -> Nat], r[1] = 0,
         \A i \in Kinds : r[i + 1] = r[i] + s[i] * Denominations[i]
  PROVE  \A k \in 0..Last : Cents(s, k) = r[k + 1]
<1>0. Last \in Nat \ {0} /\ Kinds = 1..Last
  BY KindsType
<1> DEFINE A == {k \in 0..Last : Cents(s, k) = r[k + 1]}
<1>1. 0 \in A
  BY <1>0, PrefixSums
<1>2. ASSUME NEW k \in 0..(Last - 1), k \in A PROVE k + 1 \in A
  <2>1. k + 1 \in 0..Last /\ k + 1 \in Kinds
    BY <1>0
  <2>2. Cents(s, k) = r[k + 1]
    BY <1>2
  <2>3. Cents(s, k + 1) = Cents(s, k) + s[k + 1] * Denominations[k + 1]
    BY PrefixSums
  <2>4. r[(k + 1) + 1] = r[k + 1] + s[k + 1] * Denominations[k + 1]
    BY <2>1
  <2> QED BY <2>1, <2>2, <2>3, <2>4
<1>3. \A k \in 0..Last : k \in A
  <2> HIDE DEF A
  <2> QED BY <1>0, <1>1, <1>2, CountUp
<1> QED BY <1>3

\* decompose gives the amount, with every denomination but the largest at most
\* once.
LEMMA DecomposeExact ==
  ASSUME NEW amount \in Nat
  PROVE  /\ Total(Decompose(amount)) = amount
         /\ \A k \in 0..(Last - 1) : Cents(Decompose(amount), k) < Denominations[k + 1]
<1> DEFINE s == Decompose(amount)
           r == DecomposeRest(amount)
<1>0. Last \in Nat \ {0} /\ Kinds = 1..Last /\ \A i \in Kinds : Denominations[i] \in Nat \ {0}
  BY KindsType
<1>1. s \in CoinBags
  BY DecomposeType
<1>2. /\ s = [i \in Kinds |-> r[i + 1] \div Denominations[i]]
      /\ r \in [1..(Last + 1) -> Nat] /\ r[Last + 1] = amount
      /\ \A i \in Kinds : r[i] = r[i + 1] % Denominations[i]
  BY DecomposeWalk
<1> HIDE DEF s, r
<1>3. ASSUME NEW i \in Kinds
      PROVE  /\ r[i + 1] = r[i] + s[i] * Denominations[i]
             /\ r[i] \in 0..(Denominations[i] - 1)
  <2>1. i + 1 \in 1..(Last + 1) /\ r[i + 1] \in Nat /\ Denominations[i] \in Nat \ {0}
    BY <1>0, <1>2
  <2>2. /\ r[i + 1] \div Denominations[i] \in Nat
        /\ r[i + 1] % Denominations[i] \in 0..(Denominations[i] - 1)
        /\ r[i + 1] = Denominations[i] * (r[i + 1] \div Denominations[i])
                        + (r[i + 1] % Denominations[i])
    BY <2>1, Division
  <2>3. s[i] = r[i + 1] \div Denominations[i] /\ r[i] = r[i + 1] % Denominations[i]
    BY <1>2
  <2> QED BY <2>1, <2>2, <2>3
<1>4. r[1] = 0
  <2>1. 1 \in Kinds /\ Denominations[1] = 1
    BY <1>0, KindsType
  <2> QED BY <1>3, <2>1
<1>5. \A k \in 0..Last : Cents(s, k) = r[k + 1]
  BY <1>1, <1>2, <1>3, <1>4, WalkTotal
<1>6. Total(s) = amount
  BY <1>0, <1>1, <1>2, <1>5, PrefixSums
<1>7. ASSUME NEW k \in 0..(Last - 1) PROVE Cents(s, k) < Denominations[k + 1]
  <2>1. k + 1 \in Kinds /\ k \in 0..Last
    BY <1>0
  <2>2. r[k + 1] \in 0..(Denominations[k + 1] - 1) /\ Denominations[k + 1] \in Nat
    BY <1>0, <1>3, <2>1
  <2> QED BY <1>5, <2>1, <2>2
<1> QED BY <1>6, <1>7 DEF s

\* A product with a positive factor.
LEMMA Cancel ==
  ASSUME NEW d \in Nat \ {0}, NEW x \in Int
  PROVE  /\ d * x = 0 => x = 0
         /\ d * x > -d => x >= 0
         /\ d * x >= 0 => x >= 0
OBVIOUS

\* Two bags of one total: below any denomination their values differ by a
\* multiple of it.
LEMMA Aligned ==
  ASSUME NEW b \in CoinBags, NEW s \in CoinBags, Total(b) = Total(s)
  PROVE  \A k \in 0..(Last - 1) : \E e \in Int :
           Cents(b, k) = Cents(s, k) + Denominations[k + 1] * e
<1>0. Last \in Nat \ {0} /\ Kinds = 1..Last /\ \A i \in Kinds : Denominations[i] \in Nat
  BY KindsType
<1>1. ASSUME NEW k \in 0..(Last - 1)
      PROVE  /\ Cents(b, k + 1) = Cents(b, k) + b[k + 1] * Denominations[k + 1]
             /\ Cents(s, k + 1) = Cents(s, k) + s[k + 1] * Denominations[k + 1]
             /\ Cents(b, k) \in Nat /\ Cents(s, k) \in Nat
             /\ b[k + 1] \in Nat /\ s[k + 1] \in Nat /\ Denominations[k + 1] \in Nat
  <2>1. k \in 0..Last /\ k + 1 \in Kinds
    BY <1>0
  <2> QED BY <1>0, <2>1, PrefixSums DEF CoinBags
<1> DEFINE A == {i \in 1..Last : \E e \in Int :
                   Cents(b, i - 1) = Cents(s, i - 1) + Denominations[i] * e}
<1>2. Last \in A
  <2>1. Last - 1 \in 0..(Last - 1) /\ (Last - 1) + 1 = Last
    BY <1>0
  <2>2. PICK k \in 0..(Last - 1) : k = Last - 1 /\ k + 1 = Last
    BY <2>1
  <2>3. Cents(b, k + 1) = Cents(s, k + 1)
    BY <2>2, PrefixSums
  <2>4. /\ Cents(b, k) = Cents(s, k) + Denominations[k + 1] * (s[k + 1] - b[k + 1])
        /\ s[k + 1] - b[k + 1] \in Int
    BY <1>1, <2>3
  <2> QED BY <1>0, <2>2, <2>4
<1>3. ASSUME NEW i \in 1..(Last - 1), i + 1 \in A PROVE i \in A
  <2>1. PICK k \in 0..(Last - 1) : k + 1 = i /\ i - 1 = k /\ (i + 1) - 1 = k + 1 /\ i \in 1..Last
    <3>1. i - 1 \in 0..(Last - 1) /\ (i - 1) + 1 = i /\ (i + 1) - 1 = (i - 1) + 1 /\ i \in 1..Last
      BY <1>0
    <3> QED BY <3>1
  <2>2. PICK e \in Int : Cents(b, k + 1) = Cents(s, k + 1) + Denominations[i + 1] * e
    BY <1>3, <2>1
  <2>3. Denominations[i + 1] = 2 * Denominations[k + 1]
    BY <2>1, KindsType
  <2>4. PICK y : y = 2 * e + s[k + 1] - b[k + 1]
    OBVIOUS
  <2>5. y \in Int
    BY <1>1, <2>4
  <2>6. Cents(b, k) = Cents(s, k) + Denominations[k + 1] * y
    BY <1>1, <2>2, <2>3, <2>4
  <2> QED BY <2>1, <2>5, <2>6
<1>4. \A i \in 1..Last : i \in A
  <2>1. Last - 1 \in Nat /\ (Last - 1) + 1 = Last
    BY <1>0
  <2> HIDE DEF A
  <2>2. PICK n \in Nat : n = Last - 1 /\ n + 1 = Last
    BY <2>1
  <2>3. n + 1 \in A /\ \A i \in 1..n : i + 1 \in A => i \in A
    BY <1>2, <1>3, <2>2
  <2>4. \A i \in 1..(n + 1) : i \in A
    BY <2>3, CountDown
  <2> QED BY <2>2, <2>4
<1>5. ASSUME NEW k \in 0..(Last - 1)
      PROVE  \E e \in Int : Cents(b, k) = Cents(s, k) + Denominations[k + 1] * e
  <2>1. k + 1 \in 1..Last /\ (k + 1) - 1 = k
    BY <1>0
  <2>2. k + 1 \in A
    BY <1>4, <2>1
  <2> QED BY <2>1, <2>2
<1> QED BY <1>5

\* decompose uses the fewest coins: from the smallest denomination up, a bag of
\* the same total has as many coins more as it has more value, counted in the next
\* denomination.
LEMMA DecomposeShortest ==
  ASSUME NEW b \in CoinBags
  PROVE  Size(Decompose(Total(b))) <= Size(b)
<1>0. Last \in Nat \ {0} /\ Kinds = 1..Last /\ \A i \in Kinds : Denominations[i] \in Nat \ {0}
  BY KindsType
<1>1. Total(b) \in Nat
  BY <1>0, PrefixSums
<1>2. PICK s \in CoinBags : s = Decompose(Total(b))
  BY <1>1, DecomposeType
<1>3. /\ Total(b) = Total(s)
      /\ \A k \in 0..(Last - 1) : Cents(s, k) < Denominations[k + 1]
  BY <1>1, <1>2, DecomposeExact
<1>4. ASSUME NEW k \in 0..(Last - 1)
      PROVE  /\ Cents(b, k + 1) = Cents(b, k) + b[k + 1] * Denominations[k + 1]
             /\ Cents(s, k + 1) = Cents(s, k) + s[k + 1] * Denominations[k + 1]
             /\ Number(b, k + 1) = Number(b, k) + b[k + 1]
             /\ Number(s, k + 1) = Number(s, k) + s[k + 1]
             /\ Cents(b, k) \in Nat /\ Cents(s, k) \in Nat
             /\ Number(b, k) \in Nat /\ Number(s, k) \in Nat
             /\ b[k + 1] \in Nat /\ s[k + 1] \in Nat /\ Denominations[k + 1] \in Nat \ {0}
  <2>1. k \in 0..Last /\ k + 1 \in Kinds
    BY <1>0
  <2> QED BY <1>0, <2>1, PrefixSums DEF CoinBags
<1> DEFINE Ahead(k, e) == Cents(b, k) = Cents(s, k) + Denominations[k + 1] * e
           A == {k \in 0..(Last - 1) : \A e \in Int : Ahead(k, e) => Number(b, k) >= Number(s, k) + e}
<1>5. ASSUME NEW k \in 0..(Last - 1), NEW e \in Int, Ahead(k, e)
      PROVE  e >= 0
  <2>1. Cents(s, k) < Denominations[k + 1]
    BY <1>3
  <2>2. Denominations[k + 1] * e > -Denominations[k + 1]
    <3>1. Denominations[k + 1] * e \in Int
      BY <1>4
    <3> QED BY <1>4, <1>5, <2>1, <3>1
  <2> QED BY <1>4, <2>2, Cancel
<1>6. 0 \in A
  <2>1. 0 \in 0..(Last - 1) /\ Denominations[0 + 1] = 1
    BY <1>0, KindsType
  <2>2. /\ Cents(b, 0) = 0 /\ Cents(s, 0) = 0 /\ Number(b, 0) = 0 /\ Number(s, 0) = 0
    BY PrefixSums
  <2>3. ASSUME NEW e \in Int, Ahead(0, e) PROVE e = 0
    BY <2>1, <2>2, <2>3
  <2> HIDE DEF Ahead
  <2> QED BY <2>1, <2>2, <2>3
<1>7. ASSUME NEW k \in 0..(Last - 2), k \in A PROVE k + 1 \in A
  <2>1. k \in 0..(Last - 1) /\ k + 1 \in 0..(Last - 1) /\ k + 1 \in 1..(Last - 1)
    BY <1>0
  <2>2. Denominations[(k + 1) + 1] = 2 * Denominations[k + 1]
    BY <2>1, KindsType
  <2> SUFFICES ASSUME NEW e \in Int, Ahead(k + 1, e)
               PROVE  Number(b, k + 1) >= Number(s, k + 1) + e
    BY <2>1
  <2>3. e >= 0
    BY <1>5, <2>1
  <2>4. PICK y \in Int : y = 2 * e + s[k + 1] - b[k + 1]
    BY <1>4, <2>1
  <2>5. Ahead(k, y)
    BY <1>4, <2>1, <2>2, <2>4
  <2>6. Number(b, k) >= Number(s, k) + y
    BY <1>7, <2>5
  <2> HIDE DEF Ahead
  <2> QED BY <1>4, <2>1, <2>3, <2>4, <2>6
<1>8. \A k \in 0..(Last - 1) : k \in A
  <2> HIDE DEF A
  <2>1. PICK n \in Nat : n = Last - 1 /\ n - 1 = Last - 2
    BY <1>0
  <2>2. 0 \in A /\ \A k \in 0..(n - 1) : k \in A => k + 1 \in A
    BY <1>6, <1>7, <2>1
  <2>3. \A k \in 0..n : k \in A
    BY <2>2, CountUp
  <2> QED BY <2>1, <2>3
<1>9. PICK k \in 0..(Last - 1) : k + 1 = Last
  BY <1>0
<1>10. PICK e \in Int : e = s[k + 1] - b[k + 1]
  BY <1>4
<1>11. Ahead(k, e)
  <2>1. Cents(b, k + 1) = Cents(s, k + 1)
    BY <1>3, <1>9, PrefixSums
  <2> QED BY <1>4, <1>10, <2>1
<1>12. Number(b, k) >= Number(s, k) + e
  BY <1>8, <1>11
<1> HIDE DEF A, Ahead
<1>13. Number(s, k + 1) <= Number(b, k + 1)
  BY <1>4, <1>10, <1>12
<1> QED BY <1>2, <1>9, <1>13, PrefixSums

\* decompose (wallet.rs): whatever the amount, what is withdrawn comes to it
\* exactly, and no coins make it with fewer.
THEOREM DecomposeIsShortest == purse \in CoinBags => DecomposesShortest
<1> SUFFICES ASSUME purse \in CoinBags PROVE DecomposesShortest
  OBVIOUS
<1>1. Total(purse) \in Nat
  <2>1. Last \in 0..Last
    BY KindsType
  <2> QED BY <2>1, PrefixSums
<1> QED BY <1>1, DecomposeExact, DecomposeShortest DEF DecomposesShortest

\* What remains of the amount at each denomination, in select_exact.
SelectRest(held, amount) ==
  CHOOSE left : left = [i \in 1..(Last + 1) |->
                          IF i = Last + 1 THEN amount
                          ELSE left[i + 1]
                                 - Denominations[i] * Smaller(held[i], left[i + 1] \div Denominations[i])]

\* The coins the walk takes, whether they come to the amount or not.
Taking(held, amount) ==
  [i \in Kinds |-> Smaller(held[i], SelectRest(held, amount)[i + 1] \div Denominations[i])]

\* As many coins as are held and fit.
LEMMA Fits ==
  ASSUME NEW h \in Nat, NEW x \in Nat, NEW d \in Nat \ {0}
  PROVE  /\ Smaller(h, x \div d) \in Nat /\ Smaller(h, x \div d) <= h
         /\ d * Smaller(h, x \div d) \in Nat /\ d * Smaller(h, x \div d) <= x
         /\ \A m \in Nat : m <= h /\ d * m <= x => m <= Smaller(h, x \div d)
<1>1. x \div d \in Nat /\ x % d \in 0..(d - 1) /\ x = d * (x \div d) + (x % d)
  BY Division
<1>2. PICK q \in Nat : q = x \div d
  BY <1>1
<1>3. d * q <= x /\ x < d * q + d
  BY <1>1, <1>2
<1>4. PICK m \in Nat : m = Smaller(h, q) /\ m <= h /\ m <= q /\ (m = h \/ m = q)
  BY DEF Smaller
<1>5. d * m \in Nat /\ d * m <= d * q
  <2>1. PICK z \in Nat : q = m + z
    <3>1. q - m \in Nat /\ q = m + (q - m)
      BY <1>4
    <3> QED BY <3>1
  <2>2. d * m \in Nat /\ d * z \in Nat /\ d * q = d * m + d * z
    BY <2>1
  <2> QED BY <2>2
<1>6. ASSUME NEW j \in Nat, j <= h, d * j <= x PROVE j <= m
  <2>1. d * (q - j) > -d
    <3>1. d * (q - j) = d * q - d * j /\ d * q \in Nat /\ d * j \in Nat
      OBVIOUS
    <3> QED BY <1>3, <1>6, <3>1
  <2>2. q - j \in Int
    OBVIOUS
  <2>3. q - j >= 0
    BY <2>1, <2>2, Cancel
  <2> QED BY <1>4, <1>6, <2>3
<1>7. d * m <= x /\ d * q \in Nat
  BY <1>3, <1>5
<1> QED BY <1>2, <1>4, <1>5, <1>6, <1>7

LEMMA SelectWalk ==
  ASSUME NEW held \in CoinBags, NEW amount \in Nat
  PROVE  /\ SelectExact(held, amount) =
              IF SelectRest(held, amount)[1] = 0 THEN Taking(held, amount) ELSE NoBag
         /\ Taking(held, amount) \in CoinBags
         /\ SelectRest(held, amount) \in [1..(Last + 1) -> Nat]
         /\ SelectRest(held, amount)[Last + 1] = amount
         /\ \A i \in Kinds :
              SelectRest(held, amount)[i + 1]
                = SelectRest(held, amount)[i] + Taking(held, amount)[i] * Denominations[i]
<1> DEFINE Take(i, x) == Smaller(held[i], x \div Denominations[i])
           Walk(g) == g = [i \in 1..(Last + 1) |->
                             IF i = Last + 1 THEN amount ELSE g[i + 1] - Denominations[i] * Take(i, g[i + 1])]
           r == SelectRest(held, amount)
           t == Taking(held, amount)
<1>0. Last \in Nat /\ Kinds = 1..Last /\ \A i \in Kinds : Denominations[i] \in Nat \ {0} /\ held[i] \in Nat
  BY KindsType DEF CoinBags
<1>1. SelectExact(held, amount) = IF r[1] = 0 THEN t ELSE NoBag
  BY DEF SelectExact, SelectRest, Taking
<1>2. ASSUME NEW i \in Kinds, NEW x \in Nat
      PROVE  /\ Take(i, x) \in Nat /\ Denominations[i] * Take(i, x) \in Nat
             /\ x - Denominations[i] * Take(i, x) \in Nat
  <2>1. /\ Take(i, x) \in Nat /\ Denominations[i] * Take(i, x) \in Nat
        /\ Denominations[i] * Take(i, x) <= x
    BY <1>0, Fits
  <2> HIDE DEF Take
  <2> QED BY <2>1
<1>3. \E g \in [1..(Last + 1) -> Nat] : Walk(g)
  <2> HIDE DEF Take
  <2> DEFINE F == [p \in (1..Last) \X Nat |-> p[2] - Denominations[p[1]] * Take(p[1], p[2])]
  <2>1. F \in [(1..Last) \X Nat -> Nat]
    BY <1>0, <1>2
  <2>2. \A i \in 1..Last, x \in Nat : F[<<i, x>>] = x - Denominations[i] * Take(i, x)
    OBVIOUS
  <2> HIDE DEF F
  <2>3. PICK g \in [1..(Last + 1) -> Nat] :
          g = [i \in 1..(Last + 1) |-> IF i = Last + 1 THEN amount ELSE F[<<i, g[i + 1]>>]]
    <3>1. Last \in Nat
      BY <1>0
    <3> QED BY <2>1, <3>1, WalkExists
  <2>4. ASSUME NEW i \in 1..(Last + 1)
        PROVE  g[i] = IF i = Last + 1 THEN amount ELSE g[i + 1] - Denominations[i] * Take(i, g[i + 1])
    <3>1. CASE i = Last + 1
      BY <2>3, <3>1
    <3>2. CASE i # Last + 1
      <4>1. i \in 1..Last /\ i + 1 \in 1..(Last + 1)
        BY <1>0, <3>2
      <4> QED BY <2>2, <2>3, <3>2, <4>1
    <3> QED BY <3>1, <3>2
  <2>5. Walk(g)
    BY <2>3, <2>4
  <2> QED BY <2>5
<1>4. Walk(r)
  BY <1>3 DEF SelectRest
<1>5. \A i \in Kinds : t[i] = Take(i, r[i + 1])
  BY DEF Taking
<1>6. t = [i \in Kinds |-> t[i]]
  BY DEF Taking
<1> HIDE DEF r, t, Take
<1>7. r[Last + 1] = amount
  BY <1>0, <1>4
<1>8. \A i \in Kinds : r[i] = r[i + 1] - Denominations[i] * Take(i, r[i + 1])
  <2> SUFFICES ASSUME NEW i \in Kinds PROVE r[i] = r[i + 1] - Denominations[i] * Take(i, r[i + 1])
    OBVIOUS
  <2>1. i \in 1..(Last + 1) /\ i # Last + 1
    BY <1>0
  <2> QED BY <1>4, <2>1
<1>9. \A i \in 1..(Last + 1) : r[i] \in Nat
  <2> DEFINE A == {i \in 1..(Last + 1) : r[i] \in Nat}
  <2>1. Last + 1 \in A
    BY <1>0, <1>7
  <2>2. ASSUME NEW i \in 1..Last, i + 1 \in A PROVE i \in A
    <3>1. i \in 1..(Last + 1) /\ i \in Kinds
      BY <1>0
    <3>2. r[i + 1] \in Nat
      BY <2>2
    <3>3. r[i + 1] - Denominations[i] * Take(i, r[i + 1]) \in Nat
      BY <1>2, <3>1, <3>2
    <3> QED BY <1>8, <3>1, <3>3
  <2>3. \A i \in 1..(Last + 1) : i \in A
    <3> HIDE DEF A
    <3> QED BY <1>0, <2>1, <2>2, CountDown
  <2> QED BY <2>3
<1>10. r \in [1..(Last + 1) -> Nat]
  BY <1>4, <1>9
<1>11. ASSUME NEW i \in Kinds PROVE t[i] \in Nat /\ r[i + 1] = r[i] + t[i] * Denominations[i]
  <2>1. i + 1 \in 1..(Last + 1) /\ r[i + 1] \in Nat /\ Denominations[i] \in Nat
    BY <1>0, <1>10
  <2>2. t[i] \in Nat /\ Denominations[i] * t[i] \in Nat
    BY <1>2, <1>5, <2>1
  <2>3. r[i] = r[i + 1] - Denominations[i] * t[i]
    BY <1>5, <1>8
  <2> QED BY <2>1, <2>2, <2>3
<1>12. t \in CoinBags
  BY <1>6, <1>11 DEF CoinBags
<1> QED BY <1>1, <1>7, <1>10, <1>11, <1>12 DEF r, t

\* Coins of the k smallest denominations that come to m of the next one or more
\* contain coins that come to it exactly.
LEMMA Split ==
  ASSUME NEW u \in CoinBags
  PROVE  \A k \in 0..(Last - 1) : \A m \in Nat :
           m * Denominations[k + 1] <= Cents(u, k) =>
             \E v \in CoinBags :
               /\ \A i \in Kinds : v[i] <= u[i] /\ (i > k => v[i] = 0)
               /\ Cents(v, k) = m * Denominations[k + 1]
<1>0. Last \in Nat \ {0} /\ Kinds = 1..Last /\ \A i \in Kinds : Denominations[i] \in Nat \ {0}
  BY KindsType
<1>00. \A i \in Kinds : u[i] \in Nat
  BY DEF CoinBags
<1> DEFINE Part(k, x) == \E v \in CoinBags :
             /\ \A i \in Kinds : v[i] <= u[i] /\ (i > k => v[i] = 0)
             /\ Cents(v, k) = x
           A == {k \in 0..(Last - 1) : \A m \in Nat :
                   m * Denominations[k + 1] <= Cents(u, k) => Part(k, m * Denominations[k + 1])}
<1>1. 0 \in A
  <2>1. 0 \in 0..(Last - 1) /\ Denominations[0 + 1] = 1
    BY <1>0, KindsType
  <2>2. Cents(u, 0) = 0
    BY PrefixSums
  <2>3. Part(0, 0)
    <3> DEFINE v == [i \in Kinds |-> 0]
    <3>1. v \in CoinBags
      BY DEF CoinBags
    <3>2. Cents(v, 0) = 0
      BY <3>1, PrefixSums
    <3>3. \A i \in Kinds : v[i] <= u[i] /\ v[i] = 0
      BY <1>00
    <3> HIDE DEF v
    <3> QED BY <3>1, <3>2, <3>3
  <2>4. ASSUME NEW m \in Nat, m * Denominations[0 + 1] <= Cents(u, 0) PROVE m * Denominations[0 + 1] = 0
    BY <2>1, <2>2, <2>4
  <2> HIDE DEF Part
  <2> QED BY <2>1, <2>3, <2>4
<1>2. ASSUME NEW k \in 0..(Last - 2), k \in A PROVE k + 1 \in A
  <2>1. k \in 0..(Last - 1) /\ k + 1 \in 0..(Last - 1) /\ k + 1 \in 1..(Last - 1) /\ k + 1 \in Kinds
        /\ k \in 0..Last
    BY <1>0
  <2>2. PICK d \in Nat \ {0} : d = Denominations[k + 1] /\ Denominations[(k + 1) + 1] = 2 * d
    BY <1>0, <2>1, KindsType
  <2> SUFFICES ASSUME NEW m \in Nat, m * (2 * d) <= Cents(u, k + 1)
               PROVE  Part(k + 1, m * (2 * d))
    BY <2>1, <2>2
  <2>3. PICK h \in Nat : h = u[k + 1] /\ Cents(u, k + 1) = Cents(u, k) + h * d
    BY <1>00, <2>1, <2>2, PrefixSums
  <2>4. Cents(u, k) \in Nat
    BY <2>1, PrefixSums
  <2>5. PICK t \in Nat, j \in Nat : 2 * m = t + j /\ t <= h /\ (t = h \/ j = 0)
    <3>1. CASE 2 * m <= h
      BY <3>1
    <3>2. CASE 2 * m > h
      <4>1. 2 * m - h \in Nat /\ 2 * m = h + (2 * m - h)
        BY <3>2
      <4> QED BY <4>1
    <3> QED BY <3>1, <3>2
  <2>6. j * d <= Cents(u, k)
    <3>1. CASE j = 0
      BY <2>4, <3>1
    <3>2. CASE t = h
      <4>1. m * (2 * d) = t * d + j * d
        <5>1. m * (2 * d) = (2 * m) * d
          OBVIOUS
        <5>2. (t + j) * d = t * d + j * d
          OBVIOUS
        <5> QED BY <2>5, <5>1, <5>2
      <4>2. t * d \in Nat /\ j * d \in Nat
        OBVIOUS
      <4> QED BY <2>3, <2>4, <3>2, <4>1, <4>2
    <3> QED BY <2>5, <3>1, <3>2
  <2>7. PICK v \in CoinBags : /\ \A i \in Kinds : v[i] <= u[i] /\ (i > k => v[i] = 0)
                              /\ Cents(v, k) = j * d
    BY <1>2, <2>2, <2>6
  <2> DEFINE w == [v EXCEPT ![k + 1] = t]
  <2>8. w \in CoinBags /\ w[k + 1] = t /\ \A i \in Kinds : i # k + 1 => w[i] = v[i]
    BY <2>1 DEF CoinBags
  <2> HIDE DEF w
  <2>9. \A i \in Kinds : w[i] <= u[i] /\ (i > k + 1 => w[i] = 0)
    BY <1>0, <2>1, <2>3, <2>5, <2>7, <2>8
  <2>10. Cents(w, k) = Cents(v, k)
    <3>1. IsFiniteSet(1..k) /\ \A i \in 1..k : CoinValues(w)[i] = CoinValues(v)[i]
      <4>1. \A i \in 1..k : i \in Kinds /\ i # k + 1
        BY <1>0
      <4>2. 1 \in Int /\ k \in Int
        BY <1>0
      <4> QED BY <2>8, <4>1, <4>2, FS_Interval DEF CoinValues
    <3>2. PICK S : S = 1..k
      OBVIOUS
    <3>3. SumFunctionOnSet(CoinValues(w), S) = SumFunctionOnSet(CoinValues(v), S)
      BY <3>1, <3>2, SumSame
    <3> QED BY <3>2, <3>3 DEF Cents
  <2>11. Cents(w, k + 1) = Cents(w, k) + t * d
    BY <2>1, <2>2, <2>8, PrefixSums
  <2>12. Cents(w, k + 1) = m * (2 * d)
    <3>1. m * (2 * d) = t * d + j * d
      <4>1. m * (2 * d) = (2 * m) * d
        OBVIOUS
      <4>2. (t + j) * d = t * d + j * d
        OBVIOUS
      <4> QED BY <2>5, <4>1, <4>2
    <3>2. t * d \in Nat /\ j * d \in Nat
      OBVIOUS
    <3> QED BY <2>7, <2>10, <2>11, <3>1, <3>2
  <2> QED BY <2>8, <2>9, <2>12
<1>3. \A k \in 0..(Last - 1) : k \in A
  <2> HIDE DEF A
  <2>1. PICK n \in Nat : n = Last - 1 /\ n - 1 = Last - 2
    BY <1>0
  <2>2. 0 \in A /\ \A k \in 0..(n - 1) : k \in A => k + 1 \in A
    BY <1>1, <1>2, <2>1
  <2>3. \A k \in 0..n : k \in A
    BY <2>2, CountUp
  <2> QED BY <2>1, <2>3
<1> QED BY <1>3

\* The value of two bags together.
LEMMA CentsAdd ==
  ASSUME NEW x \in CoinBags, NEW y \in CoinBags, NEW z \in CoinBags, NEW k \in 0..Last,
         \A i \in Kinds : i <= k => z[i] = x[i] + y[i]
  PROVE  Cents(z, k) = Cents(x, k) + Cents(y, k)
<1>0. Last \in Nat \ {0} /\ Kinds = 1..Last /\ \A i \in Kinds : Denominations[i] \in Nat
  BY KindsType
<1> DEFINE A == {j \in 0..k : Cents(z, j) = Cents(x, j) + Cents(y, j)}
<1>1. 0 \in A
  BY <1>0, PrefixSums
<1>2. ASSUME NEW j \in 0..(k - 1), j \in A PROVE j + 1 \in A
  <2>1. j \in 0..(Last - 1) /\ j \in 0..Last /\ j + 1 \in Kinds /\ j + 1 <= k /\ j + 1 \in 0..k
    BY <1>0
  <2>2. /\ Cents(x, j + 1) = Cents(x, j) + x[j + 1] * Denominations[j + 1]
        /\ Cents(y, j + 1) = Cents(y, j) + y[j + 1] * Denominations[j + 1]
        /\ Cents(z, j + 1) = Cents(z, j) + z[j + 1] * Denominations[j + 1]
        /\ Cents(x, j) \in Nat /\ Cents(y, j) \in Nat
    BY <2>1, PrefixSums
  <2>3. x[j + 1] \in Nat /\ y[j + 1] \in Nat /\ Denominations[j + 1] \in Nat
        /\ z[j + 1] = x[j + 1] + y[j + 1]
    BY <1>0, <2>1 DEF CoinBags
  <2>4. z[j + 1] * Denominations[j + 1]
          = x[j + 1] * Denominations[j + 1] + y[j + 1] * Denominations[j + 1]
    BY <2>3
  <2>5. Cents(z, j) = Cents(x, j) + Cents(y, j)
    BY <1>2
  <2>6. x[j + 1] * Denominations[j + 1] \in Nat /\ y[j + 1] * Denominations[j + 1] \in Nat
    BY <2>3
  <2> QED BY <2>1, <2>2, <2>4, <2>5, <2>6
<1>3. \A j \in 0..k : j \in A
  <2>1. k \in Nat
    BY <1>0
  <2> HIDE DEF A
  <2> QED BY <1>1, <1>2, <2>1, CountUp
<1> QED BY <1>0, <1>3

\* Bags that agree above k, and come to the same up to k, come to the same.
LEMMA SameTotal ==
  ASSUME NEW x \in CoinBags, NEW y \in CoinBags, NEW k \in 0..Last,
         Cents(x, k) = Cents(y, k), \A i \in Kinds : i > k => x[i] = y[i]
  PROVE  Total(x) = Total(y)
<1>0. Last \in Nat \ {0} /\ Kinds = 1..Last
  BY KindsType
<1> DEFINE A == {j \in 0..Last : j >= k => Cents(x, j) = Cents(y, j)}
<1>1. 0 \in A
  BY <1>0
<1>2. ASSUME NEW j \in 0..(Last - 1), j \in A PROVE j + 1 \in A
  <2>1. j + 1 \in Kinds /\ j + 1 \in 0..Last
    BY <1>0
  <2>2. /\ Cents(x, j + 1) = Cents(x, j) + x[j + 1] * Denominations[j + 1]
        /\ Cents(y, j + 1) = Cents(y, j) + y[j + 1] * Denominations[j + 1]
    BY PrefixSums
  <2>3. CASE j + 1 > k
    <3>1. x[j + 1] = y[j + 1] /\ j >= k
      BY <1>0, <2>1, <2>3
    <3> QED BY <1>2, <2>1, <2>2, <3>1
  <2>4. CASE j + 1 = k
    BY <2>1, <2>4
  <2>5. CASE j + 1 < k
    BY <1>0, <2>1, <2>5
  <2> QED BY <1>0, <2>3, <2>4, <2>5
<1>3. \A j \in 0..Last : j \in A
  <2>1. Last \in Nat
    BY <1>0
  <2> HIDE DEF A
  <2> QED BY <1>1, <1>2, <2>1, CountUp
<1>4. Last \in 0..Last /\ Last >= k
  BY <1>0
<1> QED BY <1>3, <1>4, PrefixSums

\* c and d can be paid from p at the same time.
BothFit(p, c, d) == \A i \in Kinds : c[i] + d[i] <= p[i]

\* One denomination of the walk: the coins of denomination k that the walk takes
\* and c does not, c gives smaller coins for, and d takes of those what it needs
\* for the coins of denomination k it gives up.
LEMMA Exchange ==
  ASSUME NEW p \in CoinBags, NEW c \in CoinBags, NEW d \in CoinBags, BothFit(p, c, d),
         NEW k \in Kinds, NEW t \in Nat, c[k] <= t, t <= p[k],
         t * Denominations[k] <= Cents(c, k)
  PROVE  \E c1 \in CoinBags, d1 \in CoinBags :
           /\ BothFit(p, c1, d1)
           /\ c1[k] = t /\ \A i \in Kinds : i > k => c1[i] = c[i]
           /\ Cents(c1, k) = Cents(c, k)
           /\ Total(d1) = Total(d)
<1>0. /\ Last \in Nat \ {0} /\ Kinds = 1..Last
      /\ \A i \in Kinds : Denominations[i] \in Nat \ {0} /\ c[i] \in Nat /\ d[i] \in Nat /\ p[i] \in Nat
  BY KindsType DEF CoinBags
<1>1. PICK l \in 0..(Last - 1) : l + 1 = k /\ l \in 0..Last /\ k \in 0..Last
  <2>1. k - 1 \in 0..(Last - 1) /\ (k - 1) + 1 = k /\ k - 1 \in 0..Last /\ k \in 0..Last
    BY <1>0
  <2> QED BY <2>1
<1>2. PICK e \in Nat \ {0} : e = Denominations[k]
  BY <1>0
<1>3. ASSUME NEW b \in CoinBags
      PROVE  /\ Cents(b, k) = Cents(b, l) + b[k] * e
             /\ Cents(b, l) \in Nat /\ b[k] \in Nat
  BY <1>1, <1>2, PrefixSums DEF CoinBags
\* How many coins c takes more, and how many d must give up.
<1>4. PICK m \in Nat : t = c[k] + m
  <2>1. t - c[k] \in Nat /\ t = c[k] + (t - c[k])
    BY <1>0
  <2> QED BY <2>1
<1>5. PICK x \in Nat : x <= m /\ x <= d[k] /\ t + (d[k] - x) <= p[k]
  <2>0. c[k] \in Nat /\ d[k] \in Nat /\ p[k] \in Nat /\ c[k] + d[k] <= p[k]
    BY <1>0 DEF BothFit
  <2>1. CASE t + d[k] <= p[k]
    <3>1. 0 <= m /\ 0 <= d[k] /\ t + (d[k] - 0) <= p[k]
      BY <2>0, <2>1
    <3> QED BY <3>1
  <2>2. CASE t + d[k] > p[k]
    <3>1. PICK x \in Int : x = t + d[k] - p[k]
      BY <2>0
    <3>2. x \in Nat /\ x <= m /\ x <= d[k] /\ t + (d[k] - x) <= p[k]
      BY <1>4, <2>0, <2>2, <3>1
    <3> QED BY <3>2
  <2> QED BY <2>0, <2>1, <2>2
<1>6. m * e <= Cents(c, l)
  <2>1. t * e = c[k] * e + m * e
    BY <1>0, <1>4
  <2>2. t * e <= Cents(c, l) + c[k] * e
    BY <1>2, <1>3
  <2>3. c[k] * e \in Nat /\ m * e \in Nat /\ Cents(c, l) \in Nat
    BY <1>0, <1>3
  <2> QED BY <2>1, <2>2, <2>3
<1>7. PICK u \in CoinBags : /\ \A i \in Kinds : u[i] <= c[i] /\ (i > l => u[i] = 0)
                            /\ Cents(u, l) = m * e
  <2>1. m * Denominations[l + 1] <= Cents(c, l)
    BY <1>1, <1>2, <1>6
  <2>2. \E u \in CoinBags : /\ \A i \in Kinds : u[i] <= c[i] /\ (i > l => u[i] = 0)
                            /\ Cents(u, l) = m * Denominations[l + 1]
    BY <2>1, Split
  <2> QED BY <1>1, <1>2, <2>2
<1>8. PICK v \in CoinBags : /\ \A i \in Kinds : v[i] <= u[i] /\ (i > l => v[i] = 0)
                            /\ Cents(v, l) = x * e
  <2>1. x * e <= m * e
    <3>1. PICK z \in Nat : m = x + z
      <4>1. m - x \in Nat /\ m = x + (m - x)
        BY <1>5
      <4> QED BY <4>1
    <3>2. m * e = x * e + z * e /\ z * e \in Nat /\ x * e \in Nat
      BY <3>1
    <3> QED BY <3>2
  <2>2. x * Denominations[l + 1] <= Cents(u, l)
    BY <1>1, <1>2, <1>7, <2>1
  <2>3. \E v \in CoinBags : /\ \A i \in Kinds : v[i] <= u[i] /\ (i > l => v[i] = 0)
                            /\ Cents(v, l) = x * Denominations[l + 1]
    BY <2>2, Split
  <2> QED BY <1>1, <1>2, <2>3
<1>9. \A i \in Kinds : u[i] \in Nat /\ v[i] \in Nat
  BY DEF CoinBags
<1> DEFINE c1 == [i \in Kinds |-> IF i = k THEN t ELSE c[i] - u[i]]
           d1 == [i \in Kinds |-> IF i = k THEN d[k] - x ELSE d[i] + v[i]]
<1>10. ASSUME NEW i \in Kinds
       PROVE  /\ i = k => c1[i] = t /\ d1[i] = d[k] - x
              /\ i # k => c1[i] = c[i] - u[i] /\ d1[i] = d[i] + v[i]
              /\ i > k => c1[i] = c[i] /\ d1[i] = d[i]
              /\ c1[i] \in Nat /\ d1[i] \in Nat
              /\ c1[i] + d1[i] <= p[i]
  <2>1. /\ c[i] \in Nat /\ d[i] \in Nat /\ p[i] \in Nat /\ u[i] \in Nat /\ v[i] \in Nat
        /\ u[i] <= c[i] /\ v[i] <= u[i] /\ c[i] + d[i] <= p[i]
    BY <1>0, <1>7, <1>8, <1>9 DEF BothFit
  <2>2. CASE i = k
    BY <1>0, <1>5, <2>1, <2>2
  <2>3. CASE i # k
    <3>1. c1[i] = c[i] - u[i] /\ d1[i] = d[i] + v[i]
      BY <2>3
    <3>2. i > k => u[i] = 0 /\ v[i] = 0
      BY <1>0, <1>1, <1>7, <1>8
    <3> HIDE DEF c1, d1
    <3> QED BY <2>1, <2>3, <3>1, <3>2
  <2> QED BY <2>2, <2>3
<1>11. c1 \in CoinBags /\ d1 \in CoinBags
  <2>1. c1 = [i \in Kinds |-> c1[i]] /\ d1 = [i \in Kinds |-> d1[i]]
    OBVIOUS
  <2> HIDE DEF c1, d1
  <2> QED BY <1>10, <2>1 DEF CoinBags
<1> HIDE DEF c1, d1
<1>12. \A i \in Kinds : i <= l => i # k
  BY <1>0, <1>1
<1>13. Cents(c1, k) = Cents(c, k)
  <2>1. Cents(c, l) = Cents(c1, l) + Cents(u, l)
    <3>1. \A i \in Kinds : i <= l => c[i] = c1[i] + u[i]
      BY <1>0, <1>9, <1>10, <1>12
    <3> QED BY <1>1, <1>11, <3>1, CentsAdd
  <2>2. Cents(c1, k) = Cents(c1, l) + t * e /\ Cents(c1, l) \in Nat
    BY <1>3, <1>10, <1>11
  <2>3. t * e = c[k] * e + m * e /\ c[k] * e \in Nat /\ m * e \in Nat
    BY <1>0, <1>4
  <2>4. Cents(c, k) = Cents(c, l) + c[k] * e
    BY <1>3
  <2> QED BY <1>7, <2>1, <2>2, <2>3, <2>4
<1>14. Cents(d1, k) = Cents(d, k)
  <2>1. Cents(d1, l) = Cents(d, l) + Cents(v, l)
    <3>1. \A i \in Kinds : i <= l => d1[i] = d[i] + v[i]
      BY <1>10, <1>12
    <3> QED BY <1>1, <1>11, <3>1, CentsAdd
  <2>2. Cents(d1, k) = Cents(d1, l) + d1[k] * e /\ d1[k] \in Nat /\ d[k] \in Nat
        /\ Cents(d, l) \in Nat
    BY <1>0, <1>3, <1>11
  <2>3. d[k] * e = d1[k] * e + x * e /\ d1[k] * e \in Nat /\ x * e \in Nat
    <3>1. d[k] = d1[k] + x
      BY <1>5, <1>10, <2>2
    <3> QED BY <2>2, <3>1
  <2>4. Cents(d, k) = Cents(d, l) + d[k] * e
    BY <1>3
  <2> QED BY <1>8, <2>1, <2>2, <2>3, <2>4
<1>15. Total(d1) = Total(d)
  BY <1>1, <1>10, <1>11, <1>14, SameTotal
<1> QED BY <1>10, <1>11, <1>13, <1>15 DEF BothFit

\* The walk of select_exact pays c's amount from p, and d's amount can be paid
\* from the rest.
LEMMA SelectPays ==
  ASSUME NEW p \in CoinBags, NEW c \in CoinBags, NEW d \in CoinBags, BothFit(p, c, d)
  PROVE  \E s \in CoinBags :
           /\ s = SelectExact(p, Total(c))
           /\ \A i \in Kinds : s[i] <= p[i]
           /\ Total(s) = Total(c)
           /\ \E d1 \in CoinBags : Total(d1) = Total(d) /\ BothFit(p, s, d1)
<1>0. /\ Last \in Nat \ {0} /\ Kinds = 1..Last
      /\ \A i \in Kinds : Denominations[i] \in Nat \ {0} /\ p[i] \in Nat
  BY KindsType DEF CoinBags
<1>1. Total(c) \in Nat /\ Total(c) = Cents(c, Last)
  <2>1. Last \in 0..Last
    BY <1>0
  <2> QED BY <2>1, PrefixSums
<1>2. PICK r : r = SelectRest(p, Total(c))
  OBVIOUS
<1>3. PICK s : s = Taking(p, Total(c))
  OBVIOUS
<1>4. /\ SelectExact(p, Total(c)) = IF r[1] = 0 THEN s ELSE NoBag
      /\ s \in CoinBags
      /\ r \in [1..(Last + 1) -> Nat] /\ r[Last + 1] = Total(c)
      /\ \A i \in Kinds : r[i + 1] = r[i] + s[i] * Denominations[i]
  BY <1>1, <1>2, <1>3, SelectWalk
<1>5. ASSUME NEW i \in Kinds
      PROVE  /\ s[i] \in Nat /\ s[i] <= p[i] /\ s[i] * Denominations[i] <= r[i + 1]
             /\ \A m \in Nat : m <= p[i] /\ m * Denominations[i] <= r[i + 1] => m <= s[i]
  <2>1. r[i + 1] \in Nat /\ p[i] \in Nat /\ Denominations[i] \in Nat \ {0}
    <3>1. i + 1 \in 1..(Last + 1)
      BY <1>0
    <3> QED BY <1>0, <1>4, <3>1
  <2>2. s[i] = Smaller(p[i], r[i + 1] \div Denominations[i])
    BY <1>2, <1>3 DEF Taking
  <2>3. /\ s[i] \in Nat /\ s[i] <= p[i] /\ Denominations[i] * s[i] <= r[i + 1]
        /\ \A m \in Nat : m <= p[i] /\ Denominations[i] * m <= r[i + 1] => m <= s[i]
    <3>1. PICK h \in Nat, x \in Nat, e \in Nat \ {0} : h = p[i] /\ x = r[i + 1] /\ e = Denominations[i]
      BY <2>1
    <3>2. PICK y : y = Smaller(h, x \div e)
      OBVIOUS
    <3>3. /\ y \in Nat /\ y <= h /\ e * y <= x
          /\ \A m \in Nat : m <= h /\ e * m <= x => m <= y
      BY <3>2, Fits
    <3>4. y = s[i]
      BY <2>2, <3>1, <3>2
    <3> QED BY <3>1, <3>3, <3>4
  <2>4. \A m \in Nat : Denominations[i] * m = m * Denominations[i]
    BY <2>1
  <2> QED BY <2>3, <2>4
<1> DEFINE Met(i, c1, d1) == /\ BothFit(p, c1, d1)
                             /\ \A j \in Kinds : j >= i => c1[j] = s[j]
                             /\ Cents(c1, i - 1) = r[i]
                             /\ Total(d1) = Total(d)
           A == {i \in 1..(Last + 1) : \E c1 \in CoinBags, d1 \in CoinBags : Met(i, c1, d1)}
<1>6. Last + 1 \in A
  <2>1. Last + 1 \in 1..(Last + 1) /\ (Last + 1) - 1 = Last /\ \A j \in Kinds : ~(j >= Last + 1)
    BY <1>0
  <2>2. Met(Last + 1, c, d)
    BY <1>1, <1>4, <2>1
  <2> QED BY <2>1, <2>2
<1>7. ASSUME NEW i \in 1..Last, i + 1 \in A PROVE i \in A
  <2>1. i \in Kinds /\ i \in 1..(Last + 1) /\ i + 1 \in 1..(Last + 1) /\ (i + 1) - 1 = i /\ i \in 0..Last
    BY <1>0
  <2>2. PICK c1 \in CoinBags, d1 \in CoinBags : Met(i + 1, c1, d1)
    BY <1>7
  <2>3. Cents(c1, i) = r[i + 1]
    BY <2>1, <2>2
  <2>4. PICK l \in 0..(Last - 1) : l = i - 1 /\ l + 1 = i /\ l \in 0..Last
    <3>1. i - 1 \in 0..(Last - 1) /\ (i - 1) + 1 = i /\ i - 1 \in 0..Last
      BY <1>0
    <3> QED BY <3>1
  <2>5. ASSUME NEW b \in CoinBags
        PROVE  /\ Cents(b, i) = Cents(b, l) + b[i] * Denominations[i] /\ Cents(b, l) \in Nat
               /\ b[i] \in Nat /\ b[i] * Denominations[i] \in Nat
    <3>1. b[i] \in Nat /\ Denominations[i] \in Nat
      BY <1>0, <2>1 DEF CoinBags
    <3> QED BY <2>4, <3>1, PrefixSums
  <2>6. c1[i] <= s[i]
    <3>1. c1[i] <= p[i]
      <4>1. c1[i] + d1[i] <= p[i] /\ c1[i] \in Nat /\ d1[i] \in Nat
        BY <2>1, <2>2 DEF BothFit, CoinBags
      <4> QED BY <1>0, <2>1, <4>1
    <3>2. c1[i] * Denominations[i] <= r[i + 1]
      BY <2>3, <2>5
    <3> QED BY <1>5, <2>1, <2>5, <3>1, <3>2
  <2>7. PICK c2 \in CoinBags, d2 \in CoinBags :
          /\ BothFit(p, c2, d2)
          /\ c2[i] = s[i] /\ \A j \in Kinds : j > i => c2[j] = c1[j]
          /\ Cents(c2, i) = Cents(c1, i)
          /\ Total(d2) = Total(d1)
    <3>1. s[i] \in Nat /\ s[i] <= p[i] /\ s[i] * Denominations[i] <= Cents(c1, i)
      BY <1>5, <2>1, <2>3
    <3>2. BothFit(p, c1, d1)
      BY <2>2
    <3> QED BY <2>1, <2>6, <3>1, <3>2, Exchange
  <2>8. ASSUME NEW j \in Kinds, j >= i PROVE c2[j] = s[j]
    <3>1. CASE j = i
      BY <2>7, <3>1
    <3>2. CASE j # i
      <4>1. j > i /\ j >= i + 1
        BY <1>0, <2>8, <3>2
      <4> QED BY <2>2, <2>7, <4>1
    <3> QED BY <3>1, <3>2
  <2>9. Cents(c2, i - 1) = r[i]
    <3>1. Cents(c2, i) = Cents(c2, l) + s[i] * Denominations[i] /\ Cents(c2, l) \in Nat
          /\ s[i] * Denominations[i] \in Nat
      BY <2>5, <2>7
    <3>2. r[i + 1] = r[i] + s[i] * Denominations[i] /\ r[i] \in Nat
      BY <1>4, <2>1
    <3>3. Cents(c2, i) = r[i + 1]
      BY <2>3, <2>7
    <3>4. Cents(c2, l) = r[i]
      BY <3>1, <3>2, <3>3
    <3> QED BY <2>4, <3>4
  <2>10. Met(i, c2, d2)
    BY <2>2, <2>7, <2>8, <2>9
  <2> QED BY <2>1, <2>10
<1>8. 1 \in A
  <2>1. Last \in Nat /\ 1 \in 1..(Last + 1)
    BY <1>0
  <2> HIDE DEF A
  <2> QED BY <1>6, <1>7, <2>1, CountDown
<1>9. PICK c1 \in CoinBags, d1 \in CoinBags : Met(1, c1, d1)
  BY <1>8
<1>10. c1 = s
  <2>1. \A j \in Kinds : c1[j] = s[j]
    BY <1>0, <1>9
  <2> QED BY <1>4, <2>1 DEF CoinBags
<1>11. r[1] = 0
  <2>1. Cents(c1, 0) = r[1]
    BY <1>9
  <2> QED BY <2>1, PrefixSums
<1>12. Total(s) = Total(c)
  <2>1. \A k \in 0..Last : Cents(s, k) = r[k + 1]
    BY <1>4, <1>11, WalkTotal
  <2>2. Last \in 0..Last
    BY <1>0
  <2> QED BY <1>4, <2>1, <2>2, PrefixSums
<1>13. s = SelectExact(p, Total(c))
  BY <1>4, <1>11
<1>14. Total(d1) = Total(d) /\ BothFit(p, s, d1)
  BY <1>9, <1>10
<1> QED BY <1>4, <1>5, <1>12, <1>13, <1>14

\* The bags SubBags enumerates are all those that fit.
LEMMA SubBagsType ==
  ASSUME NEW b \in CoinBags
  PROVE  \A c : c \in SubBags(b) <=> c \in CoinBags /\ \A i \in Kinds : c[i] <= b[i]
<1>0. Last \in Nat \ {0} /\ Kinds = 1..Last /\ \A i \in Kinds : b[i] \in Nat
  BY KindsType DEF CoinBags
<1> DEFINE A == {k \in 0..(Last - 1) : \E j \in 1..(k + 1) : \A i \in 1..(k + 1) : b[i] <= b[j]}
<1>1. 0 \in A
  <2>1. 0 \in 0..(Last - 1) /\ 1 \in Kinds /\ b[1] <= b[1] /\ \A i \in 1..(0 + 1) : i = 1
    BY <1>0
  <2> QED BY <2>1
<1>2. ASSUME NEW k \in 0..(Last - 2), k \in A PROVE k + 1 \in A
  <2>0. k + 1 \in 0..(Last - 1) /\ k + 2 \in Kinds /\ \A i \in 1..(k + 1) : i \in Kinds
    BY <1>0
  <2>1. PICK j \in 1..(k + 1) : \A i \in 1..(k + 1) : b[i] <= b[j]
    BY <1>2
  <2>2. \A i \in 1..((k + 1) + 1) : i \in 1..(k + 1) \/ i = k + 2
    BY <1>0
  <2>3. j \in 1..((k + 1) + 1) /\ k + 2 \in 1..((k + 1) + 1)
    BY <1>0
  <2>4. CASE b[k + 2] <= b[j]
    BY <2>0, <2>1, <2>2, <2>3, <2>4
  <2>5. CASE ~(b[k + 2] <= b[j])
    <3>1. b[k + 2] \in Nat /\ b[j] \in Nat
      BY <1>0, <2>0
    <3>2. ASSUME NEW i \in 1..((k + 1) + 1) PROVE b[i] <= b[k + 2]
      <4>1. CASE i \in 1..(k + 1)
        <5>1. b[i] \in Nat /\ b[i] <= b[j]
          BY <1>0, <2>0, <2>1, <4>1
        <5> QED BY <2>5, <3>1, <5>1
      <4>2. CASE i = k + 2
        BY <3>1, <4>2
      <4> QED BY <2>2, <4>1, <4>2
    <3> QED BY <2>0, <2>3, <3>2
  <2> QED BY <2>4, <2>5
<1>3. PICK j \in Kinds : \A i \in Kinds : b[i] <= b[j]
  <2>1. PICK n \in Nat : n = Last - 1 /\ n - 1 = Last - 2 /\ n + 1 = Last
    BY <1>0
  <2>2. n \in A
    <3> HIDE DEF A
    <3>1. 0 \in A /\ \A k \in 0..(n - 1) : k \in A => k + 1 \in A
      BY <1>1, <1>2, <2>1
    <3>2. n \in 0..n
      BY <2>1
    <3> QED BY <3>1, <3>2, CountUp
  <2> QED BY <1>0, <2>1, <2>2
<1>4. PICK S : S = {b[i] : i \in Kinds}
  OBVIOUS
<1>5. b[j] \in S /\ \A y \in S : b[j] >= y /\ y \in Nat
  BY <1>0, <1>3, <1>4
<1>6. PICK m : m = Max(S)
  OBVIOUS
<1>7. m \in S /\ \A y \in S : m >= y
  BY <1>5, <1>6 DEF Max
<1>8. m \in Nat /\ \A i \in Kinds : b[i] <= m
  BY <1>0, <1>4, <1>5, <1>7
<1>9. SubBags(b) = {c \in [Kinds -> 0..m] : \A i \in Kinds : c[i] <= b[i]}
  BY <1>4, <1>6 DEF SubBags
<1>10. ASSUME NEW c \in CoinBags, \A i \in Kinds : c[i] <= b[i]
       PROVE  c \in [Kinds -> 0..m]
  <2>1. ASSUME NEW i \in Kinds PROVE c[i] \in 0..m
    <3>1. c[i] \in Nat /\ b[i] \in Nat /\ b[i] <= m /\ c[i] <= b[i]
      BY <1>0, <1>8, <1>10 DEF CoinBags
    <3> QED BY <1>8, <3>1
  <2> QED BY <2>1 DEF CoinBags
<1>11. ASSUME NEW c \in [Kinds -> 0..m] PROVE c \in CoinBags
  BY <1>8 DEF CoinBags
<1> QED BY <1>9, <1>10, <1>11

\* select_exact (wallet.rs) is correct for every set of powers of two, every purse
\* and every amount: coins that make the amount exactly are found when there are
\* any, and the change is the best.
THEOREM SelectIsBest == purse \in CoinBags => SelectsBest
<1> SUFFICES ASSUME purse \in CoinBags, NEW c \in SubBags(purse)
             PROVE  /\ SelectExact(purse, Total(c)) \in SubBags(purse)
                    /\ Total(SelectExact(purse, Total(c))) = Total(c)
                    /\ \A d \in SubBags(Minus(purse, c)) :
                         SelectExact(Minus(purse, SelectExact(purse, Total(c))), Total(d)) # NoBag
  BY DEF SelectsBest
<1>0. Last \in Nat \ {0} /\ Kinds = 1..Last /\ \A i \in Kinds : purse[i] \in Nat
  BY KindsType DEF CoinBags
<1>1. c \in CoinBags /\ \A i \in Kinds : c[i] \in Nat /\ c[i] <= purse[i]
  BY SubBagsType DEF CoinBags
<1>2. PICK s : s = SelectExact(purse, Total(c))
  OBVIOUS
<1>3. ASSUME NEW d \in CoinBags, BothFit(purse, c, d)
      PROVE  /\ s \in CoinBags /\ \A i \in Kinds : s[i] <= purse[i]
             /\ Total(s) = Total(c)
             /\ \E d1 \in CoinBags : Total(d1) = Total(d) /\ BothFit(purse, s, d1)
  BY <1>1, <1>2, <1>3, SelectPays
<1>4. PICK z \in CoinBags : \A i \in Kinds : z[i] = 0
  <2>1. [i \in Kinds |-> 0] \in CoinBags
    BY DEF CoinBags
  <2> QED BY <2>1
<1>5. s \in CoinBags /\ (\A i \in Kinds : s[i] <= purse[i]) /\ Total(s) = Total(c)
  <2>1. BothFit(purse, c, z)
    BY <1>0, <1>1, <1>4 DEF BothFit
  <2> QED BY <1>3, <2>1
<1>6. s \in SubBags(purse)
  BY <1>5, SubBagsType
<1>7. ASSUME NEW b \in CoinBags, \A i \in Kinds : b[i] <= purse[i]
      PROVE  Minus(purse, b) \in CoinBags /\ \A i \in Kinds : Minus(purse, b)[i] = purse[i] - b[i]
  <2>1. ASSUME NEW i \in Kinds PROVE purse[i] - b[i] \in Nat
    <3>1. b[i] \in Nat /\ b[i] <= purse[i] /\ purse[i] \in Nat
      BY <1>0, <1>7 DEF CoinBags
    <3> QED BY <3>1
  <2> QED BY <2>1 DEF Minus, CoinBags
<1>8. ASSUME NEW d \in SubBags(Minus(purse, c))
      PROVE  SelectExact(Minus(purse, s), Total(d)) # NoBag
  <2>1. d \in CoinBags /\ \A i \in Kinds : d[i] <= purse[i] - c[i]
    BY <1>1, <1>7, SubBagsType
  <2>2. BothFit(purse, c, d)
    <3>1. ASSUME NEW i \in Kinds PROVE c[i] + d[i] <= purse[i]
      <4>1. c[i] \in Nat /\ d[i] \in Nat /\ purse[i] \in Nat /\ d[i] <= purse[i] - c[i]
        BY <1>0, <1>1, <2>1 DEF CoinBags
      <4> QED BY <4>1
    <3> QED BY <3>1 DEF BothFit
  <2>3. PICK d1 \in CoinBags : Total(d1) = Total(d) /\ BothFit(purse, s, d1)
    BY <1>3, <2>1, <2>2
  <2>4. PICK q \in CoinBags : q = Minus(purse, s) /\ \A i \in Kinds : q[i] = purse[i] - s[i]
    BY <1>5, <1>7
  <2>5. BothFit(q, d1, z)
    <3>1. ASSUME NEW i \in Kinds PROVE d1[i] + z[i] <= q[i]
      <4>1. /\ s[i] \in Nat /\ d1[i] \in Nat /\ purse[i] \in Nat /\ z[i] = 0
            /\ q[i] = purse[i] - s[i] /\ s[i] + d1[i] <= purse[i]
        BY <1>0, <1>4, <1>5, <2>3, <2>4 DEF CoinBags, BothFit
      <4> QED BY <4>1
    <3> QED BY <3>1 DEF BothFit
  <2>6. SelectExact(q, Total(d1)) \in CoinBags
    BY <1>4, <2>5, SelectPays
  <2>7. NoBag \notin CoinBags
    <3>1. DOMAIN NoBag = {} /\ 1 \in Kinds
      BY <1>0 DEF NoBag
    <3> QED BY <3>1 DEF CoinBags
  <2> QED BY <2>3, <2>4, <2>6, <2>7
<1> QED BY <1>2, <1>5, <1>6, <1>8
=============================================================================
