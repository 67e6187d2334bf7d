------------------------------- MODULE Wallet -------------------------------
(***************************************************************************)
(* Wallets, bundle files and the bank together (digicash-wallet: wallet.rs, *)
(* store.rs, client.rs and the command dispatch of lib.rs).                *)
(*                                                                         *)
(* A wallet runs one command at a time: sled locks the store's directory.  *)
(* A command is a sequence of requests to the bank and writes to the store *)
(* or a file, and may end between any two of them.  The bank is taken at   *)
(* its word: a withdrawal and a deposit are each one step, as              *)
(* WithdrawContract and DepositContract promise and BankWithdraw and       *)
(* BankDeposit implement.                                                  *)
(***************************************************************************)
EXTENDS WalletCoins, FiniteSets, Functions

CONSTANTS Wallets,
          AccountIds,
          Serials,          \* 256-bit serials; a random one is a fresh one
          Files,            \* paths of bundle files, which payer and payee share
          Amounts,          \* amounts users withdraw and spend
          InitialBalances,  \* balances accounts are created with
          Served,           \* positions of the denominations the bank serves
          NoWallet, NoAccount

ASSUME ConstantsAssumption ==
  /\ Amounts \subseteq Nat
  /\ InitialBalances \subseteq Nat
  /\ Served \subseteq Kinds
  /\ NoWallet \notin Wallets
  /\ NoAccount \notin AccountIds

Coins == [serial : Serials, kind : Kinds]
Empty == [i \in Kinds |-> 0]
Steps == {"idle", "save", "open", "withdraw", "store", "remove", "deposit"}

VARIABLES
  identities,  \* bank: the wallet whose key is registered for an account
  balance,     \* bank: balance_cents, of the accounts in accounts
  accounts,    \* bank: accounts that exist
  issued,      \* bank: coins it has signed and debited
  spent,       \* bank: coins it has credited
  identity,    \* store: the account of the stored identity
  coins,       \* store: the coin tree
  files,       \* bundle files: the coins each one holds
  step,        \* what a wallet's command does next
  account,     \* the account it registers
  due,         \* the denominations it has still to withdraw
  batch,       \* the coins it stores, removes or deposits
  undelivered, \* history: signed coins that never reached a store
  overwritten, \* history: coins of bundles that were written over
  cutOff,      \* history: coins in a bundle whose spend ended before their removal
  stranded,    \* history: accounts whose registered key no store has any more
  paidIn       \* history: opening balances

bank   == <<identities, balance, accounts, issued, spent>>
disk   == <<identity, coins, files>>
memory == <<step, account, due, batch>>
past   == <<undelivered, overwritten, cutOff, stranded, paidIn>>
vars   == <<identities, balance, accounts, issued, spent, identity, coins, files,
            step, account, due, batch, undelivered, overwritten, cutOff, stranded, paidIn>>

Init ==
  /\ identities = [a \in AccountIds |-> NoWallet]
  /\ balance = [a \in AccountIds |-> 0]
  /\ accounts = {} /\ issued = {} /\ spent = {}
  /\ identity = [w \in Wallets |-> NoAccount]
  /\ coins = [w \in Wallets |-> {}]
  /\ files = [f \in Files |-> {}]
  /\ step = [w \in Wallets |-> "idle"]
  /\ account = [w \in Wallets |-> NoAccount]
  /\ due = [w \in Wallets |-> Empty]
  /\ batch = [w \in Wallets |-> {}]
  /\ undelivered = {} /\ overwritten = {} /\ cutOff = {} /\ stranded = {}
  /\ paidIn = 0

-----------------------------------------------------------------------------
Value(c) == Denominations[c.kind]

\* A set of coins as a bag.
Count(S) == [i \in Kinds |-> Cardinality({c \in S : c.kind = i})]

\* The command goes on to s with the denominations d and the coins b.
Goto(w, s, d, b) ==
  /\ step' = [step EXCEPT ![w] = s]
  /\ due' = [due EXCEPT ![w] = d]
  /\ batch' = [batch EXCEPT ![w] = b]

Finish(w) ==
  /\ account' = [account EXCEPT ![w] = NoAccount]
  /\ Goto(w, "idle", Empty, {})

\* client(): a command that talks to the bank needs a complete identity.
HasClient(w) == identity[w] # NoAccount

\* A signed request of the wallet, which the bank lets through when the key it
\* has for the account is the wallet's; otherwise it fails (Fail).
SignedCall(w) == HasClient(w) /\ identities[identity[w]] = w

\* bank_public_keys: the bank publishes a key for the denomination.
HasKey(i) == i \in Served

\* Serial::generate: 256 random bits, a serial nobody has used.
FreshSerials == Serials \ {c.serial : c \in issued}

\* put_coin and remove_coin of the store, each flushed.
PutCoins(w, S) == coins' = [coins EXCEPT ![w] = @ \cup S]
DropCoin(w, c) == coins' = [coins EXCEPT ![w] = @ \ {c}]

-----------------------------------------------------------------------------
\* `account create`: a new key is registered at the bank, which refuses an
\* account that has one.
Register(w, a) ==
  /\ step[w] = "idle"
  /\ identities[a] = NoWallet
  /\ identities' = [identities EXCEPT ![a] = w]
  /\ account' = [account EXCEPT ![w] = a]
  /\ Goto(w, "save", Empty, {})
  /\ UNCHANGED <<balance, accounts, issued, spent, disk, past>>

\* Wrong variant: an identity the store has is kept.
SetIdentityKeepsFirst(w) ==
  /\ step[w] = "save"
  /\ identity' = [identity EXCEPT ![w] = IF @ = NoAccount THEN account[w] ELSE @]
  /\ Goto(w, "open", Empty, {})
  /\ UNCHANGED <<bank, coins, files, account, past>>

\* set_identity replaces whatever identity the store holds.
SetIdentity(w) ==
  /\ step[w] = "save"
  /\ identity' = [identity EXCEPT ![w] = account[w]]
  /\ stranded' = stranded \cup ({identity[w]} \ {NoAccount})
  /\ Goto(w, "open", Empty, {})
  /\ UNCHANGED <<bank, coins, files, account, undelivered, overwritten, cutOff, paidIn>>

\* create_account under the stored identity.
CreateAccount(w, b) ==
  /\ step[w] = "open"
  /\ SignedCall(w)
  /\ \/ /\ identity[w] \notin accounts
        /\ accounts' = accounts \cup {identity[w]}
        /\ balance' = [balance EXCEPT ![identity[w]] = b]
        /\ paidIn' = paidIn + b
     \/ /\ identity[w] \in accounts
        /\ UNCHANGED <<accounts, balance, paidIn>>
  /\ Finish(w)
  /\ UNCHANGED <<identities, issued, spent, disk, undelivered, overwritten, cutOff,
                 stranded>>

\* `withdraw`: the amount is decomposed ...
Withdraw(w, amount) ==
  /\ step[w] = "idle"
  /\ HasClient(w)
  /\ amount > 0
  /\ Goto(w, "withdraw", Decompose(amount), {})
  /\ UNCHANGED <<bank, disk, account, past>>

\* Wrong variant: the debit does not look at the balance.
WithdrawCoinUnchecked(w) ==
  \E i \in Kinds, s \in FreshSerials :
    /\ step[w] = "withdraw"
    /\ due[w][i] > 0
    /\ i \in Served
    /\ issued' = issued \cup {[serial |-> s, kind |-> i]}
    /\ balance' = [balance EXCEPT ![identity[w]] = @ - Denominations[i]]
    /\ Goto(w, "store", [due[w] EXCEPT ![i] = @ - 1], {[serial |-> s, kind |-> i]})
    /\ UNCHANGED <<identities, accounts, spent, account, disk, past>>

\* ... and for the largest denomination due a fresh serial is blinded and
\* signed; an unserved denomination, a missing account or a low balance ends
\* the command, with the coins withdrawn so far.
WithdrawCoin(w) ==
  \E i \in Kinds :
    /\ step[w] = "withdraw"
    /\ SignedCall(w)
    /\ due[w][i] > 0
    /\ \A j \in (i + 1)..Last : due[w][j] = 0
    /\ \/ /\ HasKey(i)
          /\ identity[w] \in accounts
          /\ balance[identity[w]] >= Denominations[i]
          /\ \E s \in FreshSerials :
               /\ issued' = issued \cup {[serial |-> s, kind |-> i]}
               /\ balance' = [balance EXCEPT ![identity[w]] = @ - Denominations[i]]
               /\ Goto(w, "store", [due[w] EXCEPT ![i] = @ - 1],
                       {[serial |-> s, kind |-> i]})
          /\ UNCHANGED account
       \/ /\ \/ ~HasKey(i)
             \/ identity[w] \notin accounts
             \/ balance[identity[w]] < Denominations[i]
          /\ Finish(w)
          /\ UNCHANGED <<issued, balance>>
    /\ UNCHANGED <<identities, accounts, spent, disk, past>>

\* The signature is unblinded and verified and put_coin stores the coin.
PutCoin(w) ==
  /\ step[w] = "store"
  /\ PutCoins(w, batch[w])
  /\ IF due[w] = Empty THEN Finish(w) ELSE Goto(w, "withdraw", due[w], {}) /\ UNCHANGED account
  /\ UNCHANGED <<bank, identity, files, past>>

\* Wrong variant: an error of the write is not noticed.
SpendUnwritten(w, amount, f) ==
  \E s \in SUBSET coins[w] :
    /\ step[w] = "idle"
    /\ Count(s) = SelectExact(Count(coins[w]), amount)
    /\ s # {}
    /\ files' = [files EXCEPT ![f] = {}]
    /\ overwritten' = overwritten \cup files[f]
    /\ Goto(w, "remove", Empty, s)
    /\ UNCHANGED <<bank, identity, coins, account, undelivered, cutOff, stranded, paidIn>>

\* `spend`: coins that make the amount are written over file f, then they are
\* removed from the store.  Which of the coins of a denomination are taken is
\* open (sort_unstable_by_key).  Without such coins nothing happens.
Spend(w, amount, f) ==
  \E s \in SUBSET coins[w] :
    /\ step[w] = "idle"
    /\ Count(s) = SelectExact(Count(coins[w]), amount)
    /\ files' = [files EXCEPT ![f] = s]
    /\ overwritten' = overwritten \cup files[f]
    /\ Goto(w, IF s = {} THEN "idle" ELSE "remove", Empty, s)
    /\ UNCHANGED <<bank, identity, coins, account, undelivered, cutOff, stranded, paidIn>>

\* fs::write truncates the file and fails, or the process dies in it; the
\* store is as before.
SpendFails(w, amount, f) ==
  /\ step[w] = "idle"
  /\ SelectExact(Count(coins[w]), amount) # NoBag
  /\ files' = [files EXCEPT ![f] = {}]
  /\ overwritten' = overwritten \cup files[f]
  /\ UNCHANGED <<bank, identity, coins, memory, undelivered, cutOff, stranded, paidIn>>

\* Wrong variant: the loop ends one coin early.
RemoveCoinStopsEarly(w) ==
  \E c \in batch[w] :
    /\ step[w] = "remove"
    /\ IF batch[w] = {c}
         THEN Finish(w) /\ UNCHANGED coins
         ELSE /\ coins' = [coins EXCEPT ![w] = @ \ {c}]
              /\ Goto(w, "remove", Empty, batch[w] \ {c}) /\ UNCHANGED account
    /\ UNCHANGED <<bank, identity, files, past>>

\* The coins are removed one after the other.
RemoveCoin(w) ==
  \E c \in batch[w] :
    /\ step[w] = "remove"
    /\ DropCoin(w, c)
    /\ IF batch[w] = {c}
         THEN Finish(w)
         ELSE Goto(w, "remove", Empty, batch[w] \ {c}) /\ UNCHANGED account
    /\ UNCHANGED <<bank, identity, files, past>>

\* `deposit`: the bundle is read once ...
Deposit(w, f) ==
  /\ step[w] = "idle"
  /\ HasClient(w)
  /\ files[f] # {}
  /\ Goto(w, "deposit", Empty, files[f])
  /\ UNCHANGED <<bank, disk, account, past>>

\* Wrong variant: the bank does not look at its spent serials.
DepositCoinTwice(w) ==
  \E c \in batch[w] :
    /\ step[w] = "deposit"
    /\ identity[w] \in accounts
    /\ balance' = [balance EXCEPT ![identity[w]] = @ + Value(c)]
    /\ spent' = spent \cup {c}
    /\ IF batch[w] = {c}
         THEN Finish(w)
         ELSE Goto(w, "deposit", Empty, batch[w] \ {c}) /\ UNCHANGED account
    /\ UNCHANGED <<identities, accounts, issued, disk, past>>

\* ... and its coins are sent one after the other, each under a new request_id:
\* credited, or rejected as spent or for an account that does not exist; a
\* rejection does not end the command.
DepositCoin(w) ==
  \E c \in batch[w] :
    /\ step[w] = "deposit"
    /\ SignedCall(w)
    /\ IF c \notin spent /\ identity[w] \in accounts
         THEN /\ balance' = [balance EXCEPT ![identity[w]] = @ + Value(c)]
              /\ spent' = spent \cup {c}
         ELSE UNCHANGED <<balance, spent>>
    /\ IF batch[w] = {c}
         THEN Finish(w)
         ELSE Goto(w, "deposit", Empty, batch[w] \ {c}) /\ UNCHANGED account
    /\ UNCHANGED <<identities, accounts, issued, disk, past>>

\* A request fails or its response is lost, the store fails, or the process is
\* killed: the command ends and its memory is lost, the blinding of a signed
\* coin included.  In set_identity some of the keys may have been written:
\* the bank refuses the mix, which is as good as no identity.
Fail(w) ==
  /\ step[w] # "idle"
  /\ undelivered' = IF step[w] = "store" THEN undelivered \cup batch[w] ELSE undelivered
  /\ cutOff' = IF step[w] = "remove" THEN cutOff \cup batch[w] ELSE cutOff
  /\ \E a \in IF step[w] = "save" THEN {identity[w], NoAccount, account[w]}
              ELSE {identity[w]} :
       /\ identity' = [identity EXCEPT ![w] = a]
       /\ stranded' = IF step[w] = "save"
                        THEN stranded \cup ({identity[w], account[w]} \ {a, NoAccount})
                        ELSE stranded
  /\ Finish(w)
  /\ UNCHANGED <<bank, coins, files, overwritten, paidIn>>

Next ==
  \E w \in Wallets :
    \/ \E a \in AccountIds : Register(w, a)
    \/ SetIdentity(w)
    \/ \E b \in InitialBalances : CreateAccount(w, b)
    \/ \E amount \in Amounts : Withdraw(w, amount)
    \/ WithdrawCoin(w)
    \/ PutCoin(w)
    \/ \E amount \in Amounts, f \in Files : Spend(w, amount, f) \/ SpendFails(w, amount, f)
    \/ RemoveCoin(w)
    \/ \E f \in Files : Deposit(w, f)
    \/ DepositCoin(w)
    \/ Fail(w)

Spec == Init /\ [][Next]_vars

-----------------------------------------------------------------------------
(* Properties *)

\* The bank's tables, the stores, the files and the commands' memory hold
\* values of their types; no account is overdrawn.
TypeOK ==
  /\ identities \in [AccountIds -> Wallets \cup {NoWallet}]
  /\ balance \in [AccountIds -> Nat]
  /\ accounts \subseteq AccountIds
  /\ issued \subseteq Coins /\ spent \subseteq Coins
  /\ identity \in [Wallets -> AccountIds \cup {NoAccount}]
  /\ coins \in [Wallets -> SUBSET Coins]
  /\ files \in [Files -> SUBSET Coins]
  /\ step \in [Wallets -> Steps]
  /\ account \in [Wallets -> AccountIds \cup {NoAccount}]
  /\ due \in [Wallets -> CoinBags]
  /\ batch \in [Wallets -> SUBSET Coins]
  /\ undelivered \subseteq Coins /\ overwritten \subseteq Coins /\ cutOff \subseteq Coins
  /\ stranded \subseteq AccountIds
  /\ paidIn \in Nat

\* Where value can go: every coin an account was debited for is on its way to a
\* store, in a store, in a bundle or credited, unless the response with its
\* signature was lost or its bundle was written over.  Nothing else loses a
\* coin, wherever a command fails: not a spend cut off between the bundle and
\* the removals, nor a deposit cut off between two coins.
CoinsAccountedFor ==
  issued \subseteq
    UNION ({coins[w] : w \in Wallets} \cup {files[f] : f \in Files}
           \cup {batch[w] : w \in {v \in Wallets : step[v] = "store"}}
           \cup {spent, undelivered, overwritten})

\* Money is neither made nor lost by any mix of commands, failures and spends
\* of one coin in several bundles: what was paid in is what the accounts hold
\* and the coins signed and not yet credited.
MoneyConserved ==
  paidIn = SumFunctionOnSet(balance, accounts)
             + SumFunctionOnSet([c \in Coins |-> Value(c)], issued \ spent)

\* "then remove from the local store so the wallet will not re-spend them"
\* (wallet.rs, spend) holds up to one window: a coin is in two bundles only
\* after the spend into the first one was cut off before the coin's removal.
RespendNeedsCutOff ==
  \A f, g \in Files : f # g => files[f] \cap files[g] \subseteq cutOff

\* What an idle wallet shows as held is good money, up to the same window.
HeldCoinsAreGood ==
  \A w \in Wallets : step[w] = "idle" => coins[w] \cap spent \subseteq cutOff

\* An account the bank has a key for can be used from the wallet that made the
\* key, unless its registration was cut off between the bank's answer and
\* set_identity or a later `account create` of the wallet replaced the stored
\* identity; and those are lost for good, since the bank refuses a second key.
AccountsStayUsable ==
  \A a \in AccountIds, w \in Wallets :
    identities[a] = w =>
      (a \notin stranded <=> identity[w] = a \/ (step[w] = "save" /\ account[w] = a))
=============================================================================
