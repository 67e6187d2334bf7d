--------------------------- MODULE DepositContract --------------------------
(***************************************************************************)
(* What the bank promises about deposits, with no transactions, locks or   *)
(* retries: a coin is redeemed at most once, in one step with its credit,  *)
(* a request_id redeems at most one coin, and a deposit is reported as     *)
(* accepted only for a coin redeemed under its request_id.                 *)
(***************************************************************************)
EXTENDS Naturals

CONSTANTS AccountIds, RequestIds, Coins,
          Requests,     \* deposit requests [id, account, coin]
          Amounts,      \* balances an account can be opened with
          Value(_),     \* a coin's denomination in cents
          NoRequest

VARIABLES accounts,  \* accounts that exist
          balance,   \* [AccountIds -> Nat]
          redeemed,  \* [RequestIds -> Requests \cup {NoRequest}]
          accepted   \* [id, coin] pairs reported to clients as accepted

vars == <<accounts, balance, redeemed, accepted>>

Init ==
  /\ accounts = {}
  /\ balance = [a \in AccountIds |-> 0]
  /\ redeemed = [i \in RequestIds |-> NoRequest]
  /\ accepted = {}

Open(a, b) ==
  /\ a \notin accounts
  /\ accounts' = accounts \cup {a}
  /\ balance' = [balance EXCEPT ![a] = b]
  /\ UNCHANGED <<redeemed, accepted>>

Redeem(r) ==
  /\ r.account \in accounts
  /\ redeemed[r.id] = NoRequest
  /\ \A i \in RequestIds : redeemed[i] # NoRequest => redeemed[i].coin # r.coin
  /\ redeemed' = [redeemed EXCEPT ![r.id] = r]
  /\ balance' = [balance EXCEPT ![r.account] = balance[r.account] + Value(r.coin)]
  /\ accepted' = accepted \cup {[id |-> r.id, coin |-> r.coin]}
  /\ UNCHANGED accounts

Confirm(i) ==
  /\ redeemed[i] # NoRequest
  /\ accepted' = accepted \cup {[id |-> i, coin |-> redeemed[i].coin]}
  /\ UNCHANGED <<accounts, balance, redeemed>>

Next ==
  \/ \E a \in AccountIds, b \in Amounts : Open(a, b)
  \/ \E r \in Requests : Redeem(r)
  \/ \E i \in RequestIds : Confirm(i)

Spec == Init /\ [][Next]_vars
=============================================================================
