-------------------------- MODULE WithdrawContract --------------------------
(***************************************************************************)
(* What the bank promises about withdrawals, with no handlers, retries,    *)
(* crashes or recovery: a request_id is funded at most once, by one debit, *)
(* and a funded request ends in exactly one of two ways, a signature or a  *)
(* refund.  Every reply to the request_id carries the one signature that   *)
(* was issued.  BankWithdraw is the code's way of keeping this promise.    *)
(***************************************************************************)
EXTENDS Naturals

CONSTANTS AccountIds,       \* account ids
          RequestIds,       \* client-chosen idempotency keys
          Requests,         \* withdraw requests [id, account, denom, message]
          Amounts,          \* sums that can be paid into an account
          NoRequest,        \* the request of a request_id never funded
          SignatureOf(_)    \* the blind signature a request is entitled to

VARIABLES accounts,   \* accounts that exist
          balance,    \* [AccountIds -> Nat]
          outcome,    \* [RequestIds -> {"none", "funded", "issued", "refunded"}]
          order,      \* [RequestIds -> Requests \cup {NoRequest}]
          replies     \* signatures returned to clients, [id, sig]

vars == <<accounts, balance, outcome, order, replies>>

Init ==
  /\ accounts = {}
  /\ balance = [a \in AccountIds |-> 0]
  /\ outcome = [i \in RequestIds |-> "none"]
  /\ order = [i \in RequestIds |-> NoRequest]
  /\ replies = {}

Open(a, b) ==
  /\ a \notin accounts
  /\ accounts' = accounts \cup {a}
  /\ balance' = [balance EXCEPT ![a] = b]
  /\ UNCHANGED <<outcome, order, replies>>

PayIn(a, d) ==
  /\ a \in accounts
  /\ balance' = [balance EXCEPT ![a] = balance[a] + d]
  /\ UNCHANGED <<accounts, outcome, order, replies>>

Fund(r) ==
  /\ outcome[r.id] = "none"
  /\ r.account \in accounts
  /\ balance[r.account] >= r.denom
  /\ balance' = [balance EXCEPT ![r.account] = balance[r.account] - r.denom]
  /\ outcome' = [outcome EXCEPT ![r.id] = "funded"]
  /\ order' = [order EXCEPT ![r.id] = r]
  /\ UNCHANGED <<accounts, replies>>

Issue(i) ==
  /\ outcome[i] = "funded"
  /\ outcome' = [outcome EXCEPT ![i] = "issued"]
  /\ UNCHANGED <<accounts, balance, order, replies>>

Refund(i) ==
  /\ outcome[i] = "funded"
  /\ outcome' = [outcome EXCEPT ![i] = "refunded"]
  /\ balance' = [balance EXCEPT
                   ![order[i].account] = balance[order[i].account] + order[i].denom]
  /\ UNCHANGED <<accounts, order, replies>>

Reply(i) ==
  /\ outcome[i] = "issued"
  /\ replies' = replies \cup {[id |-> i, sig |-> SignatureOf(order[i])]}
  /\ UNCHANGED <<accounts, balance, outcome, order>>

Next ==
  \/ \E a \in AccountIds, b \in Amounts : Open(a, b) \/ PayIn(a, b)
  \/ \E r \in Requests : Fund(r)
  \/ \E i \in RequestIds : Issue(i) \/ Refund(i) \/ Reply(i)

Spec == Init /\ [][Next]_vars
=============================================================================
