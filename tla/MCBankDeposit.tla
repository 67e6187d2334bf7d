--------------------------- MODULE MCBankDeposit ----------------------------
(***************************************************************************)
(* BankDeposit on small instances.  Requests holds retries, a coin sent    *)
(* under two request_ids, two coins under one request_id, one coin for two *)
(* accounts, and an account that need not exist.                           *)
(***************************************************************************)
EXTENDS BankDeposit

CONSTANTS q1, q2, alice, bob, c1, c2, forged

Req(i, a, c) == [id |-> i, account |-> a, coin |-> c]

MCValue(c) == IF c = c1 THEN 1 ELSE 2

\* c1 under two request_ids, and under one of them for two accounts; q2 with three
\* coins and two accounts.
SharedCoinRequests ==
  {Req(q1, alice, c1), Req(q1, bob, c1), Req(q2, bob, c1), Req(q2, alice, c2),
   Req(q2, bob, forged)}

\* What a request found on arrival matters as long as it may be answered
\* DoubleSpend, and then in that answer; no property is about UnknownAccount.
found == [h \in Handlers |-> fresh[h] /\ stage[h] \in {"submit", "select", "serial"}]

told == {<<x.req, x.outcome, x.fresh /\ x.outcome = "DoubleSpend">> :
           x \in {y \in replies : y.outcome # "UnknownAccount"}}

View == <<db, net, stage, job, found, told, opening>>

\* One request, and its retries.
OneRequest == {Req(q1, alice, c1)}
=============================================================================
