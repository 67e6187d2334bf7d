--------------------------- MODULE MCBankWithdraw ---------------------------
(***************************************************************************)
(* BankWithdraw on small instances.  Requests holds retries (the same      *)
(* record sent again), a request_id reused with another message, account   *)
(* and denomination, and a denomination the bank has no key for.           *)
(***************************************************************************)
EXTENDS BankWithdraw

CONSTANTS r1, r2, alice, bob, good, other, bad

Req(i, a, d, m) == [id |-> i, account |-> a, denom |-> d, message |-> m]

\* Two request_ids; r1 is sent for two accounts, with two messages.
SignableRequests ==
  {Req(r1, alice, 1, good), Req(r1, bob, 2, other), Req(r2, alice, 2, good),
   Req(r2, alice, 3, good)}

\* r1 is sent with a message the bank can sign and with one it cannot.
MixedRequests ==
  {Req(r1, alice, 1, bad), Req(r1, alice, 1, good), Req(r2, alice, 2, bad),
   Req(r2, bob, 1, good)}

\* One request whose message cannot be signed, sent twice.
BadRequests == {Req(r1, alice, 1, bad)}
=============================================================================
