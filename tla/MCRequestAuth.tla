--------------------------- MODULE MCRequestAuth ----------------------------
(***************************************************************************)
(* RequestAuth on small instances: the timestamps lie around the middle of *)
(* the clock's range, so a request arrives too early, in its window and    *)
(* too late; two requests share a nonce.                                   *)
(***************************************************************************)
EXTENDS RequestAuth

CONSTANTS alice, bob, k1, k2, n1, n2

Signed(a, k, t, n) ==
  [account |-> a, target |-> alice, key |-> k, timestamp |-> t, nonce |-> n]

\* All are about alice; one is signed for bob, one with another key.
MCRequests ==
  {Signed(alice, k1, 4, n1), Signed(alice, k1, 5, n1), Signed(alice, k2, 4, n2),
   Signed(bob, k2, 4, n2)}
=============================================================================
