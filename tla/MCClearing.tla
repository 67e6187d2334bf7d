----------------------------- MODULE MCClearing -----------------------------
(***************************************************************************)
(* Clearing with two banks that share their denomination keys, as in the   *)
(* end-to-end test: bankA has issued the coins.                            *)
(***************************************************************************)
EXTENDS Clearing

CONSTANTS bankA, bankB, q1, a1, a2

Req(b, i, c) == [id |-> <<b, i>>, account |-> b, coin |-> c]

\* a1 at both banks; q1 of bankB with two coins.
MCRequests == {Req(bankA, q1, a1), Req(bankB, q1, a1), Req(bankB, q1, a2)}

MCIssuer(j) == bankA
MCValue(c)  == IF c = a1 THEN 1 ELSE 2

\* What the steps and the properties read: of the registry's replies those that
\* are not refusals at a cap, of the banks' answers the acceptances, and no letIn
\* or raced, which are about caps and settlements.
served == {x \in replies : x.outcome # "ExposureCapExceeded"}

View == <<members, caps, serials, transcripts, receivables, claims, mem, owed, served,
          ledger, phase, request, wire, accepted, lost>>
=============================================================================
