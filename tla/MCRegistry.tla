----------------------------- MODULE MCRegistry -----------------------------
(***************************************************************************)
(* Registry with two member banks, each configured with the other one as   *)
(* the issuer, and up to three coins.  A handler serves submissions and    *)
(* settlements.                                                            *)
(***************************************************************************)
EXTENDS Registry, TLC

CONSTANTS bankA, bankB, a1, a2, a3, h1, h2

MCIssuer(j) == IF j.bank = bankA THEN bankB ELSE bankA

MCValue(c) == 1

\* What settlements and caps depend on: no step reads replies, and transcripts
\* only flow into them, so the runs, which have no property about them, leave
\* both out ...
MoneyView ==
  <<members, caps, serials, receivables, claims, mem, owed, letIn, raced>>

\* ... and the caps of pairs that no submission is about.
CapView ==
  <<members, [p \in {PairOf(j) : j \in Jobs} |-> caps[p]], serials, receivables,
    claims, mem, owed, letIn, raced>>

\* Coins of one value, and handlers, are interchangeable.
Symmetry == Permutations({a1, a2, a3}) \cup Permutations({h1, h2})
=============================================================================
