----------------------------- MODULE MCKeyStore -----------------------------
(***************************************************************************)
(* KeyStore with two server processes on one directory.                    *)
(***************************************************************************)
EXTENDS KeyStore, TLC

CONSTANTS d1, ca

MCOrder == <<d1, ca>>

\* Processes are interchangeable, and so are key pairs.
Symmetry == Permutations(Processes) \cup Permutations(KeyIds)
=============================================================================
