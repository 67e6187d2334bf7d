------------------------------ MODULE Clearing ------------------------------
(***************************************************************************)
(* Several banks that share one registry: the submission a bank makes      *)
(* before it credits a deposit (digicash-bank: bank.rs, deposit, and       *)
(* registry_client.rs) against the registry's transactions (Registry).     *)
(*                                                                         *)
(* A bank's own transaction is one step here, as DepositContract promises  *)
(* and BankDeposit implements; what is in between is the network and two   *)
(* servers that fail on their own.  A bank's handler may be gone while its *)
(* submission is still on the wire or at the registry, and an answer may   *)
(* be lost after the registry has committed.                               *)
(***************************************************************************)
EXTENDS Registry, Functions

\* Submitters are the handlers of the banks, each with the registry's handler
\* that serves it; there are no Settlers here.
CONSTANTS Ids,       \* request_ids; every bank has its own
          Requests,  \* the deposits clients send: [id, account, coin]
          NoRequest

\* A bank has one account here, named after it.
DepositRequests == [id : Banks \X Ids, account : Banks, coin : Coins]

ASSUME RequestsAssumption ==
  /\ Requests \subseteq DepositRequests
  /\ \A r \in Requests : r.id[1] = r.account
  /\ NoRequest \notin Requests

\* What a bank is owed is summed over the issuers.
ASSUME FinitenessAssumption == IsFiniteSet(Banks)

VARIABLES
  accounts,  \* banks whose account exists
  balance,   \* its balance_cents
  deposits,  \* the banks' deposits tables
  phase,     \* where a bank's handler is: "idle", "sent" or "commit"
  request,   \* the deposit it handles
  wire,      \* its submission on the way to the registry
  answers,   \* what banks answered, [req, outcome]
  lost       \* history: coins whose acceptance found no handler that credits them

ledger == <<accounts, balance, deposits>>
clearingVars == <<vars, ledger, phase, request, wire, answers, lost>>

ClearingInit ==
  /\ Init
  /\ accounts = {}
  /\ balance = [b \in Banks |-> 0]
  /\ deposits = [i \in Banks \X Ids |-> NoRequest]
  /\ phase = [h \in Submitters |-> "idle"]
  /\ request = [h \in Submitters |-> NoRequest]
  /\ wire = [h \in Submitters |-> NoJob]
  /\ answers = {} /\ lost = {}

-----------------------------------------------------------------------------
EndDeposit(h) ==
  /\ phase' = [phase EXCEPT ![h] = "idle"]
  /\ request' = [request EXCEPT ![h] = NoRequest]

AnswerClient(h, outcome) ==
  /\ answers' = answers \cup {[req |-> request[h], outcome |-> outcome]}
  /\ EndDeposit(h)

\* The coin is in a deposit of the bank.
SpentAt(b, c) == \E i \in Ids : deposits[<<b, i>>] # NoRequest /\ deposits[<<b, i>>].coin = c

-----------------------------------------------------------------------------
\* create_account at a bank.
CreateAccount(b) ==
  /\ b \notin accounts
  /\ accounts' = accounts \cup {b}
  /\ UNCHANGED <<vars, balance, deposits, phase, request, wire, answers, lost>>

\* deposit of a coin whose signature verifies: the submission is signed and
\* sent under the bank's member id.
Deposit(h, r) ==
  /\ phase[h] = "idle"
  /\ wire[h] = NoJob /\ stage[h] = "idle"
  /\ phase' = [phase EXCEPT ![h] = "sent"]
  /\ request' = [request EXCEPT ![h] = r]
  /\ wire' = [wire EXCEPT ![h] = [bank |-> r.account, coin |-> r.coin]]
  /\ UNCHANGED <<vars, ledger, answers, lost>>

\* The submission reaches the registry, which serves members.
Arrive(h) ==
  /\ wire[h] # NoJob
  /\ ReadCap(h, wire[h])
  /\ wire' = [wire EXCEPT ![h] = NoJob]
  /\ UNCHANGED <<ledger, phase, request, answers, lost>>

\* It is lost, or refused by the registry's authentication (not a member, a
\* timestamp out of the window, a nonce seen before): an error for a handler
\* that waits.
Lose(h) ==
  /\ wire[h] # NoJob
  /\ wire' = [wire EXCEPT ![h] = NoJob]
  /\ IF phase[h] = "sent" THEN EndDeposit(h) ELSE UNCHANGED <<phase, request>>
  /\ UNCHANGED <<vars, ledger, answers, lost>>

\* Wrong variant: a response that does not arrive is taken for an acceptance.
AnswerDefaultsToAccepted(h, o) ==
  /\ phase' = [phase EXCEPT ![h] = IF @ = "sent" THEN "commit" ELSE @]
  /\ lost' = IF o = "Accepted" /\ phase[h] # "sent" THEN lost \cup {job[h].coin} ELSE lost
  /\ UNCHANGED <<request, answers>>

\* submit_serial returns at the bank: with an acceptance the deposit goes on,
\* another outcome is the answer, and an error or a response that is lost ends
\* the handler.  The answer to a handler that is gone goes nowhere.
Answer(h, o) ==
  \/ /\ phase[h] = "sent" /\ o = "Accepted"
     /\ phase' = [phase EXCEPT ![h] = "commit"]
     /\ UNCHANGED <<request, answers, lost>>
  \/ /\ phase[h] = "sent" /\ o \in {"DoubleSpend", "ExposureCapExceeded"}
     /\ AnswerClient(h, IF o = "DoubleSpend" THEN "RegistryDoubleSpend" ELSE o)
     /\ UNCHANGED lost
  \/ /\ phase[h] = "sent"
     /\ EndDeposit(h)
     /\ lost' = IF o = "Accepted" THEN lost \cup {job[h].coin} ELSE lost
     /\ UNCHANGED answers
  \/ /\ phase[h] # "sent"
     /\ lost' = IF o = "Accepted" THEN lost \cup {job[h].coin} ELSE lost
     /\ UNCHANGED <<phase, request, answers>>

\* The registry's handler goes on; a transaction that ends gives its answer.
SubmitStep(h) ==
  /\ \/ CommitAccepted(h) /\ Answer(h, "Accepted")
     \/ CommitCollision(h) /\ Answer(h, "DoubleSpend")
     \/ /\ CheckExposure(h)
        /\ IF stage'[h] = "idle" THEN Answer(h, "ExposureCapExceeded")
           ELSE UNCHANGED <<phase, request, answers, lost>>
     \/ /\ InsertSerial(h) \/ AddReceivable(h) \/ Abort(h)
        /\ IF stage'[h] = "idle" THEN Answer(h, "error")
           ELSE UNCHANGED <<phase, request, answers, lost>>
  /\ UNCHANGED <<ledger, wire>>

\* Wrong variant: the deposit is recorded and the credit is not conditional on
\* the request_id.
CommitDepositAgain(h) ==
  LET r == request[h] IN
  /\ phase[h] = "commit"
  /\ balance' = [balance EXCEPT ![r.account] = @ + Value(r.coin)]
  /\ deposits' = [deposits EXCEPT ![r.id] = r]
  /\ AnswerClient(h, "accepted")
  /\ UNCHANGED <<vars, accounts, wire, lost>>

\* commit_deposit: the coin is credited and recorded together, unless its
\* request_id has a record, the coin is spent here or there is no account.
DepositOutcome(r) ==
  LET row == deposits[r.id] IN
  CASE row # NoRequest /\ row.coin = r.coin         -> "Replay"
    [] row # NoRequest /\ row.coin # r.coin         -> "RequestIdReuse"
    [] row = NoRequest /\ SpentAt(r.account, r.coin) -> "DoubleSpend"
    [] row = NoRequest /\ ~SpentAt(r.account, r.coin)
         -> IF r.account \in accounts THEN "Accepted" ELSE "UnknownAccount"

CommitDeposit(h) ==
  LET r == request[h]
      outcome == DepositOutcome(r) IN
  /\ phase[h] = "commit"
  /\ IF outcome = "Accepted"
       THEN /\ balance' = [balance EXCEPT ![r.account] = @ + Value(r.coin)]
            /\ deposits' = [deposits EXCEPT ![r.id] = r]
       ELSE UNCHANGED <<balance, deposits>>
  /\ lost' = IF outcome \in {"RequestIdReuse", "UnknownAccount"}
               THEN lost \cup {r.coin} ELSE lost
  /\ AnswerClient(h, IF outcome \in {"Accepted", "Replay"} THEN "accepted" ELSE outcome)
  /\ UNCHANGED <<vars, accounts, wire>>

\* The bank's handler fails or is dropped, or the bank crashes.  A submission
\* that is on its way goes on, and what the registry accepted stays accepted.
Fail(h) ==
  /\ phase[h] # "idle"
  /\ lost' = IF phase[h] = "commit" THEN lost \cup {request[h].coin} ELSE lost
  /\ EndDeposit(h)
  /\ UNCHANGED <<vars, ledger, wire, answers>>

\* Governance at the registry, with caps for the pairs that submissions name.
Govern ==
  /\ \/ \E caller, b \in Banks : RegisterMember(caller, b)
     \/ \E caller \in Banks, j \in Jobs : \E v \in CapValues : SetCap(caller, PairOf(j), v)
  /\ UNCHANGED <<ledger, phase, request, wire, answers, lost>>

ClearingNext ==
  \/ \E b \in Banks : CreateAccount(b)
  \/ \E h \in Submitters : \E r \in Requests : Deposit(h, r)
  \/ \E h \in Submitters :
       Arrive(h) \/ Lose(h) \/ SubmitStep(h) \/ CommitDeposit(h) \/ Fail(h)
  \/ Govern

ClearingSpec == ClearingInit /\ [][ClearingNext]_clearingVars

-----------------------------------------------------------------------------
(* Properties *)

\* A coin that was ever registered is credited by the bank that registered it,
\* or the handler that will credit it holds the acceptance, or it is known to be
\* lost: the acceptance went to no handler, or the bank's transaction did not
\* credit it.  In particular no coin is credited by two banks, nor by one that
\* was told of a double spend.
RegisteredIsCredited ==
  /\ \A c \in Coins : serials[c] # NoBank =>
       \/ SpentAt(serials[c], c)
       \/ \E h \in Submitters : phase[h] = "commit" /\ request[h].coin = c
                                /\ request[h].account = serials[c]
       \/ c \in lost
  /\ \A c \in Coins, b \in Banks : SpentAt(b, c) => serials[c] = b

\* What a bank credited it is owed: its receivables cover its deposits, so a
\* bank never pays out for a coin the registry has not charged to the issuer.
\* (Without settlements, which move receivables into claims.)
CreditIsBacked ==
  \A b \in Banks :
    balance[b] <= SumFunctionOnSet([i \in Banks |-> receivables[<<i, b>>]], Banks)

accepted == {[id |-> x.req.id, coin |-> x.req.coin] :
               x \in {y \in answers : y.outcome = "accepted"}}

Contract == INSTANCE DepositContract
  WITH AccountIds <- Banks, RequestIds <- Banks \X Ids, Amounts <- {0},
       redeemed <- deposits

\* The network of banks keeps the contract of a single bank: a coin is redeemed
\* at most once in all of them, in one step with its credit.
NetworkKeepsContract == Contract!Spec
=============================================================================
