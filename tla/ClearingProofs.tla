--------------------------- MODULE ClearingProofs ---------------------------
(***************************************************************************)
(* Proofs about Clearing: any number of banks, handlers, coins and         *)
(* requests over one registry, with lost submissions, lost answers and     *)
(* handlers that fail.                                                     *)
(***************************************************************************)
EXTENDS Clearing, RegistryProofs, SumTheorems

\* The submission a deposit makes.
JobOf(r) == [bank |-> r.account, coin |-> r.coin]

ClearingTypeOK ==
  /\ accounts \subseteq Banks
  /\ balance \in [Banks -> Nat]
  /\ deposits \in [Banks \X Ids -> Requests \cup {NoRequest}]
  /\ phase \in [Submitters -> {"idle", "sent", "commit"}]
  /\ request \in [Submitters -> Requests \cup {NoRequest}]
  /\ wire \in [Submitters -> Jobs \cup {NoJob}]

\* Where the submission of a handler is: a handler that waits has it on the wire
\* or at the registry, one that commits was told that the registry recorded its
\* bank as the first depositor.
HandoverInv ==
  \A h \in Submitters :
    /\ wire[h] # NoJob => stage[h] = "idle"
    /\ phase[h] # "idle" => request[h] \in Requests
    /\ phase[h] = "sent" =>
         \/ wire[h] = JobOf(request[h])
         \/ wire[h] = NoJob /\ stage[h] # "idle" /\ job[h] = JobOf(request[h])
    /\ phase[h] = "commit" =>
         wire[h] = NoJob /\ stage[h] = "idle" /\ serials[request[h].coin] = request[h].account

\* A deposit is recorded under its own request_id, at its own bank, and only
\* after the registry has recorded the bank as the coin's first depositor.
LedgerInv ==
  /\ \A i \in Banks \X Ids : deposits[i] # NoRequest =>
       deposits[i].id = i /\ serials[deposits[i].coin] = deposits[i].account
  /\ \A b \in Banks : b \notin accounts => balance[b] = 0

CInv ==
  /\ IInv
  /\ ClearingTypeOK
  /\ HandoverInv
  /\ LedgerInv
  /\ RegisteredIsCredited

-----------------------------------------------------------------------------
\* The parts of a deposit request.
LEMMA RequestType ==
  ASSUME NEW r \in Requests
  PROVE  /\ r.id \in Banks \X Ids /\ r.account \in Banks /\ r.coin \in Coins
         /\ r.id[1] = r.account /\ r.id = <<r.account, r.id[2]>> /\ r.id[2] \in Ids
         /\ JobOf(r) \in Jobs /\ JobOf(r) # NoJob
         /\ JobOf(r).coin = r.coin /\ JobOf(r).bank = r.account
         /\ r # NoRequest
         /\ Value(r.coin) \in Nat
  <1>1. r \in DepositRequests /\ r.id[1] = r.account /\ r # NoRequest
    BY RequestsAssumption
  <1>2. r.id \in Banks \X Ids /\ r.account \in Banks /\ r.coin \in Coins
    BY <1>1 DEF DepositRequests
  <1>3. r.id = <<r.id[1], r.id[2]>> /\ r.id[2] \in Ids
    BY <1>2
  <1>4. JobOf(r) \in Jobs /\ JobOf(r).coin = r.coin /\ JobOf(r).bank = r.account
    BY <1>2 DEF JobOf, Jobs
  <1>5. JobOf(r) # NoJob
    BY <1>4, ConstantsAssumption DEF Jobs
  <1> QED
    BY <1>1, <1>2, <1>3, <1>4, <1>5, ConstantsAssumption

\* SpentAt reads the deposits of one bank.
LEMMA SpentAtIsADeposit ==
  ASSUME ClearingTypeOK, LedgerInv, NEW i \in Banks \X Ids, deposits[i] # NoRequest
  PROVE  /\ deposits[i] \in Requests
         /\ i = <<deposits[i].account, i[2]>>
         /\ SpentAt(deposits[i].account, deposits[i].coin)
  <1>1. deposits[i] \in Requests /\ deposits[i].id = i
    BY DEF ClearingTypeOK, LedgerInv
  <1> QED
    BY <1>1, RequestType DEF SpentAt

\* commit_deposit's four questions, asked in the code's order.
LEMMA OutcomeCases ==
  ASSUME NEW r
  PROVE  LET row == deposits[r.id]
             o   == DepositOutcome(r) IN
         \/ o = "Accepted" /\ row = NoRequest /\ ~SpentAt(r.account, r.coin) /\ r.account \in accounts
         \/ o = "Replay" /\ row # NoRequest /\ row.coin = r.coin
         \/ o = "RequestIdReuse"
         \/ o = "DoubleSpend" /\ SpentAt(r.account, r.coin)
         \/ o = "UnknownAccount"
  BY DEF DepositOutcome

\* The banks and the registry start empty.
LEMMA ClearingInitInv == ClearingInit => CInv
  <1> SUFFICES ASSUME ClearingInit PROVE CInv
    OBVIOUS
  <1>1. IInv
    BY InitInv DEF ClearingInit
  <1>2. ClearingTypeOK /\ HandoverInv /\ LedgerInv
    BY DEF ClearingInit, ClearingTypeOK, HandoverInv, LedgerInv
  <1>3. RegisteredIsCredited
    BY DEF ClearingInit, Init, RegisteredIsCredited, SpentAt
  <1> QED
    BY <1>1, <1>2, <1>3 DEF CInv

-----------------------------------------------------------------------------
(* What the banks do is, for the registry, one of its own steps or none *)

\* Banks reach the registry's tables only through its handlers.
LEMMA RegistryStep ==
  ASSUME ClearingTypeOK, [ClearingNext]_clearingVars
  PROVE  [Next]_vars
  <1>1. CASE UNCHANGED vars
    BY <1>1
  <1>2. ASSUME NEW h \in Submitters, Arrive(h)
        PROVE  Next
    <2>1. wire[h] \in Jobs /\ ReadCap(h, wire[h])
      BY <1>2 DEF Arrive, ClearingTypeOK
    <2> QED
      BY <2>1 DEF Next
  <1>3. ASSUME NEW h \in Submitters, SubmitStep(h)
        PROVE  Next
    <2>1. h \in Procs
      BY DEF Procs
    <2>2. Submit(h) \/ Abort(h)
      BY <1>3 DEF SubmitStep, Submit
    <2> QED
      BY <2>1, <2>2 DEF Next
  <1>4. CASE Govern
    <2>1. CASE \E caller, b \in Banks : RegisterMember(caller, b)
      BY <2>1 DEF Next
    <2>2. CASE \E caller \in Banks, j \in Jobs : \E v \in CapValues : SetCap(caller, PairOf(j), v)
      BY <2>2, PairOfType DEF Next
    <2> QED
      BY <1>4, <2>1, <2>2 DEF Govern
  <1>5. ASSUME NEW h \in Submitters, Lose(h) \/ CommitDeposit(h) \/ Fail(h)
        PROVE  UNCHANGED vars
    BY <1>5 DEF Lose, CommitDeposit, Fail
  <1> QED
    BY <1>1, <1>2, <1>3, <1>4, <1>5 DEF ClearingNext, CreateAccount, Deposit, clearingVars

-----------------------------------------------------------------------------
(* The invariant *)

\* A step of the banks alone.
LEMMA BankStepInv ==
  ASSUME CInv, UNCHANGED vars, ClearingTypeOK', HandoverInv', LedgerInv', RegisteredIsCredited'
  PROVE  CInv'
  <1>1. IInv'
    BY NextInv DEF CInv
  <1> QED
    BY <1>1 DEF CInv

\* create_account.
LEMMA CreateAccountInv ==
  ASSUME CInv, NEW b \in Banks, CreateAccount(b)
  PROVE  CInv'
  <1>1. UNCHANGED vars /\ ClearingTypeOK'
    BY DEF CreateAccount, CInv, ClearingTypeOK
  <1>2. HandoverInv' /\ LedgerInv' /\ RegisteredIsCredited'
    BY DEF CreateAccount, vars, CInv, HandoverInv, LedgerInv, RegisteredIsCredited, SpentAt
  <1> QED
    BY <1>1, <1>2, BankStepInv

\* deposit: the handler and its slot at the registry are free.
LEMMA DepositInv ==
  ASSUME CInv, NEW h \in Submitters, NEW r \in Requests, Deposit(h, r)
  PROVE  CInv'
  <1>1. JobOf(r) \in Jobs /\ JobOf(r) # NoJob
    BY RequestType
  <1>2. /\ UNCHANGED vars /\ UNCHANGED ledger /\ UNCHANGED <<answers, lost>>
        /\ phase[h] = "idle" /\ wire[h] = NoJob /\ stage[h] = "idle"
        /\ phase' = [phase EXCEPT ![h] = "sent"]
        /\ request' = [request EXCEPT ![h] = r]
        /\ wire' = [wire EXCEPT ![h] = JobOf(r)]
    BY DEF Deposit, JobOf
  <1>3. ClearingTypeOK'
    BY <1>1, <1>2 DEF CInv, ClearingTypeOK, ledger
  <1>4. UNCHANGED <<stage, job, serials>>
    BY <1>2 DEF vars
  <1>5. HandoverInv'
    BY <1>2, <1>4 DEF CInv, ClearingTypeOK, HandoverInv
  <1>6. LedgerInv'
    BY <1>2, <1>4 DEF CInv, LedgerInv, ledger
  <1>7. RegisteredIsCredited'
    BY <1>2, <1>4 DEF CInv, ClearingTypeOK, RegisteredIsCredited, SpentAt, ledger
  <1> QED
    BY <1>2, <1>3, <1>5, <1>6, <1>7, BankStepInv

\* A handler that ends without its acceptance, or with its coin counted as lost.
LEMMA EndInv ==
  ASSUME CInv, NEW h \in Submitters, EndDeposit(h), UNCHANGED vars, UNCHANGED ledger,
         wire' \in [Submitters -> Jobs \cup {NoJob}],
         \A g \in Submitters : g # h => wire'[g] = wire[g],
         wire'[h] # NoJob => wire'[h] = wire[h],
         lost \subseteq lost',
         phase[h] = "commit" => request[h].coin \in lost'
  PROVE  CInv'
  <1>1. ClearingTypeOK'
    BY DEF CInv, ClearingTypeOK, ledger, EndDeposit
  <1>2. UNCHANGED <<stage, job, serials, accounts, balance, deposits>>
    BY DEF vars, ledger
  <1>3. \A g \in Submitters : /\ g # h => phase'[g] = phase[g] /\ request'[g] = request[g]
                              /\ phase'[h] = "idle"
    BY DEF EndDeposit, CInv, ClearingTypeOK
  <1>4. HandoverInv'
    BY <1>2, <1>3 DEF CInv, HandoverInv
  <1>5. LedgerInv'
    BY <1>2 DEF CInv, LedgerInv
  <1>6. RegisteredIsCredited'
    BY <1>2, <1>3 DEF CInv, RegisteredIsCredited, SpentAt
  <1> QED
    BY <1>1, <1>4, <1>5, <1>6, BankStepInv

\* A submission that does not arrive.
LEMMA LoseInv ==
  ASSUME CInv, NEW h \in Submitters, Lose(h)
  PROVE  CInv'
  <1>1. /\ wire[h] # NoJob /\ wire' = [wire EXCEPT ![h] = NoJob]
        /\ UNCHANGED vars /\ UNCHANGED ledger /\ UNCHANGED lost
    BY DEF Lose
  <1>2. phase[h] # "commit"
    BY <1>1 DEF CInv, HandoverInv
  <1>3. /\ wire' \in [Submitters -> Jobs \cup {NoJob}]
        /\ \A g \in Submitters : g # h => wire'[g] = wire[g]
        /\ wire'[h] = NoJob
    BY <1>1 DEF CInv, ClearingTypeOK
  <1>4. CASE EndDeposit(h)
    BY <1>1, <1>2, <1>3, <1>4, EndInv
  <1>5. CASE phase[h] # "sent" /\ UNCHANGED <<phase, request>>
    <2>1. UNCHANGED <<stage, job, serials, accounts, balance, deposits>>
      BY <1>1 DEF vars, ledger
    <2>2. ClearingTypeOK'
      BY <1>3, <1>5, <2>1 DEF CInv, ClearingTypeOK
    <2>3. HandoverInv'
      BY <1>2, <1>3, <1>5, <2>1 DEF CInv, HandoverInv
    <2>4. LedgerInv' /\ RegisteredIsCredited'
      BY <1>1, <1>5, <2>1 DEF CInv, LedgerInv, RegisteredIsCredited, SpentAt
    <2> QED
      BY <1>1, <2>2, <2>3, <2>4, BankStepInv
  <1> QED
    BY <1>4, <1>5 DEF Lose

\* A handler that fails: an acceptance it held is lost, and counted.
LEMMA FailInv ==
  ASSUME CInv, NEW h \in Submitters, Fail(h)
  PROVE  CInv'
  <1>1. /\ EndDeposit(h) /\ UNCHANGED vars /\ UNCHANGED ledger /\ UNCHANGED wire
        /\ lost \subseteq lost'
        /\ phase[h] = "commit" => request[h].coin \in lost'
    BY DEF Fail
  <1>2. wire' \in [Submitters -> Jobs \cup {NoJob}]
    BY <1>1 DEF CInv, ClearingTypeOK
  <1> QED
    BY <1>1, <1>2, EndInv

\* commit_deposit: the coin was registered for this bank, so it is credited, it
\* has been credited here before, or it is counted as lost.
LEMMA CommitDepositInv ==
  ASSUME CInv, NEW h \in Submitters, CommitDeposit(h)
  PROVE  CInv'
  <1>0. PICK r \in Requests : r = request[h]
    BY DEF CommitDeposit, CInv, HandoverInv
  <1> DEFINE o == DepositOutcome(r)
  <1>1. phase[h] = "commit" /\ serials[r.coin] = r.account
    BY <1>0 DEF CommitDeposit, CInv, HandoverInv
  <1>2. /\ r.id \in Banks \X Ids /\ r.account \in Banks /\ r.coin \in Coins
        /\ r.id = <<r.account, r.id[2]>> /\ r.id[2] \in Ids
        /\ r # NoRequest /\ Value(r.coin) \in Nat
    BY RequestType
  <1>3. /\ EndDeposit(h) /\ UNCHANGED vars /\ UNCHANGED <<accounts, wire>>
        /\ lost \subseteq lost'
        /\ o \in {"RequestIdReuse", "UnknownAccount"} => r.coin \in lost'
        /\ o = "Accepted" =>
             /\ balance' = [balance EXCEPT ![r.account] = balance[r.account] + Value(r.coin)]
             /\ deposits' = [deposits EXCEPT ![r.id] = r]
        /\ o # "Accepted" => UNCHANGED <<balance, deposits>>
    BY <1>0 DEF CommitDeposit, AnswerClient
  <1>4. \/ o = "Accepted" /\ deposits[r.id] = NoRequest /\ r.account \in accounts
        \/ o # "Accepted" /\ SpentAt(r.account, r.coin)
        \/ o \in {"RequestIdReuse", "UnknownAccount"}
    <2>1. deposits[r.id] # NoRequest /\ deposits[r.id].coin = r.coin => SpentAt(r.account, r.coin)
      BY <1>2 DEF SpentAt
    <2> QED
      BY <2>1, OutcomeCases
  <1> HIDE DEF o
  <1>5. UNCHANGED <<stage, job, serials>>
    BY <1>3 DEF vars
  <1>6. \A g \in Submitters : /\ g # h => phase'[g] = phase[g] /\ request'[g] = request[g]
                              /\ phase'[h] = "idle"
    BY <1>3 DEF EndDeposit, CInv, ClearingTypeOK
  <1>7. ClearingTypeOK'
    <2>1. CASE o = "Accepted"
      BY <1>1, <1>2, <1>3, <2>1 DEF CInv, ClearingTypeOK, EndDeposit
    <2>2. CASE o # "Accepted"
      BY <1>3, <2>2 DEF CInv, ClearingTypeOK, EndDeposit
    <2> QED
      BY <2>1, <2>2
  <1>8. HandoverInv'
    BY <1>3, <1>5, <1>6 DEF CInv, HandoverInv
  <1>9. LedgerInv'
    <2>1. CASE o = "Accepted"
      <3>1. r.account \in accounts
        BY <1>4, <2>1
      <3> QED
        BY <1>1, <1>2, <1>3, <1>5, <2>1, <3>1 DEF CInv, ClearingTypeOK, LedgerInv
    <2>2. CASE o # "Accepted"
      BY <1>3, <1>5, <2>2 DEF CInv, LedgerInv
    <2> QED
      BY <2>1, <2>2
  <1>10. /\ \A c \in Coins, b \in Banks : SpentAt(b, c) => SpentAt(b, c)'
         /\ SpentAt(r.account, r.coin)' \/ r.coin \in lost'
    <2>1. CASE o = "Accepted"
      <3>1. deposits' = [deposits EXCEPT ![r.id] = r] /\ deposits[r.id] = NoRequest
        BY <1>3, <1>4, <2>1
      <3>2. deposits'[<<r.account, r.id[2]>>] = r
        BY <1>2, <3>1 DEF CInv, ClearingTypeOK
      <3>3. \A i \in Banks \X Ids : deposits[i] # NoRequest => deposits'[i] = deposits[i]
        BY <1>2, <3>1 DEF CInv, ClearingTypeOK
      <3> QED
        BY <1>2, <3>2, <3>3 DEF SpentAt
    <2>2. CASE o # "Accepted"
      BY <1>3, <1>4, <2>2 DEF SpentAt
    <2> QED
      BY <2>1, <2>2
  <1>11. \A c \in Coins, b \in Banks : SpentAt(b, c)' => serials[c] = b
    <2> SUFFICES ASSUME NEW c \in Coins, NEW b \in Banks, NEW i \in Ids,
                        deposits'[<<b, i>>] # NoRequest, deposits'[<<b, i>>].coin = c
                 PROVE  serials[c] = b
      BY DEF SpentAt
    <2>1. <<b, i>> \in Banks \X Ids
      OBVIOUS
    <2>2. deposits'[<<b, i>>].id = <<b, i>> /\ serials[c] = deposits'[<<b, i>>].account
      BY <1>5, <1>9, <2>1 DEF LedgerInv
    <2>3. deposits'[<<b, i>>] \in Requests
      BY <1>7, <2>1 DEF ClearingTypeOK
    <2> QED
      BY <2>2, <2>3, RequestType
  <1>12. RegisteredIsCredited'
    <2>1. ASSUME NEW c \in Coins, serials[c] # NoBank
          PROVE  \/ SpentAt(serials[c], c)'
                 \/ \E g \in Submitters : phase'[g] = "commit" /\ request'[g].coin = c
                                           /\ request'[g].account = serials[c]
                 \/ c \in lost'
      <3>1. serials[c] \in Banks
        BY <2>1 DEF CInv, IInv, TypeOK
      <3>2. CASE c = r.coin
        BY <1>1, <1>5, <1>10, <3>2
      <3>3. CASE SpentAt(serials[c], c) \/ c \in lost
        BY <1>3, <1>5, <1>10, <3>1, <3>3
      <3>4. CASE c # r.coin /\ \E g \in Submitters : phase[g] = "commit" /\ request[g].coin = c
                                                     /\ request[g].account = serials[c]
        BY <1>0, <1>6, <3>4
      <3> QED
        BY <2>1, <3>2, <3>3, <3>4 DEF CInv, RegisteredIsCredited
    <2> QED
      BY <1>5, <1>11, <2>1 DEF RegisteredIsCredited
  <1> QED
    BY <1>3, <1>7, <1>8, <1>9, <1>12, BankStepInv

-----------------------------------------------------------------------------
(* Steps of the registry *)

\* A serial that is registered stays so, for the same bank.
LEMMA SerialsKept ==
  ASSUME IInv, [Next]_vars, NEW c \in Coins, serials[c] # NoBank
  PROVE  serials'[c] = serials[c]
  <1>1. ASSUME NEW h \in Submitters, CommitAccepted(h)
        PROVE  serials'[c] = serials[c]
    <2>1. /\ serials' = [serials EXCEPT ![job[h].coin] = job[h].bank]
          /\ serials[job[h].coin] = NoBank
      BY <1>1 DEF CommitAccepted, IInv, HandlersInv, Procs, Inserted
    <2> QED
      BY <2>1 DEF IInv, TypeOK
  <1> QED
    BY <1>1 DEF Next, Submit, Settle, RegisterMember, SetCap, ReadCap, CheckExposure, InsertSerial,
      AddReceivable, CommitCollision, SettleRead, SettleDelete, SettleVisit, SettleLock, SettleCommit,
      Abort, db, vars

\* A step of the registry that registers nothing and answers nobody.
LEMMA RegistryStepInv ==
  ASSUME CInv, [Next]_vars, UNCHANGED <<serials, ledger, phase, request, lost>>,
         ClearingTypeOK', HandoverInv'
  PROVE  CInv'
  <1>1. IInv'
    BY NextInv DEF CInv
  <1>2. LedgerInv' /\ RegisteredIsCredited'
    BY DEF CInv, LedgerInv, RegisteredIsCredited, SpentAt, ledger
  <1> QED
    BY <1>1, <1>2 DEF CInv

\* The submission reaches the registry's handler.
LEMMA ArriveInv ==
  ASSUME CInv, NEW h \in Submitters, Arrive(h)
  PROVE  CInv'
  <1>1. [Next]_vars
    BY RegistryStep DEF CInv, ClearingNext
  <1>2. /\ wire[h] # NoJob /\ wire' = [wire EXCEPT ![h] = NoJob]
        /\ job' = [job EXCEPT ![h] = wire[h]] /\ stage' = [stage EXCEPT ![h] = "exposure"]
        /\ UNCHANGED <<serials, ledger, phase, request, lost>>
    BY DEF Arrive, ReadCap, Goto, db
  <1>3. ClearingTypeOK'
    BY <1>2 DEF CInv, ClearingTypeOK, ledger
  <1>4. \A g \in Submitters :
          /\ g # h => stage'[g] = stage[g] /\ job'[g] = job[g] /\ wire'[g] = wire[g]
          /\ g = h => stage'[g] = "exposure" /\ job'[g] = wire[g] /\ wire'[g] = NoJob
    BY <1>2 DEF CInv, IInv, TypeOK, ClearingTypeOK, Procs
  <1>5. HandoverInv'
    BY <1>2, <1>4 DEF CInv, HandoverInv
  <1> QED
    BY <1>1, <1>2, <1>3, <1>5, RegistryStepInv

\* register_member and set_cap.
LEMMA ClearingGovernInv ==
  ASSUME CInv, Govern
  PROVE  CInv'
  <1>1. [Next]_vars
    BY RegistryStep DEF CInv, ClearingNext
  <1>2. UNCHANGED <<serials, stage, job, ledger, phase, request, wire, lost>>
    BY DEF Govern, RegisterMember, SetCap, mem
  <1>3. ClearingTypeOK' /\ HandoverInv'
    BY <1>2 DEF CInv, ClearingTypeOK, HandoverInv, ledger
  <1> QED
    BY <1>1, <1>2, <1>3, RegistryStepInv

\* The registry's handler goes on within its transaction.
LEMMA StatementInv ==
  ASSUME CInv, [Next]_vars, NEW h \in Submitters, NEW s, s # "idle", stage[h] # "idle",
         stage' = [stage EXCEPT ![h] = s],
         UNCHANGED <<job, serials, ledger, phase, request, wire, lost>>
  PROVE  CInv'
  <1>1. \A g \in Submitters : stage'[g] = "idle" <=> stage[g] = "idle"
    BY DEF CInv, IInv, TypeOK, Procs
  <1>2. ClearingTypeOK' /\ HandoverInv'
    BY <1>1 DEF CInv, ClearingTypeOK, HandoverInv, ledger
  <1> QED
    BY <1>2, RegistryStepInv

\* The registry's transaction ends and its answer goes to the handler that waits,
\* to nobody, or is lost.  An acceptance has registered the coin for the bank.
LEMMA AnswerInv ==
  ASSUME CInv, [Next]_vars, NEW h \in Submitters, NEW o, Answer(h, o),
         stage[h] # "idle", stage'[h] = "idle",
         \A g \in Submitters \ {h} : stage'[g] = stage[g] /\ job'[g] = job[g],
         UNCHANGED ledger, UNCHANGED wire,
         o # "Accepted" => UNCHANGED serials,
         o = "Accepted" => /\ job[h] \in Jobs
                           /\ serials' = [serials EXCEPT ![job[h].coin] = job[h].bank]
                           /\ serials[job[h].coin] = NoBank
  PROVE  CInv'
  <1>1. IInv'
    BY NextInv DEF CInv
  <1>2. wire[h] = NoJob /\ phase[h] # "commit"
        /\ (phase[h] = "sent" => request[h] \in Requests /\ job[h] = JobOf(request[h]))
    <2>1. wire[h] = NoJob /\ phase[h] # "commit"
      BY DEF CInv, HandoverInv
    <2>2. ASSUME phase[h] = "sent"
          PROVE  request[h] \in Requests /\ job[h] = JobOf(request[h])
      <3>1. request[h] \in Requests
        BY <2>2 DEF CInv, HandoverInv
      <3>2. JobOf(request[h]) # NoJob
        BY <3>1, RequestType
      <3> QED
        BY <2>1, <2>2, <3>1, <3>2 DEF CInv, HandoverInv
    <2> QED
      BY <2>1, <2>2
  <1>3. serials \in [Coins -> Banks \cup {NoBank}]
    BY DEF CInv, IInv, TypeOK
  <1>4. \A c \in Coins : serials[c] # NoBank => serials'[c] = serials[c]
    BY SerialsKept DEF CInv
  <1>5. /\ ClearingTypeOK'
        /\ \A g \in Submitters \ {h} : phase'[g] = phase[g] /\ request'[g] = request[g]
        /\ lost \subseteq lost'
        /\ \/ phase'[h] = "idle"
           \/ phase'[h] = "commit" /\ request'[h] = request[h] /\ phase[h] = "sent" /\ o = "Accepted"
    BY <1>2 DEF Answer, AnswerClient, EndDeposit, CInv, ClearingTypeOK, ledger
  <1>6. o = "Accepted" => job[h].coin \in lost' \/ (phase'[h] = "commit" /\ phase[h] = "sent")
    BY DEF Answer, CInv, ClearingTypeOK
  <1>7. phase'[h] = "commit" =>
          /\ request'[h] \in Requests /\ request'[h].coin = job[h].coin
          /\ request'[h].account = job[h].bank
          /\ serials'[request'[h].coin] = request'[h].account
    <2> SUFFICES ASSUME phase'[h] = "commit"
                 PROVE  /\ request'[h] \in Requests /\ request'[h].coin = job[h].coin
                        /\ request'[h].account = job[h].bank
                        /\ serials'[request'[h].coin] = request'[h].account
      OBVIOUS
    <2>1. request'[h] = request[h] /\ phase[h] = "sent" /\ o = "Accepted"
      BY <1>5
    <2>2. request[h] \in Requests /\ job[h] = JobOf(request[h])
      BY <1>2, <2>1
    <2>3. job[h].coin = request[h].coin /\ job[h].bank = request[h].account
          /\ request[h].coin \in Coins
      BY <2>2, RequestType
    <2> QED
      BY <1>3, <2>1, <2>2, <2>3
  <1>8. HandoverInv'
    <2> SUFFICES ASSUME NEW g \in Submitters
                 PROVE  /\ wire'[g] # NoJob => stage'[g] = "idle"
                        /\ phase'[g] # "idle" => request'[g] \in Requests
                        /\ phase'[g] = "sent" =>
                             \/ wire'[g] = JobOf(request'[g])
                             \/ /\ wire'[g] = NoJob /\ stage'[g] # "idle"
                                /\ job'[g] = JobOf(request'[g])
                        /\ phase'[g] = "commit" =>
                             /\ wire'[g] = NoJob /\ stage'[g] = "idle"
                             /\ serials'[request'[g].coin] = request'[g].account
      BY DEF HandoverInv, JobOf
    <2>1. CASE g = h
      BY <1>2, <1>5, <1>7, <2>1
    <2>2. CASE g # h
      <3>1. /\ phase'[g] = phase[g] /\ request'[g] = request[g] /\ wire'[g] = wire[g]
            /\ stage'[g] = stage[g] /\ job'[g] = job[g]
        BY <1>5, <2>2
      <3>2. phase[g] = "commit" => serials'[request[g].coin] = request[g].account
        <4> SUFFICES ASSUME phase[g] = "commit"
                     PROVE  serials'[request[g].coin] = request[g].account
          OBVIOUS
        <4>1. request[g] \in Requests /\ serials[request[g].coin] = request[g].account
          BY DEF CInv, HandoverInv
        <4>2. request[g].coin \in Coins /\ request[g].account \in Banks
          BY <4>1, RequestType
        <4> QED
          BY <1>4, <4>1, <4>2, ConstantsAssumption
      <3> QED
        BY <3>1, <3>2 DEF CInv, HandoverInv
    <2> QED
      BY <2>1, <2>2
  <1>9. LedgerInv'
    <2>1. ASSUME NEW i \in Banks \X Ids, deposits[i] # NoRequest
          PROVE  deposits[i].id = i /\ serials'[deposits[i].coin] = deposits[i].account
      <3>1. deposits[i] \in Requests
        BY <2>1 DEF CInv, ClearingTypeOK
      <3>2. deposits[i].coin \in Coins /\ deposits[i].account \in Banks
        BY <3>1, RequestType
      <3> QED
        BY <1>4, <2>1, <3>2, ConstantsAssumption DEF CInv, LedgerInv
    <2> QED
      BY <2>1 DEF CInv, LedgerInv, ledger
  <1>10. \A c \in Coins, b \in Banks : SpentAt(b, c)' <=> SpentAt(b, c)
    BY DEF SpentAt, ledger
  <1>11. ASSUME NEW c \in Coins, serials'[c] # NoBank, NEW b, b = serials'[c]
         PROVE  \/ SpentAt(b, c)
                \/ \E g \in Submitters : phase'[g] = "commit" /\ request'[g].coin = c
                                          /\ request'[g].account = b
                \/ c \in lost'
    <2>1. CASE serials[c] = NoBank
      <3>1. o = "Accepted" /\ c = job[h].coin /\ b = job[h].bank
        BY <1>3, <1>11, <2>1
      <3> QED
        BY <1>6, <1>7, <3>1
    <2>2. CASE serials[c] # NoBank
      <3>1. b = serials[c]
        BY <1>4, <1>11, <2>2
      <3>2. CASE SpentAt(serials[c], c) \/ c \in lost
        BY <1>5, <3>1, <3>2
      <3>3. CASE \E g \in Submitters : phase[g] = "commit" /\ request[g].coin = c
                                       /\ request[g].account = serials[c]
        BY <1>2, <1>5, <3>1, <3>3
      <3> QED
        BY <2>2, <3>2, <3>3 DEF CInv, RegisteredIsCredited
    <2> QED
      BY <2>1, <2>2
  <1>12. RegisteredIsCredited'
    <2>1. \A c \in Coins : serials'[c] # NoBank => serials'[c] \in Banks
      BY <1>1 DEF IInv, TypeOK
    <2>2. \A c \in Coins, b \in Banks : SpentAt(b, c) => serials'[c] = b
      BY <1>4, ConstantsAssumption DEF CInv, RegisteredIsCredited
    <2>3. ASSUME NEW c \in Coins, serials'[c] # NoBank
          PROVE  \/ SpentAt(serials[c], c)'
                 \/ \E g \in Submitters : phase'[g] = "commit" /\ request'[g].coin = c
                                           /\ request'[g].account = serials'[c]
                 \/ c \in lost'
      BY <1>11, <2>3 DEF SpentAt, ledger
    <2> QED
      BY <1>10, <2>2, <2>3 DEF RegisteredIsCredited
  <1> QED
    BY <1>1, <1>5, <1>8, <1>9, <1>12 DEF CInv

\* A step of submit_serial, with the answer it may give.
LEMMA SubmitStepInv ==
  ASSUME CInv, NEW h \in Submitters, SubmitStep(h)
  PROVE  CInv'
  <1>1. [Next]_vars
    BY RegistryStep DEF CInv, ClearingNext
  <1>2. h \in Procs /\ UNCHANGED ledger /\ UNCHANGED wire
    BY DEF SubmitStep, Procs
  <1>3. ASSUME Finish(h)
        PROVE  /\ stage'[h] = "idle"
               /\ \A g \in Submitters \ {h} : stage'[g] = stage[g] /\ job'[g] = job[g]
    BY <1>2, <1>3 DEF Finish, CInv, IInv, TypeOK, Procs
  <1>4. ASSUME NEW s, Goto(h, s)
        PROVE  stage'[h] = s /\ stage' = [stage EXCEPT ![h] = s]
    BY <1>2, <1>4 DEF Goto, CInv, IInv, TypeOK
  <1>5. CASE CommitAccepted(h) /\ Answer(h, "Accepted")
    <2>1. /\ stage[h] = "accept" /\ Finish(h) /\ job[h] \in Jobs
          /\ serials' = [serials EXCEPT ![job[h].coin] = job[h].bank]
          /\ serials[job[h].coin] = NoBank
      BY <1>2, <1>5 DEF CommitAccepted, Reply, CInv, IInv, HandlersInv, Submitting, Inserted
    <2> QED
      BY <1>1, <1>2, <1>3, <1>5, <2>1, AnswerInv
  <1>6. CASE CommitCollision(h) /\ Answer(h, "DoubleSpend")
    <2>1. stage[h] = "collide" /\ Finish(h) /\ UNCHANGED serials
      BY <1>6 DEF CommitCollision, Reply
    <2> QED
      BY <1>1, <1>2, <1>3, <1>6, <2>1, AnswerInv
  <1>7. ASSUME stage[h] # "idle", Finish(h), UNCHANGED serials, NEW o, o # "Accepted",
               IF stage'[h] = "idle" THEN Answer(h, o)
               ELSE UNCHANGED <<phase, request, answers, lost>>
        PROVE  CInv'
    BY <1>1, <1>2, <1>3, <1>7, AnswerInv
  <1>8. ASSUME stage[h] # "idle", NEW s, s # "idle", Goto(h, s), UNCHANGED <<job, serials>>, NEW o,
               IF stage'[h] = "idle" THEN Answer(h, o)
               ELSE UNCHANGED <<phase, request, answers, lost>>
        PROVE  CInv'
    <2>1. UNCHANGED <<phase, request, lost>> /\ stage' = [stage EXCEPT ![h] = s]
      BY <1>4, <1>8
    <2> QED
      BY <1>1, <1>2, <1>8, <2>1, StatementInv
  <1>9. CASE CheckExposure(h) /\ IF stage'[h] = "idle" THEN Answer(h, "ExposureCapExceeded")
                                 ELSE UNCHANGED <<phase, request, answers, lost>>
    <2>1. stage[h] = "exposure" /\ UNCHANGED serials
      BY <1>9 DEF CheckExposure, db
    <2>2. Finish(h) \/ (Goto(h, "serial") /\ UNCHANGED job)
      BY <1>9 DEF CheckExposure, Reply
    <2> QED
      BY <1>7, <1>8, <1>9, <2>1, <2>2
  <1>10. CASE /\ InsertSerial(h) \/ AddReceivable(h) \/ Abort(h)
              /\ IF stage'[h] = "idle" THEN Answer(h, "error")
                 ELSE UNCHANGED <<phase, request, answers, lost>>
    <2>1. stage[h] # "idle" /\ UNCHANGED serials
      BY <1>10 DEF InsertSerial, AddReceivable, Abort, db
    <2>2. Finish(h) \/ \E s \in {"receivable", "collide", "accept"} : Goto(h, s) /\ UNCHANGED job
      BY <1>10 DEF InsertSerial, AddReceivable, Abort
    <2> QED
      BY <1>7, <1>8, <1>10, <2>1, <2>2
  <1> QED
    BY <1>5, <1>6, <1>9, <1>10 DEF SubmitStep

\* Every step of the banks, the network and the registry.
LEMMA ClearingNextInv == CInv /\ [ClearingNext]_clearingVars => CInv'
  <1> SUFFICES ASSUME CInv, [ClearingNext]_clearingVars PROVE CInv'
    OBVIOUS
  <1>1. CASE UNCHANGED clearingVars
    <2>1. UNCHANGED vars /\ UNCHANGED <<ledger, phase, request, wire, answers, lost>>
      BY <1>1 DEF clearingVars
    <2>2. ClearingTypeOK' /\ HandoverInv' /\ LedgerInv' /\ RegisteredIsCredited'
      BY <2>1 DEF vars, ledger, CInv, ClearingTypeOK, HandoverInv, LedgerInv,
        RegisteredIsCredited, SpentAt
    <2> QED
      BY <2>1, <2>2, BankStepInv
  <1> QED
    BY <1>1, CreateAccountInv, DepositInv, ArriveInv, LoseInv, SubmitStepInv, CommitDepositInv,
       FailInv, ClearingGovernInv DEF ClearingNext

\* The invariant holds in every reachable state of the network.
THEOREM ClearingInvariance == ClearingSpec => []CInv
  BY ClearingInitInv, ClearingNextInv, PTL DEF ClearingSpec

\* A registered coin is credited at the bank that registered it, about to be, or
\* known to be lost; no coin is credited at two banks (bank.rs, deposit, with any
\* loss of messages and any failure of handlers).
THEOREM NoCoinCreditedTwice == ClearingSpec => []RegisteredIsCredited
  <1>1. CInv => RegisteredIsCredited
    BY DEF CInv
  <1> QED
    BY <1>1, ClearingInvariance, PTL

\* The registry as the banks drive it is the registry of module Registry, so what
\* is proved of submit_serial there holds in the network of banks.
THEOREM UsesRegistry == ClearingSpec => Spec
  <1>1. ClearingInit => Init
    BY DEF ClearingInit
  <1>2. CInv /\ [ClearingNext]_clearingVars => [Next]_vars
    BY RegistryStep DEF CInv
  <1> QED
    BY <1>1, <1>2, ClearingInvariance, PTL DEF ClearingSpec, Spec

\* The evidence outlives the answer in the network too.
THEOREM EvidenceKeptInNetwork == ClearingSpec => []EvidenceKept
  BY UsesRegistry, EvidenceOutlives, PTL

-----------------------------------------------------------------------------
(* The network implements the contract of one bank *)

\* An answer other than an acceptance reports nothing as accepted.
LEMMA OtherAnswer ==
  ASSUME NEW r, NEW outcome, outcome # "accepted",
         answers' = answers \cup {[req |-> r, outcome |-> outcome]}
  PROVE  accepted' = accepted
  <1> DEFINE y == [req |-> r, outcome |-> outcome]
  <1>1. y.outcome # "accepted"
    OBVIOUS
  <1>2. {x \in answers' : x.outcome = "accepted"} = {x \in answers : x.outcome = "accepted"}
    BY <1>1
  <1> QED
    BY <1>2 DEF accepted

\* An acceptance reports the coin of its request.
LEMMA AcceptedAnswer ==
  ASSUME NEW r, answers' = answers \cup {[req |-> r, outcome |-> "accepted"]}
  PROVE  accepted' = accepted \cup {[id |-> r.id, coin |-> r.coin]}
  <1> DEFINE y == [req |-> r, outcome |-> "accepted"]
  <1>1. y.outcome = "accepted" /\ y.req = r
    OBVIOUS
  <1>2. {x \in answers' : x.outcome = "accepted"}
          = {x \in answers : x.outcome = "accepted"} \cup {y}
    BY <1>1
  <1> HIDE DEF y
  <1> QED
    BY <1>1, <1>2 DEF accepted

\* commit_deposit is a redemption, a confirmation or nothing: by the registry,
\* a coin that no deposit of this bank holds is in no bank's deposits.
LEMMA CommitDepositRefines ==
  ASSUME CInv, NEW h \in Submitters, CommitDeposit(h)
  PROVE  [Contract!Next]_Contract!vars
  <1>0. PICK r \in Requests : r = request[h]
    BY DEF CommitDeposit, CInv, HandoverInv
  <1> DEFINE o == DepositOutcome(r)
  <1>1. serials[r.coin] = r.account
    BY <1>0 DEF CommitDeposit, CInv, HandoverInv
  <1>2. r.id \in Banks \X Ids /\ r.account \in Banks
    BY RequestType
  <1>3. /\ UNCHANGED accounts
        /\ o = "Accepted" =>
             /\ balance' = [balance EXCEPT ![r.account] = balance[r.account] + Value(r.coin)]
             /\ deposits' = [deposits EXCEPT ![r.id] = r]
        /\ o # "Accepted" => UNCHANGED <<balance, deposits>>
        /\ o \in {"Accepted", "Replay"} =>
             answers' = answers \cup {[req |-> r, outcome |-> "accepted"]}
        /\ o \notin {"Accepted", "Replay"} =>
             answers' = answers \cup {[req |-> r, outcome |-> o]}
    BY <1>0 DEF CommitDeposit, AnswerClient
  <1>4. o \in {"Accepted", "Replay", "RequestIdReuse", "DoubleSpend", "UnknownAccount"}
        /\ (o = "Accepted" => deposits[r.id] = NoRequest /\ ~SpentAt(r.account, r.coin)
                              /\ r.account \in accounts)
        /\ (o = "Replay" => deposits[r.id] # NoRequest /\ deposits[r.id].coin = r.coin)
    BY OutcomeCases
  <1> HIDE DEF o
  <1>5. CASE o = "Accepted"
    <2>1. ASSUME NEW i \in Banks \X Ids, deposits[i] # NoRequest
          PROVE  deposits[i].coin # r.coin
      <3>1. /\ deposits[i] \in Requests
            /\ SpentAt(deposits[i].account, deposits[i].coin)
        BY <2>1, SpentAtIsADeposit DEF CInv
      <3>2. serials[deposits[i].coin] = deposits[i].account
        BY <2>1 DEF CInv, LedgerInv
      <3> QED
        BY <1>1, <1>4, <1>5, <3>1, <3>2
    <2>2. accepted' = accepted \cup {[id |-> r.id, coin |-> r.coin]}
      BY <1>3, <1>5, AcceptedAnswer
    <2>3. Contract!Redeem(r)
      BY <1>3, <1>4, <1>5, <2>1, <2>2 DEF Contract!Redeem
    <2> QED
      BY <2>3 DEF Contract!Next
  <1>6. CASE o = "Replay"
    <2>1. accepted' = accepted \cup {[id |-> r.id, coin |-> r.coin]}
      BY <1>3, <1>6, AcceptedAnswer
    <2>2. Contract!Confirm(r.id)
      BY <1>3, <1>4, <1>6, <2>1 DEF Contract!Confirm
    <2> QED
      BY <1>2, <2>2 DEF Contract!Next
  <1>7. CASE o \notin {"Accepted", "Replay"}
    <2>1. o # "accepted"
      BY <1>4
    <2>2. accepted' = accepted
      BY <1>3, <1>7, <2>1, OtherAnswer
    <2> QED
      BY <1>3, <1>7, <2>2 DEF Contract!vars
  <1> QED
    BY <1>5, <1>6, <1>7

\* The answer of the registry credits nothing and reports no acceptance.
LEMMA SubmitStepRefines ==
  ASSUME NEW h \in Submitters, SubmitStep(h)
  PROVE  UNCHANGED Contract!vars
  <1>1. UNCHANGED <<accounts, balance, deposits>>
    BY DEF SubmitStep, ledger
  <1>2. \/ UNCHANGED answers
        \/ \E o \in {"RegistryDoubleSpend", "ExposureCapExceeded"} :
             answers' = answers \cup {[req |-> request[h], outcome |-> o]}
    BY DEF SubmitStep, Answer, AnswerClient
  <1>3. accepted' = accepted
    <2>1. CASE UNCHANGED answers
      BY <2>1 DEF accepted
    <2>2. ASSUME NEW o \in {"RegistryDoubleSpend", "ExposureCapExceeded"},
                 answers' = answers \cup {[req |-> request[h], outcome |-> o]}
          PROVE  accepted' = accepted
      BY <2>2, OtherAnswer
    <2> QED
      BY <1>2, <2>1, <2>2
  <1> QED
    BY <1>1, <1>3 DEF Contract!vars

\* Every step of the network is a step of the contract, or none of its business.
LEMMA ClearingStepRefines ==
  CInv /\ [ClearingNext]_clearingVars => [Contract!Next]_Contract!vars
  <1> SUFFICES ASSUME CInv, [ClearingNext]_clearingVars
               PROVE  [Contract!Next]_Contract!vars
    OBVIOUS
  <1>1. ASSUME UNCHANGED <<accounts, balance, deposits, answers>>
        PROVE  UNCHANGED Contract!vars
    BY <1>1 DEF Contract!vars, accepted
  <1>2. ASSUME NEW b \in Banks, CreateAccount(b)
        PROVE  Contract!Next
    <2>1. /\ b \notin accounts /\ accounts' = accounts \cup {b}
          /\ UNCHANGED <<balance, deposits, answers>>
      BY <1>2 DEF CreateAccount
    <2>2. balance' = [balance EXCEPT ![b] = 0]
      <3>1. balance[b] = 0 /\ balance \in [Banks -> Nat]
        BY <2>1 DEF CInv, LedgerInv, ClearingTypeOK
      <3> QED
        BY <2>1, <3>1
    <2>3. Contract!Open(b, 0)
      BY <2>1, <2>2 DEF Contract!Open, accepted
    <2> QED
      BY <2>3 DEF Contract!Next
  <1>3. ASSUME NEW h \in Submitters, NEW r \in Requests, Deposit(h, r)
        PROVE  UNCHANGED Contract!vars
    BY <1>1, <1>3 DEF Deposit, ledger
  <1>4. ASSUME NEW h \in Submitters, Arrive(h) \/ Lose(h) \/ Fail(h)
        PROVE  UNCHANGED Contract!vars
    BY <1>1, <1>4 DEF Arrive, Lose, Fail, ledger
  <1>5. CASE Govern
    BY <1>1, <1>5 DEF Govern, ledger
  <1>6. CASE UNCHANGED clearingVars
    BY <1>1, <1>6 DEF clearingVars, ledger
  <1> QED
    BY <1>2, <1>3, <1>4, <1>5, <1>6, CommitDepositRefines, SubmitStepRefines DEF ClearingNext

\* Several banks and one registry keep the contract of a single bank: in all of
\* them together a coin is redeemed once, in one step with its credit, and
\* "accepted" is only said of a coin that is redeemed.
THEOREM NetworkRefinesContract == ClearingSpec => NetworkKeepsContract
  <1>1. ClearingInit => Contract!Init
    BY DEF ClearingInit, Contract!Init, accepted
  <1> QED
    BY <1>1, ClearingStepRefines, ClearingInvariance, PTL
    DEF ClearingSpec, NetworkKeepsContract, Contract!Spec

-----------------------------------------------------------------------------
(* What the banks credit the registry has charged to the issuers *)

Values        == [c \in Coins |-> Value(c)]
Registered(b) == {c \in Coins : serials[c] = b}
CreditedAt(b) == {c \in Coins : SpentAt(b, c)}
DueTo(b)      == [i \in Banks |-> receivables[<<i, b>>]]

\* A bank's balance is the value of the coins it has credited, and what it is
\* owed the value of the coins it is the first depositor of.
BackingInv ==
  \A b \in Banks :
    /\ IsFiniteSet(Registered(b))
    /\ balance[b] = SumFunctionOnSet(Values, CreditedAt(b))
    /\ SumFunctionOnSet(DueTo(b), Banks) = SumFunctionOnSet(Values, Registered(b))

\* Denominations are numbers.
LEMMA ValuesAreNumbers == \A c \in Coins : Value(c) \in Nat /\ Values[c] \in Nat
  <1>1. \A c \in Coins : Value(c) \in 1..MaxValue
    BY ConstantsAssumption
  <1>2. \A c \in Coins : Value(c) \in Nat
    BY <1>1
  <1> QED
    BY <1>2 DEF Values

\* Nothing is credited and nothing is owed.
LEMMA BackingInit == ClearingInit => BackingInv
  <1> SUFFICES ASSUME ClearingInit, NEW b \in Banks
               PROVE  /\ IsFiniteSet(Registered(b))
                      /\ balance[b] = SumFunctionOnSet(Values, CreditedAt(b))
                      /\ SumFunctionOnSet(DueTo(b), Banks) = SumFunctionOnSet(Values, Registered(b))
    BY DEF BackingInv
  <1>1. Registered(b) = {}
    BY ConstantsAssumption DEF ClearingInit, Init, Registered
  <1>2. CreditedAt(b) = {}
    BY DEF ClearingInit, CreditedAt, SpentAt
  <1>3. \A i \in Banks : DueTo(b)[i] = 0
    BY DEF ClearingInit, Init, DueTo, Zero, Pairs
  <1>4. SumFunctionOnSet(DueTo(b), Banks) = 0
    BY <1>3, FinitenessAssumption, SumZero
  <1>5. SumFunctionOnSet(Values, {}) = 0 /\ IsFiniteSet({})
    BY SumEmpty, FS_EmptySet
  <1>6. balance[b] = 0
    BY DEF ClearingInit
  <1> QED
    BY <1>1, <1>2, <1>4, <1>5, <1>6

\* A step that neither credits nor charges.
LEMMA BackingIdle ==
  ASSUME BackingInv, UNCHANGED <<balance, deposits, serials, receivables>>
  PROVE  BackingInv'
  BY DEF BackingInv, Registered, CreditedAt, DueTo, Values, SpentAt

\* COMMIT of a fresh serial: the coin's value is added to what its issuer owes.
LEMMA BackingCharge ==
  ASSUME CInv, BackingInv, NEW h \in Submitters, CommitAccepted(h), UNCHANGED ledger
  PROVE  BackingInv'
  <1>1. h \in Procs /\ stage[h] = "accept" /\ job[h] \in Jobs
    BY DEF CommitAccepted, Procs, CInv, IInv, HandlersInv, Submitting, Inserted
  <1>2. PICK c \in Coins, a \in Banks : job[h].coin = c /\ job[h].bank = a
    BY <1>1 DEF Jobs
  <1> DEFINE e == Issuer(job[h])
  <1>3. e \in Banks /\ Value(c) \in Nat /\ \A d \in Coins : Values[d] \in Int
    BY <1>1, ValuesAreNumbers, ConstantsAssumption DEF Jobs
  <1>4. /\ serials' = [serials EXCEPT ![c] = a]
        /\ receivables' = [receivables EXCEPT ![<<e, a>>] =
                             receivables[<<e, a>>] + Value(c)]
        /\ serials[c] = NoBank
    BY <1>1, <1>2 DEF CommitAccepted, PairOf, CInv, IInv, HandlersInv, Submitting, Inserted
  <1> HIDE DEF e
  <1>5. serials \in [Coins -> Banks \cup {NoBank}] /\ receivables \in [Pairs -> Int]
    BY ConstantsAssumption DEF CInv, IInv, TypeOK
  <1> SUFFICES ASSUME NEW b \in Banks
               PROVE  /\ IsFiniteSet(Registered(b)')
                      /\ balance'[b] = SumFunctionOnSet(Values, CreditedAt(b)')
                      /\ SumFunctionOnSet(DueTo(b)', Banks) = SumFunctionOnSet(Values, Registered(b)')
    BY DEF BackingInv, Values
  <1>6. balance'[b] = SumFunctionOnSet(Values, CreditedAt(b)')
    <2>1. CreditedAt(b)' = CreditedAt(b) /\ balance' = balance
      BY DEF CreditedAt, SpentAt, ledger
    <2> QED
      BY <2>1 DEF BackingInv
  <1>7. \A i \in Banks : <<i, b>> \in Pairs
    BY DEF Pairs
  <1>8. CASE b # a
    <2>1. Registered(b)' = Registered(b)
      BY <1>4, <1>5, <1>8, ConstantsAssumption DEF Registered
    <2>2. DueTo(b)' = DueTo(b)
      BY <1>4, <1>5, <1>7, <1>8 DEF DueTo
    <2> QED
      BY <1>6, <2>1, <2>2 DEF BackingInv
  <1>9. CASE b = a
    <2>1. Registered(b)' = Registered(b) \cup {c} /\ c \notin Registered(b)
      BY <1>4, <1>5, <1>9, ConstantsAssumption DEF Registered
    <2>2. IsFiniteSet(Registered(b)) /\ IsFiniteSet(Registered(b)')
      BY <2>1, FS_AddElement DEF BackingInv
    <2>3. \A d \in Registered(b) \cup {c} : Values[d] \in Int
      BY <1>3 DEF Registered
    <2>4. SumFunctionOnSet(Values, Registered(b)')
            = SumFunctionOnSet(Values, Registered(b)) + Value(c)
      <3>1. SumFunctionOnSet(Values, Registered(b) \cup {c})
              = SumFunctionOnSet(Values, Registered(b)) + Values[c]
        BY <2>1, <2>2, <2>3, SumAdd
      <3> QED
        BY <2>1, <3>1 DEF Values
    <2>5. PICK f : f = DueTo(b)
      OBVIOUS
    <2>6. PICK g : g = DueTo(b)'
      OBVIOUS
    <2>7. /\ \A i \in Banks : f[i] \in Int /\ g[i] \in Int
          /\ \A i \in Banks : i # e => f[i] = g[i]
          /\ g[e] = f[e] + Value(c)
      <3>1. ASSUME NEW i \in Banks
            PROVE  f[i] = receivables[<<i, b>>] /\ g[i] = receivables'[<<i, b>>]
        BY <2>5, <2>6 DEF DueTo
      <3>2. ASSUME NEW i \in Banks, i # e
            PROVE  receivables'[<<i, b>>] = receivables[<<i, b>>]
        BY <1>4, <1>5, <1>7, <3>2
      <3>3. receivables'[<<e, b>>] = receivables[<<e, b>>] + Value(c)
        BY <1>3, <1>4, <1>5, <1>7, <1>9
      <3>4. \A i \in Banks : receivables[<<i, b>>] \in Int
        BY <1>5, <1>7
      <3>5. ASSUME NEW i \in Banks
            PROVE  f[i] \in Int /\ (i # e => g[i] = f[i])
        BY <3>1, <3>2, <3>4
      <3>6. g[e] = f[e] + Value(c)
        BY <1>3, <3>1, <3>3
      <3>7. ASSUME NEW i \in Banks PROVE g[i] \in Int
        BY <1>3, <3>5, <3>6
      <3> QED
        BY <3>5, <3>6, <3>7
    <2>8. SumFunctionOnSet(g, Banks) = SumFunctionOnSet(f, Banks) + (g[e] - f[e])
      BY <1>3, <2>7, FinitenessAssumption, SumUpdate
    <2>9. SumFunctionOnSet(f, Banks) \in Int /\ f[e] \in Int
      BY <1>3, <2>7, FinitenessAssumption, SumType
    <2>10. SumFunctionOnSet(g, Banks) = SumFunctionOnSet(f, Banks) + Value(c)
      BY <1>3, <2>7, <2>8, <2>9
    <2>11. SumFunctionOnSet(f, Banks) = SumFunctionOnSet(Values, Registered(b))
      BY <2>5 DEF BackingInv
    <2> QED
      BY <1>6, <2>2, <2>4, <2>6, <2>10, <2>11
  <1> QED
    BY <1>8, <1>9

\* commit_deposit: the coin was in no deposit of the bank, its value is credited.
LEMMA BackingCredit ==
  ASSUME CInv, BackingInv, NEW h \in Submitters, CommitDeposit(h)
  PROVE  BackingInv'
  <1>0. PICK r \in Requests : r = request[h]
    BY DEF CommitDeposit, CInv, HandoverInv
  <1> DEFINE o == DepositOutcome(r)
  <1>1. UNCHANGED <<serials, receivables>>
    BY DEF CommitDeposit, vars
  <1>2. /\ o = "Accepted" =>
             /\ balance' = [balance EXCEPT ![r.account] = balance[r.account] + Value(r.coin)]
             /\ deposits' = [deposits EXCEPT ![r.id] = r]
        /\ o # "Accepted" => UNCHANGED <<balance, deposits>>
    BY <1>0 DEF CommitDeposit
  <1>3. o = "Accepted" => deposits[r.id] = NoRequest /\ ~SpentAt(r.account, r.coin)
    BY OutcomeCases
  <1> HIDE DEF o
  <1>4. CASE o # "Accepted"
    BY <1>1, <1>2, <1>4, BackingIdle
  <1>5. CASE o = "Accepted"
    <2>1. PICK a \in Banks, c \in Coins, k \in Ids :
            r.account = a /\ r.coin = c /\ r.id = <<a, k>> /\ r # NoRequest
      BY RequestType
    <2>2. /\ deposits' = [deposits EXCEPT ![<<a, k>>] = r]
          /\ balance' = [balance EXCEPT ![a] = balance[a] + Value(c)]
          /\ deposits[<<a, k>>] = NoRequest /\ c \notin CreditedAt(a)
          /\ balance \in [Banks -> Nat]
          /\ deposits \in [Banks \X Ids -> Requests \cup {NoRequest}]
      BY <1>2, <1>3, <1>5, <2>1 DEF CInv, ClearingTypeOK, CreditedAt
    <2>3. ASSUME NEW b \in Banks, NEW d \in Coins
          PROVE  SpentAt(b, d)' <=> SpentAt(b, d) \/ (b = a /\ d = c)
      <3>1. \A i \in Ids : deposits'[<<b, i>>] = IF b = a /\ i = k THEN r ELSE deposits[<<b, i>>]
        BY <2>2
      <3> QED
        BY <2>1, <2>2, <3>1 DEF SpentAt
    <2>4. ASSUME NEW b \in Banks
          PROVE  balance'[b] = SumFunctionOnSet(Values, CreditedAt(b)')
      <3>1. CASE b # a
        <4>1. CreditedAt(b)' = CreditedAt(b)
          BY <2>3, <3>1 DEF CreditedAt
        <4>2. balance'[b] = balance[b]
          BY <2>2, <3>1
        <4> QED
          BY <4>1, <4>2 DEF BackingInv
      <3>2. CASE b = a
        <4>1. CreditedAt(b)' = CreditedAt(b) \cup {c} /\ c \notin CreditedAt(b)
          BY <2>2, <2>3, <3>2 DEF CreditedAt
        <4>2. IsFiniteSet(CreditedAt(b))
          <5>1. CreditedAt(b) \in SUBSET Registered(b)
            BY DEF CInv, RegisteredIsCredited, CreditedAt, Registered
          <5> QED
            BY <5>1, FS_Subset DEF BackingInv
        <4>3. \A d \in CreditedAt(b) \cup {c} : Values[d] \in Int
          BY ConstantsAssumption DEF Values, CreditedAt
        <4>4. SumFunctionOnSet(Values, CreditedAt(b) \cup {c})
                = SumFunctionOnSet(Values, CreditedAt(b)) + Values[c]
          BY <4>1, <4>2, <4>3, SumAdd
        <4>5. balance'[b] = balance[b] + Values[c]
          BY <2>2, <3>2 DEF Values
        <4>6. balance[b] = SumFunctionOnSet(Values, CreditedAt(b))
          BY DEF BackingInv
        <4> QED
          BY <4>1, <4>4, <4>5, <4>6
      <3> QED
        BY <3>1, <3>2
    <2>5. Values' = Values /\ \A b \in Banks : Registered(b)' = Registered(b) /\ DueTo(b)' = DueTo(b)
      BY <1>1 DEF Registered, DueTo, Values
    <2> QED
      BY <2>4, <2>5 DEF BackingInv
  <1> QED
    BY <1>4, <1>5

\* Every step of the network.
LEMMA BackingNext == CInv /\ BackingInv /\ [ClearingNext]_clearingVars => BackingInv'
  <1> SUFFICES ASSUME CInv, BackingInv, [ClearingNext]_clearingVars PROVE BackingInv'
    OBVIOUS
  <1>1. ASSUME UNCHANGED ledger, UNCHANGED db PROVE BackingInv'
    BY <1>1, BackingIdle DEF ledger, db
  <1>2. ASSUME NEW b \in Banks, CreateAccount(b) PROVE BackingInv'
    BY <1>2, BackingIdle DEF CreateAccount, vars
  <1>3. ASSUME NEW h \in Submitters, NEW r \in Requests, Deposit(h, r) PROVE BackingInv'
    BY <1>3, BackingIdle DEF Deposit, vars, ledger
  <1>4. ASSUME NEW h \in Submitters, Arrive(h) PROVE BackingInv'
    BY <1>1, <1>4 DEF Arrive, ReadCap
  <1>5. ASSUME NEW h \in Submitters, Lose(h) \/ Fail(h) PROVE BackingInv'
    BY <1>5, BackingIdle DEF Lose, Fail, vars, ledger
  <1>6. ASSUME NEW h \in Submitters, SubmitStep(h) PROVE BackingInv'
    <2>1. UNCHANGED ledger
      BY <1>6 DEF SubmitStep
    <2>2. CASE CommitAccepted(h)
      BY <2>1, <2>2, BackingCharge
    <2>3. CASE CommitCollision(h)
      BY <2>1, <2>3, BackingIdle DEF CommitCollision, ledger
    <2>4. CASE CheckExposure(h) \/ InsertSerial(h) \/ AddReceivable(h) \/ Abort(h)
      <3>1. UNCHANGED db
        BY <2>4 DEF CheckExposure, InsertSerial, AddReceivable, Abort
      <3> QED
        BY <1>1, <2>1, <3>1
    <2> QED
      BY <1>6, <2>2, <2>3, <2>4 DEF SubmitStep
  <1>7. CASE Govern
    <2>1. UNCHANGED <<balance, deposits, serials, receivables>>
      BY <1>7 DEF Govern, RegisterMember, SetCap, ledger
    <2> QED
      BY <2>1, BackingIdle
  <1>8. CASE UNCHANGED clearingVars
    BY <1>8, BackingIdle DEF clearingVars, vars, ledger
  <1> QED
    BY <1>2, <1>3, <1>4, <1>5, <1>6, <1>7, <1>8, BackingCredit DEF ClearingNext

\* No bank pays out for a coin that the registry has not charged to its issuer,
\* whatever is lost between the bank's handler and submit_serial.
THEOREM CreditsAreBacked == ClearingSpec => []CreditIsBacked
  <1>1. ASSUME CInv, BackingInv PROVE CreditIsBacked
    <2> SUFFICES ASSUME NEW b \in Banks
                 PROVE  balance[b] <= SumFunctionOnSet(DueTo(b), Banks)
      BY DEF CreditIsBacked, DueTo
    <2>1. CreditedAt(b) \in SUBSET Registered(b)
      BY <1>1 DEF CInv, RegisteredIsCredited, CreditedAt, Registered
    <2>2. IsFiniteSet(Registered(b)) /\ \A c \in Registered(b) : Values[c] \in Nat
      BY <1>1, ValuesAreNumbers DEF BackingInv, Registered
    <2>3. SumFunctionOnSet(Values, CreditedAt(b)) <= SumFunctionOnSet(Values, Registered(b))
      BY <2>1, <2>2, SumSubset
    <2> QED
      BY <1>1, <2>3 DEF BackingInv
  <1> QED
    BY <1>1, BackingInit, BackingNext, ClearingInvariance, PTL DEF ClearingSpec
=============================================================================
