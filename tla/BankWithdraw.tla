---------------------------- MODULE BankWithdraw ----------------------------
(***************************************************************************)
(* Withdrawals at one bank (digicash-bank/src/bank.rs): the withdraw       *)
(* handlers that run concurrently against Postgres, the withdraw_states    *)
(* state machine, and the recovery pass of Bank::connect after a crash.    *)
(*                                                                         *)
(* Every SQL statement outside a transaction, and every transaction, is    *)
(* one step: the two transactions here take the account row's lock first   *)
(* and keep it to commit, so they are serial where they conflict.          *)
(* Whatever a handler read in an earlier step it may use in a later one    *)
(* (job, held), which is where concurrent handlers of one request_id meet. *)
(***************************************************************************)
EXTENDS Naturals, FiniteSets, Functions

CONSTANTS AccountIds,      \* account ids
          RequestIds,      \* client-chosen idempotency keys
          Messages,        \* blinded messages
          Signable,        \* messages sign_blinded accepts (length, range)
          Denominations,   \* denominations the key store holds a key for
          Requests,        \* the requests clients send, retries included
          Handlers,        \* handlers that may run at the same time
          Recoverer,       \* the task that runs Bank::connect
          InitialBalances, \* balances accounts are created with
          DepositAmounts,  \* amounts deposits credit meanwhile
          MaxBalance,      \* i64::MAX, the largest BIGINT
          DbFaults,        \* TRUE when a pool or SQL call may return Err
          NoRequest, NoSig

WithdrawRequests == [id : RequestIds, account : AccountIds, denom : Nat, message : Messages]

Signatures == [denom : Denominations, message : Signable]

ASSUME ConstantsAssumption ==
  /\ MaxBalance \in Nat
  /\ Denominations \subseteq 1..MaxBalance
  /\ InitialBalances \subseteq 0..MaxBalance
  /\ DepositAmounts \subseteq 1..MaxBalance
  /\ Signable \subseteq Messages
  /\ Requests \subseteq WithdrawRequests
  /\ Recoverer \notin Handlers
  /\ NoRequest \notin Requests
  /\ NoSig \notin Signatures
  /\ DbFaults \in BOOLEAN

\* A request_id is a string that fits a request.
ASSUME FinitenessAssumption == IsFiniteSet(RequestIds)

Procs  == Handlers \cup {Recoverer}
States == {"none", "pending", "signed", "completed", "compensated"}
Stages == {"idle", "debit", "finalize", "complete", "advance"}

VARIABLES
  accounts,        \* rows of table accounts
  balance,         \* their balance_cents (0 where there is no row)
  withdraw_states, \* table withdraw_states: [state, req, sig]; "none" is no row
  phase,           \* "down", "recovering" (in connect) or "serving"
  todo,            \* request_ids recover_withdrawals has still to resume
  stage,           \* what each handler, and the recovery task, does next
  job,             \* the request it works on: its own, or the loaded record's
  held,            \* the blind signature it holds in memory
  replies,         \* signatures returned by withdraw so far, [id, sig]
  paidIn           \* history: what was ever paid into each account

db   == <<accounts, balance, withdraw_states>>
mem  == <<stage, job, held>>
vars == <<accounts, balance, withdraw_states, phase, todo, stage, job, held,
          replies, paidIn>>

-----------------------------------------------------------------------------
\* sign_blinded: deterministic in the key and the message.
SignatureOf(r) == [denom |-> r.denom, message |-> r.message]

NoRow == [state |-> "none", req |-> NoRequest, sig |-> NoSig]

Init ==
  /\ accounts = {}
  /\ balance = [a \in AccountIds |-> 0]
  /\ withdraw_states = [i \in RequestIds |-> NoRow]
  /\ phase = "down"
  /\ todo = {}
  /\ stage = [p \in Procs |-> "idle"]
  /\ job = [p \in Procs |-> NoRequest]
  /\ held = [p \in Procs |-> NoSig]
  /\ replies = {}
  /\ paidIn = [a \in AccountIds |-> 0]

\* Process p goes on to stage s with request r and signature g in hand.
Goto(p, s, r, g) ==
  /\ stage' = [stage EXCEPT ![p] = s]
  /\ job'   = [job EXCEPT ![p] = r]
  /\ held'  = [held EXCEPT ![p] = g]

Finish(p) == Goto(p, "idle", NoRequest, NoSig)

\* UPDATE withdraw_states SET state = s, blind_signature = g WHERE request_id = i
SetRow(i, s, g) ==
  withdraw_states' = [withdraw_states EXCEPT
    ![i] = [state |-> s, req |-> withdraw_states[i].req, sig |-> g]]

\* The signature goes out in a WithdrawResponse; recovery only drops it.
Respond(p, i, g) ==
  replies' = IF p = Recoverer THEN replies
             ELSE replies \cup {[id |-> i, sig |-> g]}

-----------------------------------------------------------------------------
\* create_account with a fresh id; an existing one is refused and unchanged.
CreateAccount(a, b) ==
  /\ phase = "serving"
  /\ a \notin accounts
  /\ accounts' = accounts \cup {a}
  /\ balance' = [balance EXCEPT ![a] = b]
  /\ paidIn' = [paidIn EXCEPT ![a] = b]
  /\ UNCHANGED <<withdraw_states, phase, todo, mem, replies>>

\* A deposit commits meanwhile: the credit of commit_deposit (see BankDeposit).
DepositCredit(a, d) ==
  /\ phase = "serving"
  /\ a \in accounts
  /\ balance[a] + d <= MaxBalance
  /\ balance' = [balance EXCEPT ![a] = balance[a] + d]
  /\ paidIn' = [paidIn EXCEPT ![a] = paidIn[a] + d]
  /\ UNCHANGED <<accounts, withdraw_states, phase, todo, mem, replies>>

\* Wrong variant: a retry of a pending record finalizes what the retry says
\* instead of what the record says.
WithdrawResumesOwnRequest(h, r) ==
  LET row == withdraw_states[r.id] IN
  /\ phase = "serving"
  /\ stage[h] = "idle"
  /\ \/ /\ row.state = "none"
        /\ r.denom \in Denominations
        /\ Goto(h, "debit", r, NoSig)
        /\ UNCHANGED replies
     \/ /\ row.state = "pending"
        /\ Goto(h, "finalize", r, NoSig)
        /\ UNCHANGED replies
     \/ /\ row.state = "signed"
        /\ Goto(h, "advance", row.req, row.sig)
        /\ UNCHANGED replies
     \/ /\ row.state = "completed"
        /\ Respond(h, r.id, row.sig)
        /\ UNCHANGED mem
  /\ UNCHANGED <<db, phase, todo, paidIn>>

\* withdraw up to its first decision: load_record, then resume_withdraw or the
\* key check.  An unknown denomination and a compensated record return an
\* error and change nothing, so they are not steps.
Withdraw(h, r) ==
  LET row == withdraw_states[r.id] IN
  /\ phase = "serving"
  /\ stage[h] = "idle"
  /\ \/ /\ row.state = "none"
        /\ r.denom \in Denominations
        /\ Goto(h, "debit", r, NoSig)
        /\ UNCHANGED replies
     \/ /\ row.state = "pending"
        /\ Goto(h, "finalize", row.req, NoSig)
        /\ UNCHANGED replies
     \/ /\ row.state = "signed"
        /\ Goto(h, "advance", row.req, row.sig)
        /\ UNCHANGED replies
     \/ /\ row.state = "completed"
        /\ Respond(h, r.id, row.sig)
        /\ UNCHANGED mem
  /\ UNCHANGED <<db, phase, todo, paidIn>>

\* Wrong variant: the balance read FOR UPDATE is not compared.
DebitUnchecked(h) ==
  LET r == job[h] IN
  /\ stage[h] = "debit"
  /\ r.account \in accounts
  /\ withdraw_states[r.id].state = "none"
  /\ balance' = [balance EXCEPT ![r.account] = balance[r.account] - r.denom]
  /\ withdraw_states' = [withdraw_states EXCEPT
       ![r.id] = [state |-> "pending", req |-> r, sig |-> NoSig]]
  /\ Goto(h, "finalize", r, NoSig)
  /\ UNCHANGED <<accounts, phase, todo, replies, paidIn>>

\* Wrong variant: the pending record is upserted, so the debit of a second
\* handler of the same request_id commits as well.
DebitUpserts(h) ==
  LET r == job[h] IN
  /\ stage[h] = "debit"
  /\ r.account \in accounts
  /\ balance[r.account] >= r.denom
  /\ balance' = [balance EXCEPT ![r.account] = balance[r.account] - r.denom]
  /\ withdraw_states' = [withdraw_states EXCEPT
       ![r.id] = [state |-> "pending", req |-> r, sig |-> NoSig]]
  /\ Goto(h, "finalize", r, NoSig)
  /\ UNCHANGED <<accounts, phase, todo, replies, paidIn>>

\* debit_and_record_pending: debit and pending record in one transaction.
DebitAndRecordPending(h) ==
  LET r == job[h] IN
  /\ stage[h] = "debit"
  /\ \/ /\ r.account \in accounts
        /\ balance[r.account] >= r.denom
        /\ withdraw_states[r.id].state = "none"
        /\ balance' = [balance EXCEPT ![r.account] = balance[r.account] - r.denom]
        /\ withdraw_states' = [withdraw_states EXCEPT
             ![r.id] = [state |-> "pending", req |-> r, sig |-> NoSig]]
        /\ Goto(h, "finalize", r, NoSig)
     \/ \* AccountNotFound, InsufficientBalance, or the primary key rejects the
        \* INSERT because another handler recorded the request_id first
        /\ \/ r.account \notin accounts
           \/ balance[r.account] < r.denom
           \/ withdraw_states[r.id].state # "none"
        /\ Finish(h)
        /\ UNCHANGED <<balance, withdraw_states>>
  /\ UNCHANGED <<accounts, phase, todo, replies, paidIn>>

\* finalize_withdraw, signing succeeds: the signature is persisted with state
\* signed, whatever the state is by now.
PersistSigned(p) ==
  /\ stage[p] = "finalize"
  /\ job[p].message \in Signable
  /\ SetRow(job[p].id, "signed", SignatureOf(job[p]))
  /\ Goto(p, "complete", job[p], SignatureOf(job[p]))
  /\ UNCHANGED <<accounts, balance, phase, todo, replies, paidIn>>

\* Wrong variant: the record is marked and the credit is forgotten.
CompensateWithoutCredit(p) ==
  /\ stage[p] = "finalize"
  /\ job[p].message \notin Signable
  /\ SetRow(job[p].id, "compensated", withdraw_states[job[p].id].sig)
  /\ Finish(p)
  /\ UNCHANGED <<accounts, balance, phase, todo, replies, paidIn>>

\* finalize_withdraw, signing fails: compensate credits the account and marks
\* the record in one transaction, whatever its state is by now.  A credit
\* past i64::MAX aborts the transaction.
Compensate(p) ==
  LET r == job[p] IN
  /\ stage[p] = "finalize"
  /\ r.message \notin Signable
  /\ \/ /\ balance[r.account] + r.denom <= MaxBalance
        /\ balance' = [balance EXCEPT ![r.account] = balance[r.account] + r.denom]
        /\ SetRow(r.id, "compensated", withdraw_states[r.id].sig)
     \/ /\ balance[r.account] + r.denom > MaxBalance
        /\ UNCHANGED <<balance, withdraw_states>>
  /\ Finish(p)
  /\ UNCHANGED <<accounts, phase, todo, replies, paidIn>>

\* set_state(Completed), after signing ("complete") or for a record found
\* signed ("advance"), and the answer to the client.
SetCompleted(p) ==
  /\ stage[p] \in {"complete", "advance"}
  /\ SetRow(job[p].id, "completed", withdraw_states[job[p].id].sig)
  /\ Respond(p, job[p].id, held[p])
  /\ Finish(p)
  /\ UNCHANGED <<accounts, balance, phase, todo, paidIn>>

-----------------------------------------------------------------------------
\* The client of h goes away and the server drops the handler's future.
Cancel(h) ==
  /\ stage[h] # "idle"
  /\ Finish(h)
  /\ UNCHANGED <<db, phase, todo, replies, paidIn>>

\* A pool or SQL call returns Err.  A handler answers 500.  Recovery logs the
\* error of finalize_withdraw and goes on, but the set_state of a record found
\* signed makes connect fail, and the process exits.
DbError(p) ==
  /\ DbFaults
  /\ stage[p] # "idle"
  /\ Finish(p)
  /\ IF p = Recoverer /\ stage[p] = "advance"
       THEN phase' = "down" /\ todo' = {}
       ELSE UNCHANGED <<phase, todo>>
  /\ UNCHANGED <<db, replies, paidIn>>

\* The process dies: memory is lost, the tables stay.
Crash ==
  /\ phase # "down"
  /\ phase' = "down"
  /\ todo' = {}
  /\ stage' = [p \in Procs |-> "idle"]
  /\ job' = [p \in Procs |-> NoRequest]
  /\ held' = [p \in Procs |-> NoSig]
  /\ UNCHANGED <<db, replies, paidIn>>

\* Wrong variant: recovery resumes the pending records only.
RestartPendingOnly ==
  /\ phase = "down"
  /\ phase' = "recovering"
  /\ todo' = {i \in RequestIds : withdraw_states[i].state = "pending"}
  /\ UNCHANGED <<db, mem, replies, paidIn>>

\* connect: recover_withdrawals selects the non-terminal records ...  The process
\* that served before is gone.  The recovery of a second process that starts beside
\* a serving one (KeyStore has it) does to a record what the handler of a retry
\* that loaded it at the SELECT does: finalize or advance, with the row's request.
Restart ==
  /\ phase = "down"
  /\ phase' = "recovering"
  /\ todo' = {i \in RequestIds : withdraw_states[i].state \in {"pending", "signed"}}
  /\ UNCHANGED <<db, mem, replies, paidIn>>

\* ... takes them one after the other, in the order the SELECT returned them ...
RecoverNext(i) ==
  LET row == withdraw_states[i] IN
  /\ phase = "recovering"
  /\ stage[Recoverer] = "idle"
  /\ i \in todo
  /\ todo' = todo \ {i}
  /\ \/ row.state = "pending" /\ Goto(Recoverer, "finalize", row.req, NoSig)
     \/ row.state = "signed"  /\ Goto(Recoverer, "advance", row.req, row.sig)
  /\ UNCHANGED <<db, phase, replies, paidIn>>

\* ... and the server starts to listen once the list is done.
RecoverDone ==
  /\ phase = "recovering"
  /\ stage[Recoverer] = "idle"
  /\ todo = {}
  /\ phase' = "serving"
  /\ UNCHANGED <<db, todo, mem, replies, paidIn>>

Work(p) == PersistSigned(p) \/ Compensate(p) \/ SetCompleted(p)

Handle(h) == DebitAndRecordPending(h) \/ Work(h)

Recover ==
  Restart \/ (\E i \in RequestIds : RecoverNext(i)) \/ Work(Recoverer) \/ RecoverDone

Next ==
  \/ \E a \in AccountIds : \E b \in InitialBalances : CreateAccount(a, b)
  \/ \E a \in AccountIds : \E d \in DepositAmounts : DepositCredit(a, d)
  \/ \E h \in Handlers : \E r \in Requests : Withdraw(h, r)
  \/ \E h \in Handlers : Handle(h) \/ Cancel(h)
  \/ \E p \in Procs : DbError(p)
  \/ Crash
  \/ Recover

Spec == Init /\ [][Next]_vars

\* A started handler and a started process keep running: tokio polls every
\* ready task and the bank is restarted when it is down.
Fairness == WF_vars(Recover) /\ \A h \in Handlers : WF_vars(Handle(h))

FairSpec == Spec /\ Fairness

-----------------------------------------------------------------------------
(* Properties *)

\* The tables and the handlers' memory hold values of their types; a balance
\* is never negative (the CHECK of table accounts) and fits the column.
TypeOK ==
  /\ accounts \subseteq AccountIds
  /\ balance \in [AccountIds -> 0..MaxBalance]
  /\ withdraw_states \in [RequestIds -> [state : States,
                                         req : Requests \cup {NoRequest},
                                         sig : Signatures \cup {NoSig}]]
  /\ phase \in {"down", "recovering", "serving"}
  /\ todo \subseteq RequestIds
  /\ stage \in [Procs -> Stages]
  /\ job \in [Procs -> Requests \cup {NoRequest}]
  /\ held \in [Procs -> Signatures \cup {NoSig}]
  /\ replies \subseteq [id : RequestIds, sig : Signatures \cup {NoSig}]
  /\ paidIn \in [AccountIds -> Nat]

Issued(i) == withdraw_states[i].state \in {"signed", "completed"}

\* No request is both paid back and signed: when the debit of a request_id was
\* compensated, no signature for it is stored, in a handler's memory or at a
\* client, whatever handlers of it ran, retried or died in between.
NoRefundedSignature ==
  \A i \in RequestIds : withdraw_states[i].state = "compensated" =>
    /\ withdraw_states[i].sig = NoSig
    /\ \A x \in replies : x.id # i
    /\ \A p \in Procs : stage[p] # "idle" /\ job[p].id = i => held[p] = NoSig

\* Idempotency: every reply to a request_id carries the same signature, the one
\* that is stored, and it is the signature over the message and denomination
\* the debited record holds, not over those of a retry that differs.
RepliesMatchRecord ==
  \A x \in replies :
    /\ Issued(x.id)
    /\ x.sig = withdraw_states[x.id].sig
    /\ x.sig = SignatureOf(withdraw_states[x.id].req)

\* What each request has taken from account a: its denomination from the debit
\* on, unless the debit was compensated.
Taken(a) ==
  [i \in RequestIds |->
     LET row == withdraw_states[i] IN
     IF row.state \in {"pending", "signed", "completed"} /\ row.req.account = a
       THEN row.req.denom ELSE 0]

\* Money is neither made nor lost: what was paid into an account is its balance
\* plus the withdrawals that hold a debit, at every instant, crashes included.
MoneyConserved ==
  \A a \in AccountIds :
    paidIn[a] = balance[a] + SumFunctionOnSet(Taken(a), RequestIds)

\* A customer never loses money: whatever was paid in is in the balance, in an
\* open debit that recovery will decide, or was signed for; every refund pays
\* back the account, denomination and record that were debited.
NothingLost ==
  \A a \in AccountIds :
    paidIn[a] <= balance[a] + SumFunctionOnSet(Taken(a), RequestIds)

\* A step that keeps what is decided about every request_id.
OutcomeStep ==
  \A i \in RequestIds :
    /\ withdraw_states[i].state = "compensated" =>
         withdraw_states'[i].state = "compensated"
    /\ Issued(i) => Issued(i)' /\ withdraw_states'[i].sig = withdraw_states[i].sig

\* A decided withdrawal stays decided: a compensated one is never signed, and a
\* signed or completed one keeps its signature and is never pending or
\* compensated again, through any mix of slow handlers, retries and recovery.
OutcomeIsFinal == [][OutcomeStep]_vars

\* "A `pending` withdraw is never left stranded" (bank.rs, recover_withdrawals):
\* when the bank starts to serve after recovery no record is pending or signed.
RecoveryLeavesNothingOpen ==
  [][phase = "recovering" /\ phase' = "serving" =>
       \A i \in RequestIds : withdraw_states[i].state \notin {"pending", "signed"}]_vars

\* Recovery ends: a record that is open when the process starts is decided, or
\* the process dies again.
RecoveryDecides ==
  \A i \in RequestIds :
    (phase = "recovering" /\ withdraw_states[i].state \in {"pending", "signed"})
      ~> (withdraw_states[i].state \in {"completed", "compensated"} \/ phase = "down")

\* The contract the code keeps: WithdrawContract, where a record's state is read
\* as the outcome of its request_id.
outcome == [i \in RequestIds |->
  LET state == withdraw_states[i].state IN
  IF state = "none" THEN "none"
  ELSE IF state = "pending" THEN "funded"
  ELSE IF state = "compensated" THEN "refunded" ELSE "issued"]

order == [i \in RequestIds |-> withdraw_states[i].req]

Contract == INSTANCE WithdrawContract WITH Amounts <- 0..MaxBalance

\* Every debit, refund and signature of the handlers and of recovery is a step
\* of the contract: one debit per request_id, then one signature or one refund.
RefinesContract == Contract!Spec
=============================================================================
