----------------------------- MODULE BankDeposit ----------------------------
(***************************************************************************)
(* Deposits at one bank (digicash-bank/src/bank.rs, deposit and            *)
(* commit_deposit), with the submission to the shared registry when one is *)
(* configured.                                                             *)
(*                                                                         *)
(* commit_deposit runs as the statements of a READ COMMITTED transaction:  *)
(* each statement sees what is committed when it runs, and a transaction   *)
(* that inserts a key, or updates a row, that another one holds uncommitted *)
(* waits for it.  A transaction's writes are visible once it commits, so a *)
(* handler carries them in its stage; the locks it holds follow from it.   *)
(***************************************************************************)
EXTENDS Naturals, FiniteSets, Functions

CONSTANTS AccountIds,      \* account ids
          RequestIds,      \* client-chosen idempotency keys
          Coins,           \* (scheme, denomination, serial) triples
          Genuine,         \* coins whose scheme, key and signature check out
          Value(_),        \* a coin's denomination in cents
          Requests,        \* the deposit requests clients send
          Handlers,        \* handlers that may run at the same time
          InitialBalances, \* balances accounts are created with
          MaxBalance,      \* i64::MAX, the largest BIGINT
          Configurations,  \* of a registry client: there is one, there is none
          NoRequest, NoId

DepositRequests == [id : RequestIds, account : AccountIds, coin : Coins]

ASSUME ConstantsAssumption ==
  /\ MaxBalance \in Nat
  /\ InitialBalances \subseteq 0..MaxBalance
  /\ Genuine \subseteq Coins
  /\ \A c \in Coins : Value(c) \in Nat \ {0}
  /\ Requests \subseteq DepositRequests
  /\ NoRequest \notin Requests
  /\ NoId \notin RequestIds
  /\ Configurations \subseteq BOOLEAN

\* A request_id is a string that fits a request.
ASSUME FinitenessAssumption == IsFiniteSet(RequestIds)

Stages == {"idle", "submit", "select", "serial", "credit", "record", "commit"}

\* The answers that are kept; ExposureCapExceeded, and errors, say nothing about
\* the state of the bank.
Outcomes == {"accepted", "DoubleSpend", "RequestIdReuse", "UnknownAccount",
             "RegistryDoubleSpend"}

\* An answer, and whether its request had no deposit when it arrived.
Replies == [req : Requests, outcome : Outcomes, fresh : BOOLEAN]

VARIABLES
  accounts,      \* rows of table accounts
  balance,       \* their balance_cents (0 where there is no row)
  spent_serials, \* table spent_serials: the request_id a coin is spent under
  deposits,      \* table deposits: the request recorded for a request_id
  configured,    \* a registry client is configured
  registry,      \* registry's serials: "free", "here" (by us) or "elsewhere"
  abandoned,     \* coins whose submission runs on without a handler
  stage,         \* what each handler does next
  job,           \* the request it handles
  replies,       \* answers so far
  opening,       \* history: the balance each account was created with
  fresh          \* history: there was no deposit under its request_id on arrival

db   == <<accounts, balance, spent_serials, deposits>>
net  == <<configured, registry, abandoned>>
vars == <<accounts, balance, spent_serials, deposits, configured, registry, abandoned,
          stage, job, replies, opening, fresh>>

Init ==
  /\ accounts = {}
  /\ balance = [a \in AccountIds |-> 0]
  /\ spent_serials = [c \in Coins |-> NoId]
  /\ deposits = [i \in RequestIds |-> NoRequest]
  /\ configured \in Configurations
  /\ registry = [c \in Coins |-> "free"]
  /\ abandoned = {}
  /\ stage = [h \in Handlers |-> "idle"]
  /\ job = [h \in Handlers |-> NoRequest]
  /\ replies = {}
  /\ opening = [a \in AccountIds |-> 0]
  /\ fresh = [h \in Handlers |-> FALSE]

-----------------------------------------------------------------------------
Goto(h, s) == stage' = [stage EXCEPT ![h] = s] /\ UNCHANGED <<job, fresh>>

\* The handler is done; an open transaction is dropped and rolls back.
Finish(h) ==
  /\ stage' = [stage EXCEPT ![h] = "idle"]
  /\ job' = [job EXCEPT ![h] = NoRequest]
  /\ fresh' = [fresh EXCEPT ![h] = FALSE]

Reply(h, outcome) ==
  /\ replies' = replies \cup {[req |-> job[h], outcome |-> outcome, fresh |-> fresh[h]]}
  /\ Finish(h)

\* What the open transactions hold: the serial inserted, the account updated,
\* the request_id recorded.
SerialLocked(c) ==
  \E h \in Handlers : stage[h] \in {"credit", "record", "commit"} /\ job[h].coin = c
AccountLocked(a) ==
  \E h \in Handlers : stage[h] \in {"record", "commit"} /\ job[h].account = a
RequestLocked(i) ==
  \E h \in Handlers : stage[h] = "commit" /\ job[h].id = i

-----------------------------------------------------------------------------
\* create_account with a fresh id; an existing one is refused and unchanged.
CreateAccount(a, b) ==
  /\ a \notin accounts
  /\ accounts' = accounts \cup {a}
  /\ balance' = [balance EXCEPT ![a] = b]
  /\ opening' = [opening EXCEPT ![a] = b]
  /\ UNCHANGED <<spent_serials, deposits, net, stage, job, replies, fresh>>

\* deposit: scheme, key and signature checks.  A coin that fails one is
\* rejected and nothing changes, so only genuine coins go on.
Deposit(h, r) ==
  /\ stage[h] = "idle"
  /\ r.coin \in Genuine
  /\ stage' = [stage EXCEPT ![h] = IF configured THEN "submit" ELSE "select"]
  /\ job' = [job EXCEPT ![h] = r]
  /\ fresh' = [fresh EXCEPT ![h] = deposits[r.id] = NoRequest]
  /\ UNCHANGED <<db, net, replies, opening>>

\* Wrong variant: only an exceeded cap stops the deposit.
SubmitIgnoresDoubleSpend(h) ==
  LET c == job[h].coin IN
  /\ stage[h] = "submit"
  /\ registry' = IF registry[c] = "free" THEN [registry EXCEPT ![c] = "here"] ELSE registry
  /\ Goto(h, "select")
  /\ UNCHANGED <<db, configured, abandoned, replies, opening>>

\* submit_serial at the registry, a committed transaction there before ours
\* begins.  ExposureCapExceeded depends on state the registry keeps, and ends
\* the handler without a trace here.
SubmitSerial(h) ==
  LET c == job[h].coin IN
  /\ stage[h] = "submit"
  /\ \/ /\ registry[c] = "free"
        /\ registry' = [registry EXCEPT ![c] = "here"]
        /\ Goto(h, "select")
        /\ UNCHANGED replies
     \/ /\ registry[c] # "free"
        /\ Reply(h, "RegistryDoubleSpend")
        /\ UNCHANGED registry
     \/ /\ Finish(h)
        /\ UNCHANGED <<registry, replies>>
  /\ UNCHANGED <<db, configured, abandoned, opening>>

\* Another bank, which has checked the coin as deposit does, submits it first.
SubmitElsewhere(c) ==
  /\ configured
  /\ c \in Genuine
  /\ registry[c] = "free"
  /\ registry' = [registry EXCEPT ![c] = "elsewhere"]
  /\ UNCHANGED <<db, configured, abandoned, stage, job, replies, opening, fresh>>

\* A submission whose handler is gone still reaches the registry: spawn_blocking
\* runs to its end, and a request on the wire outlives its process.  One that
\* does not arrive, or is refused there, changes nothing.
SubmitAbandoned(c) ==
  /\ c \in abandoned
  /\ registry[c] = "free"
  /\ registry' = [registry EXCEPT ![c] = "here"]
  /\ abandoned' = abandoned \ {c}
  /\ UNCHANGED <<db, configured, stage, job, replies, opening, fresh>>

\* Wrong variant: a request_id found is taken for a retry of any coin.
SelectIgnoresCoin(h) ==
  /\ stage[h] = "select"
  /\ \/ /\ deposits[job[h].id] # NoRequest
        /\ Reply(h, "accepted")
     \/ /\ deposits[job[h].id] = NoRequest
        /\ Goto(h, "serial")
        /\ UNCHANGED replies
  /\ UNCHANGED <<db, net, opening>>

\* SELECT ... FROM deposits WHERE request_id: a retry of the same coin replays
\* the acceptance, another coin under the request_id is refused.
SelectDeposit(h) ==
  LET row == deposits[job[h].id] IN
  /\ stage[h] = "select"
  /\ \/ /\ row # NoRequest
        /\ Reply(h, IF row.coin = job[h].coin THEN "accepted" ELSE "RequestIdReuse")
     \/ /\ row = NoRequest
        /\ Goto(h, "serial")
        /\ UNCHANGED replies
  /\ UNCHANGED <<db, net, opening>>

\* Wrong variant: a plain SELECT instead of the insert, which does not wait.
InsertSerialUnlocked(h) ==
  LET c == job[h].coin IN
  /\ stage[h] = "serial"
  /\ IF spent_serials[c] # NoId
       THEN Reply(h, "DoubleSpend")
       ELSE Goto(h, "credit") /\ UNCHANGED replies
  /\ UNCHANGED <<db, net, opening>>

\* INSERT INTO spent_serials ... ON CONFLICT DO NOTHING: waits for an
\* uncommitted insert of the coin, then inserts or affects no row.
InsertSerial(h) ==
  LET c == job[h].coin IN
  /\ stage[h] = "serial"
  /\ ~SerialLocked(c)
  /\ IF spent_serials[c] # NoId
       THEN Reply(h, "DoubleSpend")
       ELSE Goto(h, "credit") /\ UNCHANGED replies
  /\ UNCHANGED <<db, net, opening>>

\* Wrong variant: the credit is not limited to the column's range.
CreditUnbounded(h) ==
  LET r == job[h] IN
  /\ stage[h] = "credit"
  /\ r.account \in accounts
  /\ ~AccountLocked(r.account)
  /\ Goto(h, "record")
  /\ UNCHANGED <<db, net, replies, opening>>

\* UPDATE accounts: no row means UnknownAccount and a rollback that frees the
\* serial; a balance past i64::MAX is an SQL error.
CreditAccount(h) ==
  LET r == job[h] IN
  /\ stage[h] = "credit"
  /\ \/ /\ r.account \notin accounts
        /\ Reply(h, "UnknownAccount")
     \/ /\ r.account \in accounts
        /\ ~AccountLocked(r.account)
        /\ IF balance[r.account] + Value(r.coin) > MaxBalance
             THEN Finish(h)
             ELSE Goto(h, "record")
        /\ UNCHANGED replies
  /\ UNCHANGED <<db, net, opening>>

\* Wrong variant: the unique violation is retried inside the transaction.
InsertDepositRetries(h) ==
  LET r == job[h] IN
  /\ stage[h] = "record"
  /\ ~RequestLocked(r.id)
  /\ deposits[r.id] = NoRequest
  /\ Goto(h, "commit")
  /\ UNCHANGED <<db, net, replies, opening>>

\* INSERT INTO deposits, no ON CONFLICT: waits for an uncommitted row of the
\* request_id; a committed one is an SQL error and the transaction rolls back.
InsertDeposit(h) ==
  LET r == job[h] IN
  /\ stage[h] = "record"
  /\ ~RequestLocked(r.id)
  /\ IF deposits[r.id] # NoRequest THEN Finish(h) ELSE Goto(h, "commit")
  /\ UNCHANGED <<db, net, replies, opening>>

\* Wrong variant: the credit is committed without the deposit's record.
CommitWithoutRecord(h) ==
  LET r == job[h] IN
  /\ stage[h] = "commit"
  /\ spent_serials' = [spent_serials EXCEPT ![r.coin] = r.id]
  /\ balance' = [balance EXCEPT ![r.account] = balance[r.account] + Value(r.coin)]
  /\ Reply(h, "accepted")
  /\ UNCHANGED <<accounts, deposits, net, opening>>

\* COMMIT: the transaction's three writes become visible together.
Commit(h) ==
  LET r == job[h] IN
  /\ stage[h] = "commit"
  /\ spent_serials' = [spent_serials EXCEPT ![r.coin] = r.id]
  /\ balance' = [balance EXCEPT ![r.account] = balance[r.account] + Value(r.coin)]
  /\ deposits' = [deposits EXCEPT ![r.id] = r]
  /\ Reply(h, "accepted")
  /\ UNCHANGED <<accounts, net, opening>>

\* An SQL, pool or registry error, a client that goes away, or a crash of the
\* process: the open transaction rolls back, and a submission is abandoned.
\* (A crash ends every handler; deposits keep nothing in memory between them.)
Abort(h) ==
  /\ stage[h] # "idle"
  /\ abandoned' = IF stage[h] = "submit" THEN abandoned \cup {job[h].coin} ELSE abandoned
  /\ Finish(h)
  /\ UNCHANGED <<db, configured, registry, replies, opening>>

\* A statement of commit_deposit's transaction.
Transact(h) ==
  \/ SelectDeposit(h) \/ InsertSerial(h) \/ CreditAccount(h)
  \/ InsertDeposit(h) \/ Commit(h)

Next ==
  \/ \E a \in AccountIds : \E b \in InitialBalances : CreateAccount(a, b)
  \/ \E c \in Coins : SubmitElsewhere(c) \/ SubmitAbandoned(c)
  \/ \E h \in Handlers : \E r \in Requests : Deposit(h, r)
  \/ \E h \in Handlers : SubmitSerial(h) \/ Transact(h) \/ Abort(h)

Spec == Init /\ [][Next]_vars

\* tokio polls every ready handler; Postgres grants a lock to its waiters in
\* the order they came, so a waiter the lock keeps coming free for gets it.
\* Nothing is assumed of SubmitSerial: the client has no timeout, and a registry
\* that does not answer holds the handler.
Fairness == \A h \in Handlers : SF_vars(Transact(h))

FairSpec == Spec /\ Fairness

-----------------------------------------------------------------------------
(* Properties *)

\* The tables and the handlers' memory hold values of their types; a balance
\* fits the BIGINT column.
TypeOK ==
  /\ accounts \subseteq AccountIds
  /\ balance \in [AccountIds -> 0..MaxBalance]
  /\ spent_serials \in [Coins -> RequestIds \cup {NoId}]
  /\ deposits \in [RequestIds -> Requests \cup {NoRequest}]
  /\ configured \in BOOLEAN
  /\ registry \in [Coins -> {"free", "here", "elsewhere"}]
  /\ abandoned \subseteq Coins
  /\ stage \in [Handlers -> Stages]
  /\ job \in [Handlers -> Requests \cup {NoRequest}]
  /\ replies \subseteq Replies
  /\ opening \in [AccountIds -> 0..MaxBalance]
  /\ fresh \in [Handlers -> BOOLEAN]

\* The two tables agree: a coin is spent exactly when one deposit records it,
\* under the request_id spent_serials names, so no interleaving of handlers
\* and rollbacks leaves a spent coin without a deposit or two deposits of one.
SpentIffDeposited ==
  /\ \A c \in Coins : spent_serials[c] # NoId =>
       deposits[spent_serials[c]] # NoRequest /\ deposits[spent_serials[c]].coin = c
  /\ \A i \in RequestIds : deposits[i] # NoRequest => spent_serials[deposits[i].coin] = i

\* What an answer says, of the tables as they are.
AnswerIsTrue(x) ==
  LET row   == deposits[x.req.id]
      under == spent_serials[x.req.coin] IN
  /\ x.outcome = "accepted" =>
       \/ row = x.req
       \/ /\ row # NoRequest /\ row.coin = x.req.coin /\ row.account # x.req.account
          /\ \E y \in replies : y.req = row /\ y.outcome = "accepted"
  /\ x.outcome = "DoubleSpend" => under # NoId /\ (under = x.req.id => x.fresh)
  /\ x.outcome = "RequestIdReuse" => row # NoRequest /\ row.coin # x.req.coin
  /\ x.outcome = "RegistryDoubleSpend" =>
       \/ registry[x.req.coin] = "here"
       \/ registry[x.req.coin] = "elsewhere" /\ under = NoId

\* Answers mean what DepositResponse and DepositRejection (messages.rs) say, and
\* stay true, with the exceptions that the interleavings and retries cause:
\* - accepted, "the coin was accepted and the account credited": this request is
\*   recorded, or it repeats, for another account, the accepted request that is
\*   recorded with its request_id and its coin;
\* - DoubleSpend, "already spent under a different request_id": so it is, or the
\*   request was sent again before its first attempt had committed;
\* - RequestIdReuse, "already used for a different coin";
\* - RegistryDoubleSpend: the registry has the serial, if from another bank, then
\*   the coin is not spent here.
RepliesAreTrue == \A x \in replies : AnswerIsTrue(x)

\* With a registry, a coin credited here was submitted from here first: two
\* banks that share the registry never both credit one coin.
CreditedOnlyIfRegistered ==
  configured => \A c \in Coins : spent_serials[c] # NoId => registry[c] = "here"

\* What each request_id has credited to an account.
Credited(a) ==
  [i \in RequestIds |->
     IF deposits[i] # NoRequest /\ deposits[i].account = a THEN Value(deposits[i].coin) ELSE 0]

\* Money is neither made nor lost: an account holds its opening balance and the
\* coins whose deposit names it, at every instant.
MoneyConserved ==
  \A a \in AccountIds :
    balance[a] = opening[a] + SumFunctionOnSet(Credited(a), RequestIds)

\* A transaction always ends: the serial, account and request_id locks are taken
\* in one order, so no set of handlers waits in a circle, whatever handlers that
\* wait for the registry do.
DepositEnds ==
  \A h \in Handlers : stage[h] \notin {"idle", "submit"} ~> stage[h] = "idle"

\* "Client-generated idempotency key; a retry of the same coin replays"
\* (messages.rs, DepositRequest): a deposit that was credited is not refused
\* when its client sends it again.
RetryReplays ==
  \A x \in replies : x.outcome = "RegistryDoubleSpend" => deposits[x.req.id] # x.req

\* The contract the code keeps: DepositContract, with the deposits table read
\* as what is redeemed.
accepted == {[id |-> x.req.id, coin |-> x.req.coin] :
               x \in {y \in replies : y.outcome = "accepted"}}

Contract == INSTANCE DepositContract
  WITH redeemed <- deposits, Amounts <- 0..MaxBalance

\* Every committed transaction is one atomic redemption: a coin is credited at
\* most once, in one step with its record, and a reply confirms only that.
RefinesContract == Contract!Spec
=============================================================================
