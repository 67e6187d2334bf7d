-------------------------- MODULE BankDepositProofs -------------------------
(***************************************************************************)
(* Proofs about BankDeposit, for every set of accounts, requests, coins    *)
(* and handlers, with and without a registry.                              *)
(***************************************************************************)
EXTENDS BankDeposit, SumTheorems

Unread       == {"idle", "submit", "select"}  \* the request_id not looked up yet
HoldsSerial  == {"credit", "record", "commit"}
HoldsAccount == {"record", "commit"}

\* What a handler has established when it reaches a stage, and still holds.
HandlersInv ==
  \A h \in Handlers :
    /\ stage[h] # "idle" => job[h] \in Requests
    /\ stage[h] = "submit" => configured
    /\ stage[h] # "idle" /\ deposits[job[h].id] = NoRequest => fresh[h]
    /\ stage[h] \notin Unread => fresh[h]
    /\ configured /\ stage[h] \notin {"idle", "submit"} => registry[job[h].coin] = "here"
    /\ stage[h] \in HoldsSerial => spent_serials[job[h].coin] = NoId
    /\ stage[h] \in HoldsAccount =>
         /\ job[h].account \in accounts
         /\ balance[job[h].account] + Value(job[h].coin) <= MaxBalance
    /\ stage[h] = "commit" => deposits[job[h].id] = NoRequest

\* No two open transactions hold the same serial, account or request_id.
LocksInv ==
  \A h, g \in Handlers : h # g =>
    /\ stage[h] \in HoldsSerial /\ stage[g] \in HoldsSerial => job[h].coin # job[g].coin
    /\ stage[h] \in HoldsAccount /\ stage[g] \in HoldsAccount =>
         job[h].account # job[g].account
    /\ stage[h] = "commit" /\ stage[g] = "commit" => job[h].id # job[g].id

\* A deposit is recorded under its request_id, in one step with its answer.
RecordsAnswered ==
  \A i \in RequestIds : deposits[i] # NoRequest =>
    /\ deposits[i].id = i
    /\ \E y \in replies : y.req = deposits[i] /\ y.outcome = "accepted"

\* Only a bank with a registry answers for it.
RegistryAnswers ==
  \A x \in replies : x.outcome = "RegistryDoubleSpend" => configured

\* The inductive invariant.
IInv == TypeOK /\ HandlersInv /\ LocksInv /\ SpentIffDeposited /\ RecordsAnswered
          /\ RegistryAnswers /\ RepliesAreTrue /\ CreditedOnlyIfRegistered

-----------------------------------------------------------------------------
\* Field types of a request, and the value of its coin.
LEMMA RequestType ==
  ASSUME NEW r \in Requests
  PROVE  /\ r.id \in RequestIds
         /\ r.account \in AccountIds
         /\ r.coin \in Coins
         /\ Value(r.coin) \in Nat
         /\ r # NoRequest
         /\ r.id # NoId
BY ConstantsAssumption DEF DepositRequests

LEMMA InitInv == Init => IInv
<1> SUFFICES ASSUME Init PROVE IInv
  OBVIOUS
<1>1. TypeOK
  BY ConstantsAssumption DEF Init, TypeOK, Stages
<1>2. HandlersInv /\ LocksInv
  BY DEF Init, HandlersInv, LocksInv, Unread, HoldsSerial, HoldsAccount
<1>3. /\ SpentIffDeposited /\ RecordsAnswered /\ RegistryAnswers
      /\ RepliesAreTrue /\ CreditedOnlyIfRegistered
  BY DEF Init, SpentIffDeposited, RecordsAnswered, RegistryAnswers, RepliesAreTrue,
     AnswerIsTrue, CreditedOnlyIfRegistered
<1> QED BY <1>1, <1>2, <1>3 DEF IInv

LEMMA CreateAccountInv ==
  ASSUME IInv, NEW a \in AccountIds, NEW b \in InitialBalances, CreateAccount(a, b)
  PROVE  IInv'
<1> USE DEF IInv, CreateAccount, net
<1>1. TypeOK'
  BY ConstantsAssumption DEF TypeOK
<1>2. HandlersInv'
  BY RequestType DEF HandlersInv, TypeOK, HoldsSerial, HoldsAccount
<1>3. /\ LocksInv' /\ SpentIffDeposited' /\ RecordsAnswered' /\ RegistryAnswers'
      /\ RepliesAreTrue' /\ CreditedOnlyIfRegistered'
  BY DEF LocksInv, SpentIffDeposited, RecordsAnswered, RegistryAnswers, RepliesAreTrue,
     AnswerIsTrue, CreditedOnlyIfRegistered
<1> QED BY <1>1, <1>2, <1>3

\* A step of one handler that leaves the bank's tables alone keeps the invariant
\* if what it answers is true and the stage it reaches is one it has earned.
LEMMA HandlerStepInv ==
  ASSUME IInv, NEW h \in Handlers, UNCHANGED <<accounts, balance, spent_serials, deposits, configured, opening>>,
         NEW s \in Stages, NEW r \in Requests \cup {NoRequest}, NEW f \in BOOLEAN,
         stage' = [stage EXCEPT ![h] = s], job' = [job EXCEPT ![h] = r],
         fresh' = [fresh EXCEPT ![h] = f],
         s # "idle" => r \in Requests,
         s = "submit" => configured,
         s # "idle" /\ deposits[r.id] = NoRequest => f,
         s \notin Unread => f,
         registry' \in [Coins -> {"free", "here", "elsewhere"}],
         abandoned' \subseteq Coins,
         \A c \in Coins : registry[c] = "here" => registry'[c] = "here",
         configured /\ s \notin {"idle", "submit"} => registry'[r.coin] = "here",
         s \in HoldsSerial => /\ spent_serials[r.coin] = NoId
                              /\ \A g \in Handlers \ {h} :
                                   stage[g] \in HoldsSerial => job[g].coin # r.coin,
         s \in HoldsAccount => /\ r.account \in accounts
                               /\ balance[r.account] + Value(r.coin) <= MaxBalance
                               /\ \A g \in Handlers \ {h} :
                                    stage[g] \in HoldsAccount => job[g].account # r.account,
         s = "commit" => /\ deposits[r.id] = NoRequest
                         /\ \A g \in Handlers \ {h} :
                              stage[g] = "commit" => job[g].id # r.id,
         replies \subseteq replies', replies' \subseteq Replies,
         RegistryAnswers', RepliesAreTrue'
  PROVE  IInv'
<1> USE DEF IInv
<1>1. TypeOK'
  BY DEF TypeOK
<1>2. HandlersInv'
  BY RequestType DEF HandlersInv, TypeOK
<1>3. LocksInv'
  BY DEF LocksInv, TypeOK
<1>4. SpentIffDeposited' /\ RecordsAnswered' /\ CreditedOnlyIfRegistered'
  BY DEF SpentIffDeposited, RecordsAnswered, CreditedOnlyIfRegistered
<1> QED BY <1>1, <1>2, <1>3, <1>4

\* A handler that ends without an answer, or with a true one.
LEMMA FinishInv ==
  ASSUME IInv, NEW h \in Handlers, Finish(h),
         UNCHANGED <<accounts, balance, spent_serials, deposits, registry, configured, opening>>,
         abandoned' \subseteq Coins,
         replies \subseteq replies', replies' \subseteq Replies,
         RegistryAnswers', RepliesAreTrue'
  PROVE  IInv'
BY HandlerStepInv DEF Finish, Stages, Unread, HoldsSerial, HoldsAccount, IInv, TypeOK

\* The answer a handler gives: new replies are the old ones and one more.
LEMMA ReplyInv ==
  ASSUME IInv, NEW h \in Handlers, stage[h] # "idle", NEW o \in Outcomes, Reply(h, o),
         UNCHANGED <<accounts, balance, spent_serials, deposits, registry, abandoned, configured, opening>>,
         o = "accepted" => /\ deposits[job[h].id] # NoRequest
                           /\ deposits[job[h].id].coin = job[h].coin,
         o = "DoubleSpend" => spent_serials[job[h].coin] # NoId /\ fresh[h],
         o = "RegistryDoubleSpend" => configured /\ registry[job[h].coin] # "free",
         o = "RequestIdReuse" => /\ deposits[job[h].id] # NoRequest
                                 /\ deposits[job[h].id].coin # job[h].coin
  PROVE  IInv'
<1>1. job[h] \in Requests
  BY DEF IInv, HandlersInv
<1>0. PICK new : new = [req |-> job[h], outcome |-> o, fresh |-> fresh[h]]
  OBVIOUS
<1>2. replies' = replies \cup {new} /\ Finish(h)
  BY <1>0 DEF Reply
<1>3. replies \subseteq replies' /\ replies' \subseteq Replies /\ new \in Replies
  BY <1>0, <1>1, <1>2 DEF IInv, TypeOK, Replies
<1>4. RegistryAnswers'
  BY <1>0, <1>2 DEF IInv, RegistryAnswers
<1>6. RepliesAreTrue'
  <2>1. ASSUME NEW x \in replies PROVE AnswerIsTrue(x)'
    BY <2>1, <1>2 DEF IInv, RepliesAreTrue, AnswerIsTrue
  <2>2. AnswerIsTrue(new)'
    <3>0. job[h].id \in RequestIds /\ job[h].coin \in Coins
      BY <1>1, RequestType
    <3>1. ASSUME o = "accepted"
          PROVE  \/ deposits[job[h].id] = job[h]
                 \/ /\ deposits[job[h].id].account # job[h].account
                    /\ \E y \in replies' : y.req = deposits[job[h].id] /\ y.outcome = "accepted"
      <4>1. PICK row \in Requests : row = deposits[job[h].id]
        BY <3>0, <3>1 DEF IInv, TypeOK
      <4>2. row.coin = job[h].coin /\ row.id = job[h].id
        BY <3>0, <3>1, <4>1 DEF IInv, RecordsAnswered
      <4>3. row.account = job[h].account => row = job[h]
        BY <1>1, <4>2, ConstantsAssumption DEF DepositRequests
      <4>4. \E y \in replies : y.req = row /\ y.outcome = "accepted"
        BY <3>0, <3>1, <4>1 DEF IInv, RecordsAnswered
      <4> QED BY <1>3, <4>1, <4>3, <4>4
    <3>2. ASSUME o = "RegistryDoubleSpend"
          PROVE  \/ registry[job[h].coin] = "here"
                 \/ registry[job[h].coin] = "elsewhere" /\ spent_serials[job[h].coin] = NoId
      BY <3>0, <3>2 DEF IInv, TypeOK, CreditedOnlyIfRegistered
    <3>3. new.req = job[h] /\ new.outcome = o /\ new.fresh = fresh[h]
      BY <1>0
    <3> QED BY <3>1, <3>2, <3>3 DEF AnswerIsTrue
  <2> QED BY <1>2, <2>1, <2>2 DEF RepliesAreTrue
<1>5. abandoned' \subseteq Coins
  BY DEF IInv, TypeOK
<1> QED BY <1>2, <1>3, <1>4, <1>5, <1>6, FinishInv

-----------------------------------------------------------------------------
LEMMA DepositInv ==
  ASSUME IInv, NEW h \in Handlers, NEW r \in Requests, Deposit(h, r)
  PROVE  IInv'
<1> DEFINE s == IF configured THEN "submit" ELSE "select"
           f == deposits[r.id] = NoRequest
<1>1. /\ stage' = [stage EXCEPT ![h] = s]
      /\ job' = [job EXCEPT ![h] = r]
      /\ fresh' = [fresh EXCEPT ![h] = f]
      /\ UNCHANGED <<accounts, balance, spent_serials, deposits, registry, abandoned, replies, configured, opening>>
      /\ s \in Stages /\ s \notin HoldsSerial /\ s \notin HoldsAccount /\ s # "commit"
      /\ s \in Unread
      /\ configured <=> s = "submit"
      /\ f \in BOOLEAN /\ (deposits[r.id] = NoRequest => f)
  BY DEF Deposit, db, net, Stages, Unread, HoldsSerial, HoldsAccount, IInv, TypeOK
<1>2. registry' \in [Coins -> {"free", "here", "elsewhere"}] /\ abandoned' \subseteq Coins
  BY <1>1 DEF IInv, TypeOK
<1>3. replies \subseteq replies' /\ replies' \subseteq Replies
  BY <1>1 DEF IInv, TypeOK
<1>4. RegistryAnswers' /\ RepliesAreTrue'
  BY <1>1 DEF IInv, RegistryAnswers, RepliesAreTrue, AnswerIsTrue
<1> HIDE DEF s, f
<1> QED BY <1>1, <1>2, <1>3, <1>4, HandlerStepInv

\* An answer stays true when the registry only takes serials that were free.
LEMMA RegistryMonotone ==
  ASSUME IInv, UNCHANGED <<deposits, spent_serials, replies>>,
         \A c \in Coins : registry[c] # "free" => registry'[c] = registry[c]
  PROVE  RepliesAreTrue'
<1> SUFFICES ASSUME NEW x \in replies' PROVE AnswerIsTrue(x)'
  BY DEF RepliesAreTrue
<1>1. x.req.coin \in Coins
  BY RequestType DEF IInv, TypeOK, Replies
<1> QED BY <1>1 DEF IInv, RepliesAreTrue, AnswerIsTrue, TypeOK

\* The next stage of a handler with the same job and no answer.
LEMMA GotoInv ==
  ASSUME IInv, NEW h \in Handlers, stage[h] # "idle", NEW s \in Stages, Goto(h, s),
         UNCHANGED <<accounts, balance, spent_serials, deposits, replies, configured, opening>>,
         registry' \in [Coins -> {"free", "here", "elsewhere"}],
         abandoned' \subseteq Coins,
         \A c \in Coins : registry[c] # "free" => registry'[c] = registry[c],
         configured /\ s # "submit" => registry'[job[h].coin] = "here",
         s # "submit", s \notin Unread => fresh[h],
         s \in HoldsSerial => /\ spent_serials[job[h].coin] = NoId
                              /\ \A g \in Handlers \ {h} :
                                   stage[g] \in HoldsSerial => job[g].coin # job[h].coin,
         s \in HoldsAccount => /\ job[h].account \in accounts
                               /\ balance[job[h].account] + Value(job[h].coin) <= MaxBalance
                               /\ \A g \in Handlers \ {h} :
                                    stage[g] \in HoldsAccount => job[g].account # job[h].account,
         s = "commit" => /\ deposits[job[h].id] = NoRequest
                         /\ \A g \in Handlers \ {h} :
                              stage[g] = "commit" => job[g].id # job[h].id
  PROVE  IInv'
<1>1. job[h] \in Requests
  BY DEF IInv, HandlersInv
<1>2. /\ stage' = [stage EXCEPT ![h] = s] /\ job' = [job EXCEPT ![h] = job[h]]
      /\ fresh' = [fresh EXCEPT ![h] = fresh[h]] /\ fresh[h] \in BOOLEAN
      /\ deposits[job[h].id] = NoRequest => fresh[h]
  BY DEF Goto, IInv, TypeOK, HandlersInv
<1>3. /\ replies \subseteq replies' /\ replies' \subseteq Replies
      /\ RegistryAnswers' /\ RepliesAreTrue'
  <2>1. replies \subseteq replies' /\ replies' \subseteq Replies /\ RegistryAnswers'
    BY DEF IInv, TypeOK, RegistryAnswers
  <2> QED BY <2>1, RegistryMonotone
<1> QED BY <1>1, <1>2, <1>3, HandlerStepInv

LEMMA SubmitSerialInv ==
  ASSUME IInv, NEW h \in Handlers, SubmitSerial(h)
  PROVE  IInv'
<1> DEFINE c == job[h].coin
<1>0. /\ stage[h] = "submit"
      /\ c \in Coins
      /\ UNCHANGED <<accounts, balance, spent_serials, deposits, abandoned, configured, opening>>
  BY RequestType DEF SubmitSerial, db, net, IInv, HandlersInv
<1>1. CASE /\ registry[c] = "free"
           /\ registry' = [registry EXCEPT ![c] = "here"]
           /\ Goto(h, "select")
           /\ UNCHANGED replies
  <2>1. /\ registry' \in [Coins -> {"free", "here", "elsewhere"}]
        /\ \A d \in Coins : registry[d] # "free" => registry'[d] = registry[d]
        /\ registry'[c] = "here"
        /\ abandoned' \subseteq Coins
    BY <1>0, <1>1 DEF IInv, TypeOK
  <2> QED BY <1>0, <1>1, <2>1, GotoInv DEF Stages, Unread, HoldsSerial, HoldsAccount
<1>2. CASE registry[c] # "free" /\ Reply(h, "RegistryDoubleSpend") /\ UNCHANGED registry
  <2>1. configured
    BY <1>0 DEF IInv, HandlersInv
  <2> QED BY <1>0, <1>2, <2>1, ReplyInv DEF Outcomes
<1>3. CASE Finish(h) /\ UNCHANGED <<registry, replies>>
  <2>1. /\ abandoned' \subseteq Coins
        /\ replies \subseteq replies' /\ replies' \subseteq Replies
        /\ RegistryAnswers' /\ RepliesAreTrue'
    BY <1>0, <1>3 DEF IInv, TypeOK, RegistryAnswers, RepliesAreTrue, AnswerIsTrue
  <2> QED BY <1>0, <1>3, <2>1, FinishInv
<1> QED BY <1>1, <1>2, <1>3 DEF SubmitSerial

LEMMA SubmitElsewhereInv ==
  ASSUME IInv, NEW c \in Coins, SubmitElsewhere(c)
  PROVE  IInv'
<1> USE DEF IInv, SubmitElsewhere, db
<1>1. TypeOK'
  BY DEF TypeOK
<1>2. HandlersInv'
  BY RequestType DEF HandlersInv, TypeOK
<1>3. LocksInv' /\ SpentIffDeposited' /\ RecordsAnswered' /\ RegistryAnswers'
  BY DEF LocksInv, SpentIffDeposited, RecordsAnswered, RegistryAnswers
<1>4. CreditedOnlyIfRegistered'
  BY DEF CreditedOnlyIfRegistered, TypeOK
<1>5. RepliesAreTrue'
  BY RegistryMonotone DEF TypeOK
<1> QED BY <1>1, <1>2, <1>3, <1>4, <1>5

LEMMA SubmitAbandonedInv ==
  ASSUME IInv, NEW c \in Coins, SubmitAbandoned(c)
  PROVE  IInv'
<1> USE DEF IInv, SubmitAbandoned, db
<1>1. TypeOK'
  BY DEF TypeOK
<1>2. HandlersInv'
  BY RequestType DEF HandlersInv, TypeOK
<1>3. LocksInv' /\ SpentIffDeposited' /\ RecordsAnswered' /\ RegistryAnswers'
  BY DEF LocksInv, SpentIffDeposited, RecordsAnswered, RegistryAnswers
<1>4. CreditedOnlyIfRegistered'
  BY DEF CreditedOnlyIfRegistered, TypeOK
<1>5. RepliesAreTrue'
  BY RegistryMonotone DEF TypeOK
<1> QED BY <1>1, <1>2, <1>3, <1>4, <1>5

\* What GotoInv asks of the registry when a handler past "submit" goes on.
LEMMA RegistryKept ==
  ASSUME IInv, NEW h \in Handlers, stage[h] \notin {"idle", "submit"}, UNCHANGED <<registry, abandoned>>
  PROVE  /\ abandoned' \subseteq Coins
         /\ registry' \in [Coins -> {"free", "here", "elsewhere"}]
         /\ \A c \in Coins : registry[c] # "free" => registry'[c] = registry[c]
         /\ configured => registry'[job[h].coin] = "here"
BY DEF IInv, TypeOK, HandlersInv

LEMMA SelectDepositInv ==
  ASSUME IInv, NEW h \in Handlers, SelectDeposit(h)
  PROVE  IInv'
<1> DEFINE row == deposits[job[h].id]
<1>0. /\ stage[h] = "select"
      /\ UNCHANGED <<accounts, balance, spent_serials, deposits, registry, abandoned, configured, opening>>
  BY DEF SelectDeposit, db, net
<1>1. CASE row # NoRequest /\ row.coin = job[h].coin
  <2>1. Reply(h, "accepted")
    BY <1>1 DEF SelectDeposit
  <2> QED BY <1>0, <1>1, <2>1, ReplyInv DEF Outcomes
<1>2. CASE row # NoRequest /\ row.coin # job[h].coin
  <2>1. Reply(h, "RequestIdReuse")
    BY <1>2 DEF SelectDeposit
  <2> QED BY <1>0, <1>2, <2>1, ReplyInv DEF Outcomes
<1>3. CASE row = NoRequest
  <2>1. Goto(h, "serial") /\ UNCHANGED replies
    BY <1>3 DEF SelectDeposit
  <2>2. fresh[h]
    BY <1>0, <1>3 DEF IInv, HandlersInv
  <2> QED BY <1>0, <2>1, GotoInv, RegistryKept, <2>2 DEF Stages, HoldsSerial, HoldsAccount
<1> QED BY <1>1, <1>2, <1>3

LEMMA InsertSerialInv ==
  ASSUME IInv, NEW h \in Handlers, InsertSerial(h)
  PROVE  IInv'
<1> DEFINE c == job[h].coin
<1>0. /\ stage[h] = "serial"
      /\ UNCHANGED <<accounts, balance, spent_serials, deposits, registry, abandoned, configured, opening>>
      /\ \A g \in Handlers \ {h} : stage[g] \in HoldsSerial => job[g].coin # c
      /\ fresh[h]
  BY DEF InsertSerial, db, net, SerialLocked, HoldsSerial, IInv, HandlersInv, Unread
<1>1. CASE spent_serials[c] # NoId
  <2>1. Reply(h, "DoubleSpend")
    BY <1>1 DEF InsertSerial
  <2> QED BY <1>0, <1>1, <2>1, ReplyInv DEF Outcomes
<1>2. CASE spent_serials[c] = NoId
  <2>1. Goto(h, "credit") /\ UNCHANGED replies
    BY <1>2 DEF InsertSerial
  <2> QED BY <1>0, <1>2, <2>1, GotoInv, RegistryKept DEF Stages, HoldsAccount
<1> QED BY <1>1, <1>2

\* A rollback without an answer.
LEMMA SilentFinishInv ==
  ASSUME IInv, NEW h \in Handlers, Finish(h),
         UNCHANGED <<accounts, balance, spent_serials, deposits, registry, configured, opening, replies>>,
         abandoned' \subseteq Coins
  PROVE  IInv'
<1>1. /\ replies \subseteq replies' /\ replies' \subseteq Replies
      /\ RegistryAnswers' /\ RepliesAreTrue'
  BY DEF IInv, TypeOK, RegistryAnswers, RepliesAreTrue, AnswerIsTrue
<1> QED BY <1>1, FinishInv

LEMMA CreditAccountInv ==
  ASSUME IInv, NEW h \in Handlers, CreditAccount(h)
  PROVE  IInv'
<1> DEFINE r == job[h]
<1>0. /\ stage[h] = "credit"
      /\ UNCHANGED <<accounts, balance, spent_serials, deposits, registry, abandoned, configured, opening>>
      /\ r \in Requests /\ Value(r.coin) \in Nat
      /\ balance[r.account] \in Nat /\ MaxBalance \in Nat
  BY RequestType, ConstantsAssumption DEF CreditAccount, db, net, IInv, HandlersInv, TypeOK
<1>1. CASE r.account \notin accounts
  <2>1. Reply(h, "UnknownAccount")
    BY <1>1 DEF CreditAccount
  <2> QED BY <1>0, <2>1, ReplyInv DEF Outcomes
<1>2. CASE r.account \in accounts /\ balance[r.account] + Value(r.coin) > MaxBalance
  <2>1. Finish(h) /\ UNCHANGED replies
    BY <1>2 DEF CreditAccount
  <2> QED BY <1>0, <2>1, SilentFinishInv DEF IInv, TypeOK
<1>3. CASE r.account \in accounts /\ ~(balance[r.account] + Value(r.coin) > MaxBalance)
  <2>1. /\ Goto(h, "record") /\ UNCHANGED replies
        /\ \A g \in Handlers \ {h} : stage[g] \in HoldsAccount => job[g].account # r.account
    BY <1>3 DEF CreditAccount, AccountLocked, HoldsAccount
  <2>2. /\ spent_serials[r.coin] = NoId
        /\ \A g \in Handlers \ {h} : stage[g] \in HoldsSerial => job[g].coin # r.coin
        /\ fresh[h]
    BY <1>0 DEF IInv, HandlersInv, LocksInv, HoldsSerial, Unread
  <2>3. balance[r.account] + Value(r.coin) <= MaxBalance
    BY <1>0, <1>3
  <2> QED BY <1>0, <1>3, <2>1, <2>2, <2>3, GotoInv, RegistryKept DEF Stages
<1> QED BY <1>1, <1>2, <1>3

LEMMA InsertDepositInv ==
  ASSUME IInv, NEW h \in Handlers, InsertDeposit(h)
  PROVE  IInv'
<1> DEFINE r == job[h]
<1>0. /\ stage[h] = "record"
      /\ UNCHANGED <<accounts, balance, spent_serials, deposits, registry, abandoned, configured, opening, replies>>
  BY DEF InsertDeposit, db, net
<1>1. CASE deposits[r.id] # NoRequest
  <2>1. Finish(h)
    BY <1>1 DEF InsertDeposit
  <2> QED BY <1>0, <2>1, SilentFinishInv DEF IInv, TypeOK
<1>2. CASE deposits[r.id] = NoRequest
  <2>1. /\ Goto(h, "commit")
        /\ \A g \in Handlers \ {h} : stage[g] = "commit" => job[g].id # r.id
    BY <1>2 DEF InsertDeposit, RequestLocked
  <2>2. /\ spent_serials[r.coin] = NoId
        /\ \A g \in Handlers \ {h} : stage[g] \in HoldsSerial => job[g].coin # r.coin
        /\ r.account \in accounts
        /\ balance[r.account] + Value(r.coin) <= MaxBalance
        /\ \A g \in Handlers \ {h} : stage[g] \in HoldsAccount => job[g].account # r.account
        /\ fresh[h]
    BY <1>0 DEF IInv, HandlersInv, LocksInv, HoldsSerial, HoldsAccount, Unread
  <2> QED BY <1>0, <1>2, <2>1, <2>2, GotoInv, RegistryKept DEF Stages
<1> QED BY <1>1, <1>2

\* The commit writes three rows no other open transaction holds.
LEMMA CommitInv ==
  ASSUME IInv, NEW h \in Handlers, Commit(h)
  PROVE  IInv'
<1> DEFINE r == job[h]
<1> USE DEF IInv
<1>a. PICK new : new = [req |-> r, outcome |-> "accepted", fresh |-> fresh[h]]
  OBVIOUS
<1>0. /\ stage[h] = "commit"
      /\ r \in Requests
      /\ r.id \in RequestIds /\ r.account \in AccountIds /\ r.coin \in Coins
      /\ Value(r.coin) \in Nat /\ r # NoRequest /\ r.id # NoId
      /\ spent_serials[r.coin] = NoId
      /\ deposits[r.id] = NoRequest
      /\ balance[r.account] + Value(r.coin) <= MaxBalance
      /\ configured => registry[r.coin] = "here"
  BY RequestType DEF Commit, HandlersInv, HoldsSerial, HoldsAccount
<1>1. /\ spent_serials' = [spent_serials EXCEPT ![r.coin] = r.id]
      /\ balance' = [balance EXCEPT ![r.account] = balance[r.account] + Value(r.coin)]
      /\ deposits' = [deposits EXCEPT ![r.id] = r]
      /\ replies' = replies \cup {new}
      /\ fresh' = [fresh EXCEPT ![h] = FALSE]
      /\ stage' = [stage EXCEPT ![h] = "idle"]
      /\ job' = [job EXCEPT ![h] = NoRequest]
      /\ UNCHANGED <<accounts, registry, abandoned, configured, opening>>
  BY <1>a DEF Commit, Reply, Finish, net
<1>2. balance[r.account] + Value(r.coin) \in 0..MaxBalance
  BY <1>0, ConstantsAssumption DEF TypeOK
<1>3. TypeOK'
  BY <1>a, <1>0, <1>1, <1>2 DEF TypeOK, Stages, Outcomes, Replies
<1>4. HandlersInv'
  <2> SUFFICES ASSUME NEW g \in Handlers PROVE HandlersInv!(g)'
    BY DEF HandlersInv
  <2>1. CASE g = h
    BY <1>0, <1>1, <2>1 DEF TypeOK, Unread, HoldsSerial, HoldsAccount
  <2>2. CASE g # h
    <3>1. stage'[g] = stage[g] /\ job'[g] = job[g] /\ fresh'[g] = fresh[g]
      BY <1>1, <2>2 DEF TypeOK
    <3>2. stage[g] # "idle" => job[g].id \in RequestIds /\ job[g].coin \in Coins
                              /\ job[g].account \in AccountIds
      BY RequestType DEF HandlersInv
    <3>3. stage[g] \in HoldsSerial => spent_serials'[job[g].coin] = NoId
      BY <1>0, <1>1, <2>2, <3>2 DEF HandlersInv, LocksInv, HoldsSerial, TypeOK
    <3>4. stage[g] \in HoldsAccount => balance'[job[g].account] = balance[job[g].account]
      BY <1>0, <1>1, <2>2, <3>2 DEF HandlersInv, LocksInv, HoldsAccount, TypeOK
    <3>5. stage[g] = "commit" => deposits'[job[g].id] = NoRequest
      BY <1>0, <1>1, <2>2, <3>2 DEF HandlersInv, LocksInv, TypeOK
    <3>6. stage[g] # "idle" /\ deposits'[job[g].id] = NoRequest => fresh[g]
      BY <1>0, <1>1, <3>2 DEF HandlersInv, TypeOK
    <3>7. /\ stage[g] = "submit" => configured'
          /\ stage[g] \notin Unread => fresh'[g]
      BY <1>1, <3>1 DEF HandlersInv
    <3>8. /\ stage[g] # "idle" => job[g] \in Requests
          /\ configured' /\ stage[g] \notin {"idle", "submit"} => registry'[job[g].coin] = "here"
      BY <1>1 DEF HandlersInv
    <3>9. stage[g] \in HoldsAccount =>
            /\ job[g].account \in accounts'
            /\ balance'[job[g].account] + Value(job[g].coin) <= MaxBalance
      BY <1>1, <3>4 DEF HandlersInv
    <3> QED BY <3>1, <3>3, <3>5, <3>6, <3>7, <3>8, <3>9
  <2> QED BY <2>1, <2>2
<1>5. LocksInv'
  BY <1>1 DEF LocksInv, TypeOK, HoldsSerial, HoldsAccount
<1>6. SpentIffDeposited'
  <2>1. ASSUME NEW c \in Coins, spent_serials'[c] # NoId
        PROVE  /\ deposits'[spent_serials'[c]] # NoRequest
               /\ deposits'[spent_serials'[c]].coin = c
    <3>1. CASE c = r.coin
      BY <1>0, <1>1, <3>1 DEF TypeOK
    <3>2. CASE c # r.coin
      <4>1. spent_serials'[c] = spent_serials[c]
        BY <1>1, <3>2 DEF TypeOK
      <4>2. /\ deposits[spent_serials[c]] # NoRequest
            /\ deposits[spent_serials[c]].coin = c
            /\ spent_serials[c] \in RequestIds
        BY <2>1, <4>1 DEF SpentIffDeposited, TypeOK
      <4>3. deposits'[spent_serials[c]] = deposits[spent_serials[c]]
        BY <1>0, <1>1, <4>2 DEF TypeOK
      <4> QED BY <4>1, <4>2, <4>3
    <3> QED BY <3>1, <3>2
  <2>2. ASSUME NEW i \in RequestIds, deposits'[i] # NoRequest
        PROVE  spent_serials'[deposits'[i].coin] = i
    <3>1. CASE i = r.id
      BY <1>0, <1>1, <3>1 DEF TypeOK
    <3>2. CASE i # r.id
      <4>1. deposits'[i] = deposits[i]
        BY <1>1, <3>2 DEF TypeOK
      <4>2. spent_serials[deposits[i].coin] = i /\ i # NoId
        BY <2>2, <4>1, ConstantsAssumption DEF SpentIffDeposited
      <4>3. spent_serials'[deposits[i].coin] = spent_serials[deposits[i].coin]
        BY <1>0, <1>1, <4>2 DEF TypeOK
      <4> QED BY <4>1, <4>2, <4>3
    <3> QED BY <3>1, <3>2
  <2> QED BY <2>1, <2>2 DEF SpentIffDeposited
<1>7. RecordsAnswered'
  <2> SUFFICES ASSUME NEW i \in RequestIds, deposits'[i] # NoRequest
               PROVE  RecordsAnswered!(i)!2'
    BY DEF RecordsAnswered
  <2>1. CASE i = r.id
    <3>1. deposits'[i] = r /\ new \in replies' /\ new.req = r /\ new.outcome = "accepted"
      BY <1>a, <1>0, <1>1, <2>1 DEF TypeOK
    <3> QED BY <2>1, <3>1
  <2>2. CASE i # r.id
    BY <1>1, <2>2 DEF RecordsAnswered, TypeOK
  <2> QED BY <2>1, <2>2
<1>9. RegistryAnswers'
  BY <1>a, <1>1 DEF RegistryAnswers
<1>10. RepliesAreTrue'
  <2>1. ASSUME NEW x \in replies PROVE AnswerIsTrue(x)'
    <3>1. x.req.id \in RequestIds /\ x.req.coin \in Coins
      BY <2>1, RequestType DEF TypeOK, Replies
    <3>2. AnswerIsTrue(x)
      BY <2>1 DEF RepliesAreTrue
    <3>3. /\ deposits[x.req.id] # NoRequest => deposits'[x.req.id] = deposits[x.req.id]
          /\ spent_serials[x.req.coin] # NoId =>
               spent_serials'[x.req.coin] = spent_serials[x.req.coin]
          /\ x.req # NoRequest
      BY <1>0, <1>1, <2>1, <3>1, RequestType DEF TypeOK, Replies
    <3>4. x.outcome = "RegistryDoubleSpend" /\ registry[x.req.coin] = "elsewhere" =>
            spent_serials'[x.req.coin] = spent_serials[x.req.coin]
      BY <1>0, <1>1, <2>1, <3>1 DEF RegistryAnswers, TypeOK
    <3> QED BY <1>1, <3>2, <3>3, <3>4 DEF AnswerIsTrue
  <2>2. AnswerIsTrue(new)'
    <3>1. deposits'[new.req.id] = new.req /\ new.outcome = "accepted"
      BY <1>a, <1>0, <1>1 DEF TypeOK
    <3> QED BY <3>1 DEF AnswerIsTrue
  <2> QED BY <1>1, <2>1, <2>2 DEF RepliesAreTrue
<1>8. CreditedOnlyIfRegistered'
  BY <1>0, <1>1 DEF CreditedOnlyIfRegistered, TypeOK
<1> QED BY <1>3, <1>4, <1>5, <1>6, <1>7, <1>8, <1>9, <1>10

LEMMA NextInv == IInv /\ [Next]_vars => IInv'
<1> SUFFICES ASSUME IInv, [Next]_vars PROVE IInv'
  OBVIOUS
<1>1. ASSUME NEW h \in Handlers, SubmitSerial(h) \/ Transact(h) PROVE IInv'
  BY <1>1, SubmitSerialInv, SelectDepositInv, InsertSerialInv, CreditAccountInv,
     InsertDepositInv, CommitInv DEF Transact
<1>2. ASSUME NEW h \in Handlers, Abort(h) PROVE IInv'
  <2>1. abandoned' \subseteq Coins
    BY <1>2, RequestType DEF Abort, IInv, TypeOK, HandlersInv
  <2> QED BY <1>2, <2>1, SilentFinishInv DEF Abort, db
<1>3. CASE UNCHANGED vars
  BY <1>3 DEF vars, IInv, TypeOK, HandlersInv, LocksInv, SpentIffDeposited, RecordsAnswered,
              RegistryAnswers, RepliesAreTrue, AnswerIsTrue, CreditedOnlyIfRegistered
<1> QED BY <1>1, <1>2, <1>3, CreateAccountInv, SubmitElsewhereInv, SubmitAbandonedInv,
        DepositInv DEF Next

\* The inductive invariant holds in every reachable state of the deposits.
THEOREM Invariance == Spec => []IInv
<1>1. Init => IInv
  BY InitInv
<1>2. IInv /\ [Next]_vars => IInv'
  BY NextInv
<1> QED BY <1>1, <1>2, PTL DEF Spec

\* Type correctness: in particular no credit takes a balance past the column.
THEOREM TypeCorrect == Spec => []TypeOK
<1>1. IInv => TypeOK
  BY DEF IInv
<1> QED BY <1>1, Invariance, PTL

\* spent_serials and deposits agree, for any interleaving of transactions.
THEOREM TablesAgree == Spec => []SpentIffDeposited
<1>1. IInv => SpentIffDeposited
  BY DEF IInv
<1> QED BY <1>1, Invariance, PTL

\* Every answer a deposit ever got means what messages.rs says it does, and stays
\* true, but for a retry that overtakes its first attempt and a replay for another
\* account.
THEOREM TruthfulReplies == Spec => []RepliesAreTrue
<1>1. IInv => RepliesAreTrue
  BY DEF IInv
<1> QED BY <1>1, Invariance, PTL

\* A bank with a registry credits only coins it registered itself.
THEOREM NoCrossBankDoubleSpend == Spec => []CreditedOnlyIfRegistered
<1>1. IInv => CreditedOnlyIfRegistered
  BY DEF IInv
<1> QED BY <1>1, Invariance, PTL

-----------------------------------------------------------------------------
\* Refinement: the commit is Redeem, a replayed acceptance is Confirm.

\* A reply adds to the accepted pairs exactly when it is an acceptance.
LEMMA AcceptedStep ==
  ASSUME NEW r, NEW o, NEW f,
         replies' = replies \cup {[req |-> r, outcome |-> o, fresh |-> f]}
  PROVE  accepted' = accepted \cup (IF o = "accepted" THEN {[id |-> r.id, coin |-> r.coin]}
                                    ELSE {})
<1> DEFINE new == [req |-> r, outcome |-> o, fresh |-> f]
           pair(x) == [id |-> x.req.id, coin |-> x.req.coin]
<1>1. \A z : z \in accepted <=> \E x \in replies : x.outcome = "accepted" /\ z = pair(x)
  BY DEF accepted
<1>2. \A z : z \in accepted' <=> \E x \in replies' : x.outcome = "accepted" /\ z = pair(x)
  BY DEF accepted
<1>3. new.outcome = o /\ pair(new) = [id |-> r.id, coin |-> r.coin]
  OBVIOUS
<1>4. CASE o = "accepted"
  <2>1. \A z : z \in accepted' <=> z \in accepted \/ z = pair(new)
    <3> HIDE DEF pair
    <3> QED BY <1>1, <1>2, <1>3, <1>4
  <2> QED BY <2>1, <1>3, <1>4
<1>5. CASE o # "accepted"
  <2>1. \A z : z \in accepted' <=> z \in accepted
    <3> HIDE DEF pair
    <3> QED BY <1>1, <1>2, <1>3, <1>5
  <2> QED BY <2>1, <1>5
<1> QED BY <1>4, <1>5

LEMMA CommitRefines ==
  ASSUME IInv, NEW h \in Handlers, Commit(h)
  PROVE  [Contract!Next]_Contract!vars
<1> DEFINE r == job[h]
<1>0. /\ r \in Requests
      /\ r.account \in accounts
      /\ deposits[r.id] = NoRequest
      /\ spent_serials[r.coin] = NoId
  BY DEF IInv, Commit, HandlersInv, HoldsSerial, HoldsAccount
<1>1. \A i \in RequestIds : deposits[i] # NoRequest => deposits[i].coin # r.coin
  BY <1>0, ConstantsAssumption DEF IInv, SpentIffDeposited
<1>2. accepted' = accepted \cup {[id |-> r.id, coin |-> r.coin]}
  BY AcceptedStep DEF Commit, Reply
<1>3. Contract!Redeem(r)
  BY <1>0, <1>1, <1>2 DEF Contract!Redeem, Commit
<1> QED BY <1>0, <1>3 DEF Contract!Next

LEMMA SelectRefines ==
  ASSUME IInv, NEW h \in Handlers, SelectDeposit(h)
  PROVE  [Contract!Next]_Contract!vars
<1> DEFINE r == job[h]
<1>0. /\ r.id \in RequestIds
      /\ UNCHANGED <<accounts, balance, deposits>>
  BY RequestType DEF IInv, SelectDeposit, HandlersInv, db, net
<1>1. CASE UNCHANGED replies
  BY <1>0, <1>1 DEF Contract!vars, accepted
<1>2. CASE deposits[r.id] # NoRequest /\ deposits[r.id].coin = r.coin
  <2>1. accepted' = accepted \cup {[id |-> r.id, coin |-> deposits[r.id].coin]}
    BY <1>2, AcceptedStep DEF SelectDeposit, Reply
  <2>2. Contract!Confirm(r.id)
    BY <1>0, <1>2, <2>1 DEF Contract!Confirm
  <2> QED BY <1>0, <2>2 DEF Contract!Next
<1>3. CASE deposits[r.id] # NoRequest /\ deposits[r.id].coin # r.coin
  <2>1. Reply(h, "RequestIdReuse")
    BY <1>3 DEF SelectDeposit
  <2>2. replies' = replies \cup {[req |-> r, outcome |-> "RequestIdReuse", fresh |-> fresh[h]]}
    BY <2>1 DEF Reply
  <2>3. accepted' = accepted
    <3> HIDE DEF r
    <3> QED BY <2>2, AcceptedStep
  <2> QED BY <1>0, <2>3 DEF Contract!vars
<1> QED BY <1>1, <1>2, <1>3 DEF SelectDeposit

\* A step that commits nothing and accepts nothing stutters.
LEMMA OtherRefines ==
  ASSUME NEW h \in Handlers, UNCHANGED <<accounts, balance, deposits>>,
         \/ UNCHANGED replies
         \/ \E o \in Outcomes \ {"accepted"} : Reply(h, o)
  PROVE  UNCHANGED Contract!vars
<1>1. CASE UNCHANGED replies
  BY <1>1 DEF Contract!vars, accepted
<1>2. CASE \E o \in Outcomes \ {"accepted"} : Reply(h, o)
  <2>1. PICK o \in Outcomes \ {"accepted"} : Reply(h, o)
    BY <1>2
  <2>2. accepted' = accepted
    BY <2>1, AcceptedStep DEF Reply
  <2> QED BY <2>2 DEF Contract!vars
<1> QED BY <1>1, <1>2

LEMMA StepRefines == IInv /\ [Next]_vars => [Contract!Next]_Contract!vars
<1> SUFFICES ASSUME IInv, [Next]_vars PROVE [Contract!Next]_Contract!vars
  OBVIOUS
<1> DEFINE Goal == [Contract!Next]_Contract!vars
<1>1. ASSUME NEW h \in Handlers, SubmitSerial(h) PROVE Goal
  BY <1>1, OtherRefines DEF SubmitSerial, db, net, Outcomes
<1>2. ASSUME NEW h \in Handlers, InsertSerial(h) PROVE Goal
  BY <1>2, OtherRefines DEF InsertSerial, db, net, Outcomes
<1>3. ASSUME NEW h \in Handlers, CreditAccount(h) PROVE Goal
  BY <1>3, OtherRefines DEF CreditAccount, db, net, Outcomes
<1>4. ASSUME NEW h \in Handlers, InsertDeposit(h) \/ Abort(h) PROVE Goal
  BY <1>4, OtherRefines DEF InsertDeposit, Abort, db, net
<1>5. ASSUME NEW h \in Handlers, Transact(h) PROVE Goal
  BY <1>2, <1>3, <1>4, <1>5, CommitRefines, SelectRefines DEF Transact
<1>6. ASSUME NEW h \in Handlers, NEW r \in Requests, Deposit(h, r) PROVE Goal
  BY <1>6, OtherRefines DEF Deposit, db, net
<1>7. CASE (\E c \in Coins : SubmitElsewhere(c) \/ SubmitAbandoned(c)) \/ UNCHANGED vars
  BY <1>7 DEF SubmitElsewhere, SubmitAbandoned, db, vars, Contract!vars, accepted
<1>8. ASSUME NEW a \in AccountIds, NEW b \in InitialBalances, CreateAccount(a, b) PROVE Goal
  <2>1. Contract!Open(a, b)
    BY <1>8 DEF CreateAccount, Contract!Open, accepted
  <2> QED BY <2>1, ConstantsAssumption DEF Contract!Next
<1> QED BY <1>1, <1>4, <1>5, <1>6, <1>7, <1>8 DEF Next

\* The interleaved transactions implement the atomic deposit contract, for any
\* number of handlers: a coin is credited at most once.
THEOREM KeepsContract == Spec => RefinesContract
<1>1. Init => Contract!Init
  BY DEF Init, Contract!Init, accepted
<1>2. IInv /\ [Next]_vars => [Contract!Next]_Contract!vars
  BY StepRefines
<1> QED BY <1>1, <1>2, Invariance, PTL DEF Spec, RefinesContract, Contract!Spec

-----------------------------------------------------------------------------
(* Money *)

\* A deposit is recorded for an account that exists.
KnownAccounts ==
  \A i \in RequestIds : deposits[i] # NoRequest => deposits[i].account \in accounts

MoneyInv == KnownAccounts /\ MoneyConserved

\* What a request_id has credited is a number of cents.
LEMMA CreditedType ==
  ASSUME TypeOK, NEW a
  PROVE  /\ \A i \in RequestIds : Credited(a)[i] \in Int
         /\ SumFunctionOnSet(Credited(a), RequestIds) \in Int
<1>1. \A i \in RequestIds : Credited(a)[i] \in Int
  BY RequestType DEF Credited, TypeOK
<1> QED BY <1>1, SumType, FinitenessAssumption

LEMMA MoneyInitInv == Init => MoneyInv
<1> SUFFICES ASSUME Init PROVE MoneyInv
  OBVIOUS
<1>1. ASSUME NEW a \in AccountIds
      PROVE  SumFunctionOnSet(Credited(a), RequestIds) = 0
  <2>1. \A i \in RequestIds : Credited(a)[i] = 0
    BY DEF Init, Credited
  <2> QED BY <2>1, SumZero, FinitenessAssumption
<1> QED BY <1>1 DEF Init, MoneyInv, KnownAccounts, MoneyConserved

\* A new account opens with its balance, and no deposit names it yet.
LEMMA CreateAccountMoney ==
  ASSUME IInv, MoneyInv, NEW a \in AccountIds, NEW b \in InitialBalances, CreateAccount(a, b)
  PROVE  MoneyInv'
<1>1. /\ a \notin accounts /\ accounts' = accounts \cup {a} /\ UNCHANGED deposits
      /\ balance' = [balance EXCEPT ![a] = b] /\ opening' = [opening EXCEPT ![a] = b]
  BY DEF CreateAccount
<1>2. KnownAccounts'
  BY <1>1 DEF MoneyInv, KnownAccounts
<1>3. \A c : Credited(c)' = Credited(c)
  BY <1>1 DEF Credited
<1>4. SumFunctionOnSet(Credited(a), RequestIds) = 0
  <2>1. \A i \in RequestIds : Credited(a)[i] = 0
    BY <1>1 DEF Credited, MoneyInv, KnownAccounts
  <2> QED BY <2>1, SumZero, FinitenessAssumption
<1>5. b \in Nat
  BY ConstantsAssumption
<1>6. MoneyConserved'
  <2> SUFFICES ASSUME NEW c \in AccountIds
               PROVE  balance'[c] = opening'[c] + SumFunctionOnSet(Credited(c), RequestIds)
    BY <1>3 DEF MoneyConserved
  <2>1. CASE c = a
    BY <1>1, <1>4, <1>5, <2>1 DEF IInv, TypeOK
  <2>2. CASE c # a
    BY <1>1, <2>2 DEF MoneyInv, MoneyConserved, IInv, TypeOK
  <2> QED BY <2>1, <2>2
<1> QED BY <1>2, <1>6 DEF MoneyInv

\* A commit credits the account and records the deposit under a request_id that
\* had none.
LEMMA CommitMoney ==
  ASSUME IInv, MoneyInv, NEW h \in Handlers, Commit(h)
  PROVE  MoneyInv'
<1>0. PICK r \in Requests : r = job[h]
  BY DEF Commit, IInv, HandlersInv
<1>1. /\ r.id \in RequestIds /\ r.account \in AccountIds /\ Value(r.coin) \in Nat
      /\ r # NoRequest
  BY RequestType
<1>2. /\ UNCHANGED <<accounts, opening>>
      /\ balance' = [balance EXCEPT ![r.account] = balance[r.account] + Value(r.coin)]
      /\ deposits' = [deposits EXCEPT ![r.id] = r]
  BY <1>0 DEF Commit
<1>3. r.account \in accounts /\ deposits[r.id] = NoRequest
  BY <1>0 DEF Commit, IInv, HandlersInv, HoldsAccount
<1>4. \A i \in RequestIds : deposits'[i] = IF i = r.id THEN r ELSE deposits[i]
  BY <1>1, <1>2 DEF IInv, TypeOK
<1>5. KnownAccounts'
  BY <1>2, <1>3, <1>4 DEF MoneyInv, KnownAccounts
<1>6. TypeOK'
  BY CommitInv DEF IInv
<1>7. ASSUME NEW a \in AccountIds
      PROVE  balance'[a] = opening'[a] + SumFunctionOnSet(Credited(a)', RequestIds)
  <2>0. PICK f : f = Credited(a)
    OBVIOUS
  <2>1. PICK g : g = Credited(a)'
    OBVIOUS
  <2>2. /\ \A i \in RequestIds : f[i] \in Int /\ g[i] \in Int
        /\ SumFunctionOnSet(f, RequestIds) \in Int
    <3>1. /\ \A i \in RequestIds : f[i] \in Int
          /\ SumFunctionOnSet(f, RequestIds) \in Int
      BY <2>0, CreditedType DEF IInv
    <3>2. \A i \in RequestIds : g[i] \in Int
      BY <1>6, <2>1, RequestType DEF Credited, TypeOK
    <3> QED BY <3>1, <3>2
  <2>3. /\ f[r.id] = 0
        /\ g[r.id] = IF r.account = a THEN Value(r.coin) ELSE 0
        /\ \A i \in RequestIds : i # r.id => f[i] = g[i]
    BY <1>1, <1>3, <1>4, <2>0, <2>1 DEF Credited
  <2>4. SumFunctionOnSet(g, RequestIds) = SumFunctionOnSet(f, RequestIds) + (g[r.id] - f[r.id])
    BY <1>1, <2>2, <2>3, SumUpdate, FinitenessAssumption
  <2>5. balance[a] = opening[a] + SumFunctionOnSet(f, RequestIds)
    BY <2>0 DEF MoneyInv, MoneyConserved
  <2>6. balance[a] \in Nat /\ opening[a] \in Nat
        /\ balance'[a] = balance[a] + (IF r.account = a THEN Value(r.coin) ELSE 0)
    BY <1>1, <1>2 DEF IInv, TypeOK
  <2> QED BY <1>1, <1>2, <2>1, <2>2, <2>3, <2>4, <2>5, <2>6
<1>8. MoneyConserved'
  BY <1>7 DEF MoneyConserved
<1> QED BY <1>5, <1>8 DEF MoneyInv

\* Only create_account and a commit move money.
LEMMA MoneyNextInv == IInv /\ MoneyInv /\ [Next]_vars => MoneyInv'
<1> SUFFICES ASSUME IInv, MoneyInv, [Next]_vars PROVE MoneyInv'
  OBVIOUS
<1>1. ASSUME UNCHANGED <<accounts, balance, opening, deposits>>
      PROVE  MoneyInv'
  BY <1>1 DEF MoneyInv, KnownAccounts, MoneyConserved, Credited
<1>2. ASSUME NEW c \in Coins, SubmitElsewhere(c) \/ SubmitAbandoned(c)
      PROVE  MoneyInv'
  BY <1>1, <1>2 DEF SubmitElsewhere, SubmitAbandoned, db
<1>3. ASSUME NEW h \in Handlers, NEW r \in Requests, Deposit(h, r)
      PROVE  MoneyInv'
  BY <1>1, <1>3 DEF Deposit, db
<1>4. ASSUME NEW h \in Handlers, SubmitSerial(h) \/ Transact(h), ~Commit(h)
      PROVE  MoneyInv'
  BY <1>1, <1>4 DEF Transact, SubmitSerial, SelectDeposit, InsertSerial, CreditAccount,
    InsertDeposit, db
<1>5. ASSUME NEW h \in Handlers, Abort(h)
      PROVE  MoneyInv'
  BY <1>1, <1>5 DEF Abort, db
<1>6. CASE UNCHANGED vars
  BY <1>1, <1>6 DEF vars
<1> QED
  BY <1>2, <1>3, <1>4, <1>5, <1>6, CreateAccountMoney, CommitMoney DEF Next

\* Money is neither made nor lost by deposits: every account holds its opening
\* balance and the value of the coins recorded for it, under any interleaving of
\* any number of commit_deposit transactions, rollbacks and crashes.
THEOREM DepositsConserveMoney == Spec => []MoneyConserved
<1>1. MoneyInv => MoneyConserved
  BY DEF MoneyInv
<1> QED BY <1>1, MoneyInitInv, MoneyNextInv, Invariance, PTL DEF Spec
=============================================================================
