------------------------- MODULE BankWithdrawProofs -------------------------
(***************************************************************************)
(* Proofs about BankWithdraw, for every set of accounts, requests,         *)
(* messages and handlers.                                                  *)
(***************************************************************************)
EXTENDS BankWithdraw, SumTheorems

\* What a row of withdraw_states says, by its state: the request of a row has
\* the row's id, a signature is there exactly from signed on, and it is the
\* one over the row's own message; only an unsignable request is compensated.
RowsInv ==
  \A i \in RequestIds :
    LET row == withdraw_states[i] IN
    /\ row.state # "none" => /\ row.req \in Requests
                             /\ row.req.id = i
                             /\ row.req.denom \in Denominations
                             /\ row.req.account \in accounts
    /\ row.state = "none" => row.req = NoRequest
    /\ row.state \notin {"signed", "completed"} => row.sig = NoSig
    /\ Issued(i) => /\ row.sig = SignatureOf(row.req)
                    /\ row.req.message \in Signable
    /\ row.state = "compensated" => row.req.message \notin Signable

\* What a process that passed the debit works on: the request of the record as
\* it still stands, and from signing on the signature that is stored.
ProcsInv ==
  \A p \in Procs :
    /\ stage[p] = "debit" => job[p] \in Requests /\ job[p].denom \in Denominations
    /\ stage[p] \in {"finalize", "complete", "advance"} =>
         /\ job[p] \in Requests
         /\ withdraw_states[job[p].id].state # "none"
         /\ withdraw_states[job[p].id].req = job[p]
    /\ stage[p] \in {"idle", "debit", "finalize"} => held[p] = NoSig
    /\ stage[p] \in {"complete", "advance"} =>
         /\ Issued(job[p].id)
         /\ held[p] = SignatureOf(job[p])

\* The inductive invariant.
IInv == TypeOK /\ RowsInv /\ ProcsInv /\ RepliesMatchRecord

-----------------------------------------------------------------------------
\* The signature a keyed request with a signable message gets is a signature.
LEMMA SignatureType ==
  ASSUME NEW r \in Requests, r.denom \in Denominations, r.message \in Signable
  PROVE  SignatureOf(r) \in Signatures
BY DEF SignatureOf, Signatures

\* Field types of a request.
LEMMA RequestType ==
  ASSUME NEW r \in Requests
  PROVE  /\ r.id \in RequestIds
         /\ r.account \in AccountIds
         /\ r.denom \in Nat
         /\ r.message \in Messages
BY ConstantsAssumption DEF WithdrawRequests

LEMMA InitInv == Init => IInv
<1> SUFFICES ASSUME Init PROVE IInv
  OBVIOUS
<1>1. TypeOK
  BY ConstantsAssumption DEF Init, TypeOK, NoRow, States, Stages, Procs
<1>2. RowsInv
  BY DEF Init, RowsInv, NoRow, Issued
<1>3. ProcsInv
  BY DEF Init, ProcsInv
<1>4. RepliesMatchRecord
  BY DEF Init, RepliesMatchRecord
<1> QED BY <1>1, <1>2, <1>3, <1>4 DEF IInv

-----------------------------------------------------------------------------
\* Steps that leave the tables and the handlers alone, or only add to accounts.
LEMMA CreateAccountInv ==
  ASSUME IInv, NEW a \in AccountIds, NEW b \in InitialBalances, CreateAccount(a, b)
  PROVE  IInv'
<1> USE DEF IInv, CreateAccount, mem
<1>1. TypeOK'
  BY ConstantsAssumption DEF TypeOK
<1>2. RowsInv'
  BY DEF RowsInv, Issued, SignatureOf
<1>3. ProcsInv' /\ RepliesMatchRecord'
  BY DEF ProcsInv, RepliesMatchRecord, Issued, SignatureOf
<1> QED BY <1>1, <1>2, <1>3

LEMMA DepositCreditInv ==
  ASSUME IInv, NEW a \in AccountIds, NEW d \in DepositAmounts, DepositCredit(a, d)
  PROVE  IInv'
<1> USE DEF IInv, DepositCredit, mem
<1>1. TypeOK'
  BY ConstantsAssumption DEF TypeOK
<1>2. RowsInv'
  BY DEF RowsInv, Issued, SignatureOf
<1>3. ProcsInv' /\ RepliesMatchRecord'
  BY DEF ProcsInv, RepliesMatchRecord, Issued, SignatureOf
<1> QED BY <1>1, <1>2, <1>3

\* Loading the record gives a handler the record's request and signature.
LEMMA WithdrawInv ==
  ASSUME IInv, NEW h \in Handlers, NEW r \in Requests, Withdraw(h, r)
  PROVE  IInv'
<1> USE DEF IInv
<1>0. /\ UNCHANGED <<accounts, balance, withdraw_states, phase, todo, paidIn>>
      /\ h \in Procs
      /\ h # Recoverer
      /\ r.id \in RequestIds
  BY ConstantsAssumption, RequestType DEF Withdraw, db, Procs
<1>1. RowsInv'
  BY <1>0 DEF RowsInv, Issued, SignatureOf
<1>2. CASE withdraw_states[r.id].state = "completed"
  <2>1. /\ replies' = replies \cup {[id |-> r.id, sig |-> withdraw_states[r.id].sig]}
        /\ UNCHANGED <<stage, job, held>>
    BY <1>2, <1>0 DEF Withdraw, Respond, mem
  <2>2. TypeOK'
    BY <2>1, <1>0 DEF TypeOK
  <2>3. ProcsInv'
    BY <2>1, <1>0 DEF ProcsInv, Issued, SignatureOf
  <2>4. RepliesMatchRecord'
    BY <2>1, <1>0, <1>2 DEF RepliesMatchRecord, RowsInv, Issued, SignatureOf
  <2> QED BY <1>1, <2>2, <2>3, <2>4
<1>3. ASSUME NEW s \in {"debit", "finalize", "advance"},
             NEW q \in Requests, NEW g \in Signatures \cup {NoSig},
             Goto(h, s, q, g), UNCHANGED replies,
             s = "debit" => q.denom \in Denominations,
             s # "debit" => /\ withdraw_states[q.id].state # "none"
                            /\ withdraw_states[q.id].req = q,
             s # "advance" => g = NoSig,
             s = "advance" => Issued(q.id) /\ g = SignatureOf(q)
      PROVE  IInv'
  <2>1. TypeOK'
    BY <1>3, <1>0 DEF TypeOK, Goto, Stages
  <2>2. ProcsInv'
    BY <1>3, <1>0 DEF ProcsInv, Goto, Issued, SignatureOf, TypeOK
  <2>3. RepliesMatchRecord'
    BY <1>3, <1>0 DEF RepliesMatchRecord, Issued, SignatureOf
  <2> QED BY <1>1, <2>1, <2>2, <2>3
<1>4. CASE withdraw_states[r.id].state = "none"
  <2>1. r.denom \in Denominations /\ Goto(h, "debit", r, NoSig) /\ UNCHANGED replies
    BY <1>4 DEF Withdraw
  <2> QED BY <2>1, <1>3
<1>5. CASE withdraw_states[r.id].state = "pending"
  <2>1. Goto(h, "finalize", withdraw_states[r.id].req, NoSig) /\ UNCHANGED replies
    BY <1>5 DEF Withdraw
  <2>2. /\ withdraw_states[r.id].req \in Requests
        /\ withdraw_states[r.id].req.id = r.id
    BY <1>5, <1>0 DEF RowsInv
  <2> QED BY <2>1, <2>2, <1>3, <1>5
<1>6. CASE withdraw_states[r.id].state = "signed"
  <2>1. /\ Goto(h, "advance", withdraw_states[r.id].req, withdraw_states[r.id].sig)
        /\ UNCHANGED replies
    BY <1>6 DEF Withdraw
  <2>2. /\ withdraw_states[r.id].req \in Requests
        /\ withdraw_states[r.id].req.id = r.id
        /\ Issued(r.id)
        /\ withdraw_states[r.id].sig = SignatureOf(withdraw_states[r.id].req)
        /\ withdraw_states[r.id].sig \in Signatures \cup {NoSig}
    BY <1>6, <1>0 DEF RowsInv, Issued, TypeOK
  <2> QED BY <2>1, <2>2, <1>3, <1>6
<1> QED BY <1>2, <1>4, <1>5, <1>6 DEF Withdraw

\* The debit transaction writes a pending row, or nothing.
LEMMA DebitInv ==
  ASSUME IInv, NEW h \in Handlers, DebitAndRecordPending(h)
  PROVE  IInv'
<1> DEFINE r == job[h]
<1> USE DEF IInv
<1>0. /\ h \in Procs
      /\ stage[h] = "debit"
      /\ r \in Requests
      /\ r.denom \in Denominations
      /\ r.id \in RequestIds
      /\ r.account \in AccountIds
      /\ r.denom \in Nat
  BY RequestType DEF DebitAndRecordPending, ProcsInv, Procs
<1>1. UNCHANGED <<accounts, phase, todo, replies, paidIn>>
  BY DEF DebitAndRecordPending
<1>2. CASE Finish(h) /\ UNCHANGED <<balance, withdraw_states>>
  <2>1. TypeOK'
    BY <1>0, <1>1, <1>2 DEF TypeOK, Finish, Goto, Stages
  <2>2. RowsInv' /\ RepliesMatchRecord'
    BY <1>1, <1>2 DEF RowsInv, RepliesMatchRecord, Issued, SignatureOf
  <2>3. ProcsInv'
    BY <1>0, <1>2 DEF ProcsInv, Finish, Goto, TypeOK, Issued, SignatureOf
  <2> QED BY <2>1, <2>2, <2>3
<1>3. CASE /\ r.account \in accounts
           /\ balance[r.account] >= r.denom
           /\ withdraw_states[r.id].state = "none"
           /\ balance' = [balance EXCEPT ![r.account] = balance[r.account] - r.denom]
           /\ withdraw_states' = [withdraw_states EXCEPT
                ![r.id] = [state |-> "pending", req |-> r, sig |-> NoSig]]
           /\ Goto(h, "finalize", r, NoSig)
  <2>0. balance[r.account] - r.denom \in 0..MaxBalance
    BY <1>0, <1>3, ConstantsAssumption DEF TypeOK
  <2>1. TypeOK'
    BY <1>0, <1>1, <1>3, <2>0 DEF TypeOK, Goto, Stages, States
  <2>2. RowsInv'
    BY <1>0, <1>1, <1>3 DEF RowsInv, Issued, SignatureOf, TypeOK
  <2>3. ProcsInv'
    <3> SUFFICES ASSUME NEW p \in Procs PROVE ProcsInv!(p)'
      BY DEF ProcsInv
    <3>1. CASE p = h
      BY <3>1, <1>0, <1>3 DEF Goto, TypeOK
    <3>2. CASE p # h
      BY <3>2, <1>0, <1>3, RequestType DEF ProcsInv, Goto, TypeOK, Issued, SignatureOf
    <3> QED BY <3>1, <3>2
  <2>4. RepliesMatchRecord'
    BY <1>0, <1>1, <1>3 DEF RepliesMatchRecord, Issued, SignatureOf, TypeOK
  <2> QED BY <2>1, <2>2, <2>3, <2>4
<1> QED BY <1>2, <1>3 DEF DebitAndRecordPending
\* A process that signs, whatever the row's state has become since it loaded
\* it, writes the only signature the row can have.
LEMMA PersistSignedInv ==
  ASSUME IInv, NEW p \in Procs, PersistSigned(p)
  PROVE  IInv'
<1> DEFINE r == job[p]
<1> USE DEF IInv
<1>0. /\ r \in Requests
      /\ r.id \in RequestIds
      /\ r.message \in Signable
      /\ withdraw_states[r.id].state # "none"
      /\ withdraw_states[r.id].req = r
      /\ r.denom \in Denominations
      /\ r.account \in accounts
      /\ withdraw_states[r.id].state # "compensated"
  BY RequestType DEF PersistSigned, ProcsInv, RowsInv
<1>1. /\ UNCHANGED <<accounts, balance, phase, todo, replies, paidIn>>
      /\ withdraw_states' = [withdraw_states EXCEPT
            ![r.id] = [state |-> "signed", req |-> r, sig |-> SignatureOf(r)]]
      /\ Goto(p, "complete", r, SignatureOf(r))
  BY <1>0 DEF PersistSigned, SetRow
<1>2. SignatureOf(r) \in Signatures
  BY <1>0, SignatureType
<1>3. TypeOK'
  BY <1>0, <1>1, <1>2 DEF TypeOK, Goto, Stages, States
<1>4. RowsInv'
  BY <1>0, <1>1 DEF RowsInv, Issued, SignatureOf, TypeOK
<1>5. ProcsInv'
  <2> SUFFICES ASSUME NEW q \in Procs PROVE ProcsInv!(q)'
    BY DEF ProcsInv
  <2>1. CASE q = p
    BY <2>1, <1>0, <1>1 DEF Goto, TypeOK, Issued, SignatureOf
  <2>2. CASE q # p
    BY <2>2, <1>0, <1>1, RequestType DEF ProcsInv, Goto, TypeOK, Issued, SignatureOf
  <2> QED BY <2>1, <2>2
<1>6. RepliesMatchRecord'
  BY <1>0, <1>1 DEF RepliesMatchRecord, RowsInv, Issued, SignatureOf, TypeOK
<1> QED BY <1>3, <1>4, <1>5, <1>6

\* A refund hits a row of an unsignable request only, which no process has a
\* signature for.
LEMMA CompensateInv ==
  ASSUME IInv, NEW p \in Procs, Compensate(p)
  PROVE  IInv'
<1> DEFINE r == job[p]
<1> USE DEF IInv
<1>0. /\ r \in Requests
      /\ r.id \in RequestIds
      /\ r.account \in AccountIds
      /\ r.denom \in Nat
      /\ r.message \notin Signable
      /\ withdraw_states[r.id].state # "none"
      /\ withdraw_states[r.id].req = r
      /\ ~Issued(r.id)
      /\ withdraw_states[r.id].sig = NoSig
  BY RequestType DEF Compensate, ProcsInv, RowsInv, Issued
<1>1. UNCHANGED <<accounts, phase, todo, replies, paidIn>> /\ Finish(p)
  BY DEF Compensate
<1>2. CASE UNCHANGED <<balance, withdraw_states>>
  <2>1. TypeOK'
    BY <1>0, <1>1, <1>2 DEF TypeOK, Finish, Goto, Stages
  <2>2. RowsInv' /\ RepliesMatchRecord'
    BY <1>1, <1>2 DEF RowsInv, RepliesMatchRecord, Issued, SignatureOf
  <2>3. ProcsInv'
    BY <1>0, <1>1, <1>2 DEF ProcsInv, Finish, Goto, TypeOK, Issued, SignatureOf
  <2> QED BY <2>1, <2>2, <2>3
<1>3. CASE /\ balance[r.account] + r.denom <= MaxBalance
           /\ balance' = [balance EXCEPT ![r.account] = balance[r.account] + r.denom]
           /\ SetRow(r.id, "compensated", withdraw_states[r.id].sig)
  <2>0. withdraw_states' = [withdraw_states EXCEPT
            ![r.id] = [state |-> "compensated", req |-> r, sig |-> NoSig]]
    BY <1>0, <1>3 DEF SetRow
  <2>1. balance[r.account] + r.denom \in 0..MaxBalance
    BY <1>0, <1>3, ConstantsAssumption DEF TypeOK
  <2>2. TypeOK'
    BY <1>0, <1>1, <1>3, <2>0, <2>1 DEF TypeOK, Finish, Goto, Stages, States
  <2>3. RowsInv'
    BY <1>0, <1>1, <2>0 DEF RowsInv, Issued, SignatureOf, TypeOK
  <2>4. ProcsInv'
    <3> SUFFICES ASSUME NEW q \in Procs PROVE ProcsInv!(q)'
      BY DEF ProcsInv
    <3>1. CASE q = p
      BY <3>1, <1>1 DEF Finish, Goto, TypeOK
    <3>2. CASE q # p
      BY <3>2, <1>0, <1>1, <2>0, RequestType
         DEF ProcsInv, Finish, Goto, TypeOK, Issued, SignatureOf
    <3> QED BY <3>1, <3>2
  <2>5. RepliesMatchRecord'
    BY <1>0, <1>1, <2>0 DEF RepliesMatchRecord, Issued, SignatureOf, TypeOK
  <2> QED BY <2>2, <2>3, <2>4, <2>5
<1> QED BY <1>2, <1>3 DEF Compensate

\* Completing a row keeps its request and signature, and the reply carries it.
LEMMA SetCompletedInv ==
  ASSUME IInv, NEW p \in Procs, SetCompleted(p)
  PROVE  IInv'
<1> DEFINE r == job[p]
<1> USE DEF IInv
<1>0. /\ r \in Requests
      /\ r.id \in RequestIds
      /\ withdraw_states[r.id].req = r
      /\ Issued(r.id)
      /\ withdraw_states[r.id].sig = SignatureOf(r)
      /\ held[p] = SignatureOf(r)
      /\ SignatureOf(r) \in Signatures \cup {NoSig}
  BY RequestType DEF SetCompleted, ProcsInv, RowsInv, Issued, TypeOK
<1>1. /\ UNCHANGED <<accounts, balance, phase, todo, paidIn>>
      /\ withdraw_states' = [withdraw_states EXCEPT
            ![r.id] = [state |-> "completed", req |-> r, sig |-> SignatureOf(r)]]
      /\ Finish(p)
      /\ replies' \subseteq replies \cup {[id |-> r.id, sig |-> SignatureOf(r)]}
  BY <1>0 DEF SetCompleted, SetRow, Respond
<1>2. TypeOK'
  <2>1. replies' \subseteq [id : RequestIds, sig : Signatures \cup {NoSig}]
    BY <1>0, <1>1 DEF TypeOK
  <2> QED BY <2>1, <1>0, <1>1 DEF TypeOK, Finish, Goto, Stages, States
<1>3. RowsInv'
  BY <1>0, <1>1 DEF RowsInv, Issued, SignatureOf, TypeOK
<1>4. ProcsInv'
  <2> SUFFICES ASSUME NEW q \in Procs PROVE ProcsInv!(q)'
    BY DEF ProcsInv
  <2>1. CASE q = p
    BY <2>1, <1>1 DEF Finish, Goto, TypeOK
  <2>2. CASE q # p
    BY <2>2, <1>0, <1>1, RequestType DEF ProcsInv, Finish, Goto, TypeOK, Issued, SignatureOf
  <2> QED BY <2>1, <2>2
<1>5. RepliesMatchRecord'
  BY <1>0, <1>1 DEF RepliesMatchRecord, Issued, SignatureOf, TypeOK
<1> QED BY <1>2, <1>3, <1>4, <1>5

\* A handler that ends early, a crash and the start of recovery drop memory and
\* leave the tables as they are.
LEMMA AbandonInv ==
  ASSUME IInv, NEW p \in Procs, Cancel(p) \/ DbError(p)
  PROVE  IInv'
<1> USE DEF IInv
<1>1. UNCHANGED <<accounts, balance, withdraw_states, replies, paidIn>> /\ Finish(p)
  BY DEF Cancel, DbError, db
<1>2. phase' \in {"down", "recovering", "serving"} /\ todo' \subseteq RequestIds
  BY DEF Cancel, DbError, TypeOK
<1>3. TypeOK'
  BY <1>1, <1>2 DEF TypeOK, Finish, Goto, Stages
<1>4. RowsInv' /\ RepliesMatchRecord'
  BY <1>1 DEF RowsInv, RepliesMatchRecord, Issued, SignatureOf
<1>5. ProcsInv'
  BY <1>1 DEF ProcsInv, Finish, Goto, TypeOK, Issued, SignatureOf
<1> QED BY <1>3, <1>4, <1>5

LEMMA CrashInv == IInv /\ Crash => IInv'
<1> SUFFICES ASSUME IInv, Crash PROVE IInv'
  OBVIOUS
<1> USE DEF IInv, Crash, db
<1>1. TypeOK'
  BY DEF TypeOK, Stages
<1>2. RowsInv' /\ RepliesMatchRecord'
  BY DEF RowsInv, RepliesMatchRecord, Issued, SignatureOf
<1>3. ProcsInv'
  BY DEF ProcsInv
<1> QED BY <1>1, <1>2, <1>3

LEMMA RestartInv ==
  ASSUME IInv, Restart \/ RecoverDone \/ UNCHANGED vars
  PROVE  IInv'
<1> USE DEF IInv
<1>1. /\ UNCHANGED <<accounts, balance, withdraw_states, stage, job, held, replies, paidIn>>
      /\ phase' \in {"down", "recovering", "serving"}
      /\ todo' \subseteq RequestIds
  BY DEF Restart, RecoverDone, db, mem, vars, TypeOK
<1>2. TypeOK'
  BY <1>1 DEF TypeOK
<1>3. RowsInv' /\ ProcsInv' /\ RepliesMatchRecord'
  BY <1>1 DEF RowsInv, ProcsInv, RepliesMatchRecord, Issued, SignatureOf
<1> QED BY <1>2, <1>3

\* Recovery takes a row's own request and signature.
LEMMA RecoverNextInv ==
  ASSUME IInv, NEW i \in RequestIds, RecoverNext(i)
  PROVE  IInv'
<1> DEFINE row == withdraw_states[i]
<1> USE DEF IInv
<1>0. /\ UNCHANGED <<accounts, balance, withdraw_states, phase, replies, paidIn>>
      /\ todo' \subseteq RequestIds
      /\ Recoverer \in Procs
      /\ row.req \in Requests
      /\ row.req.id = i
      /\ row.sig \in Signatures \cup {NoSig}
      /\ \/ row.state = "pending" /\ Goto(Recoverer, "finalize", row.req, NoSig)
         \/ row.state = "signed" /\ Goto(Recoverer, "advance", row.req, row.sig)
  BY DEF RecoverNext, RowsInv, TypeOK, db, Procs
<1>1. TypeOK'
  BY <1>0 DEF TypeOK, Goto, Stages
<1>2. RowsInv' /\ RepliesMatchRecord'
  BY <1>0 DEF RowsInv, RepliesMatchRecord, Issued, SignatureOf
<1>3. ProcsInv'
  <2> SUFFICES ASSUME NEW q \in Procs PROVE ProcsInv!(q)'
    BY DEF ProcsInv
  <2>1. CASE q = Recoverer
    BY <2>1, <1>0 DEF Goto, TypeOK, RowsInv, Issued, SignatureOf
  <2>2. CASE q # Recoverer
    BY <2>2, <1>0 DEF ProcsInv, Goto, TypeOK, Issued, SignatureOf
  <2> QED BY <2>1, <2>2
<1> QED BY <1>1, <1>2, <1>3

-----------------------------------------------------------------------------
LEMMA NextInv == IInv /\ [Next]_vars => IInv'
<1> SUFFICES ASSUME IInv, [Next]_vars PROVE IInv'
  OBVIOUS
<1>1. ASSUME NEW p \in Procs, Work(p) PROVE IInv'
  BY <1>1, PersistSignedInv, CompensateInv, SetCompletedInv DEF Work
<1>2. ASSUME NEW h \in Handlers, Handle(h) \/ Cancel(h) PROVE IInv'
  BY <1>1, <1>2, DebitInv, AbandonInv DEF Handle, Procs
<1>3. CASE Recover
  BY <1>1, <1>3, RestartInv, RecoverNextInv DEF Recover, Procs
<1> QED BY <1>2, <1>3, CreateAccountInv, DepositCreditInv, WithdrawInv, AbandonInv,
           CrashInv, RestartInv DEF Next

\* The inductive invariant holds in every reachable state of the withdrawals.
THEOREM Invariance == Spec => []IInv
<1>1. Init => IInv
  BY InitInv
<1>2. IInv /\ [Next]_vars => IInv'
  BY NextInv
<1> QED BY <1>1, <1>2, PTL DEF Spec

\* Type correctness: in particular no balance is ever negative or beyond the
\* column, for any number of concurrent debits, refunds and deposits.
THEOREM TypeCorrect == Spec => []TypeOK
<1>1. IInv => TypeOK
  BY DEF IInv
<1> QED BY <1>1, Invariance, PTL

\* Every reply to a request_id carries the stored signature over the debited
\* record, however many handlers, retries, crashes and recoveries ran.
THEOREM Idempotency == Spec => []RepliesMatchRecord
<1>1. IInv => RepliesMatchRecord
  BY DEF IInv
<1> QED BY <1>1, Invariance, PTL

\* A withdrawal is never both refunded and signed.
THEOREM RefundExcludesSignature == Spec => []NoRefundedSignature
<1>1. IInv => NoRefundedSignature
  BY RequestType DEF IInv, TypeOK, RowsInv, ProcsInv, RepliesMatchRecord, NoRefundedSignature,
         Issued, Stages
<1> QED BY <1>1, Invariance, PTL

-----------------------------------------------------------------------------
\* The steps that write a row, and what they write.
LEMMA RowWrites ==
  ASSUME IInv, [Next]_vars, NEW i \in RequestIds
  PROVE  \/ withdraw_states'[i] = withdraw_states[i]
         \/ withdraw_states[i].state = "none"
         \/ /\ withdraw_states'[i].state \in {"signed", "completed"}
            /\ withdraw_states[i].req.message \in Signable
            /\ withdraw_states'[i].sig = SignatureOf(withdraw_states[i].req)
         \/ /\ withdraw_states'[i].state = "compensated"
            /\ withdraw_states[i].req.message \notin Signable
<1> DEFINE Goal == \/ withdraw_states'[i] = withdraw_states[i]
                   \/ withdraw_states[i].state = "none"
                   \/ /\ withdraw_states'[i].state \in {"signed", "completed"}
                      /\ withdraw_states[i].req.message \in Signable
                      /\ withdraw_states'[i].sig = SignatureOf(withdraw_states[i].req)
                   \/ /\ withdraw_states'[i].state = "compensated"
                      /\ withdraw_states[i].req.message \notin Signable
<1> USE DEF IInv
<1>1. ASSUME NEW p \in Procs, PersistSigned(p) PROVE Goal
  BY <1>1, RequestType DEF PersistSigned, SetRow, ProcsInv, TypeOK
<1>2. ASSUME NEW p \in Procs, Compensate(p) PROVE Goal
  BY <1>2, RequestType DEF Compensate, SetRow, ProcsInv, TypeOK
<1>3. ASSUME NEW p \in Procs, SetCompleted(p) PROVE Goal
  BY <1>3, RequestType DEF SetCompleted, SetRow, ProcsInv, RowsInv, Issued, TypeOK
<1>4. ASSUME NEW h \in Handlers, DebitAndRecordPending(h) PROVE Goal
  BY <1>4, RequestType DEF DebitAndRecordPending, ProcsInv, TypeOK, Procs
<1>5. ASSUME NEW p \in Procs, Work(p) PROVE Goal
  BY <1>5, <1>1, <1>2, <1>3 DEF Work
<1>6. CASE UNCHANGED withdraw_states
  BY <1>6
<1>7. ASSUME NEW h \in Handlers, Handle(h) \/ Cancel(h) PROVE Goal
  BY <1>7, <1>4, <1>5, <1>6 DEF Handle, Cancel, db, Procs
<1>8. CASE Recover
  BY <1>8, <1>5, <1>6 DEF Recover, Restart, RecoverNext, RecoverDone, db, Procs
<1>9. CASE \/ \E a \in AccountIds : \E b \in InitialBalances : CreateAccount(a, b)
           \/ \E a \in AccountIds : \E d \in DepositAmounts : DepositCredit(a, d)
           \/ \E h \in Handlers : \E r \in Requests : Withdraw(h, r)
           \/ \E p \in Procs : DbError(p)
           \/ Crash
           \/ UNCHANGED vars
  BY <1>9, <1>6 DEF CreateAccount, DepositCredit, Withdraw, DbError, Crash, db, vars
<1> QED BY <1>7, <1>8, <1>9 DEF Next

\* A decided withdrawal stays decided, with its signature.
THEOREM Finality == Spec => OutcomeIsFinal
<1>1. IInv /\ [Next]_vars => [OutcomeStep]_vars
  <2> SUFFICES ASSUME IInv, [Next]_vars, NEW i \in RequestIds
               PROVE  /\ withdraw_states[i].state = "compensated" =>
                           withdraw_states'[i].state = "compensated"
                      /\ Issued(i) => /\ Issued(i)'
                                      /\ withdraw_states'[i].sig = withdraw_states[i].sig
    BY DEF OutcomeStep
  <2> QED BY RowWrites DEF IInv, RowsInv, Issued
<1> QED BY <1>1, Invariance, PTL DEF Spec, OutcomeIsFinal

-----------------------------------------------------------------------------
(* Recovery *)

\* The refund recovery is about to make does not overflow the balance column.
RefundFits ==
  stage[Recoverer] = "finalize" =>
    balance[job[Recoverer].account] + job[Recoverer].denom <= MaxBalance

\* No handler runs until the bank serves, recovery runs before that only, and
\* what is open then is on recovery's list or in its hands.
RecoveryInv ==
  /\ phase # "serving" => \A h \in Handlers : stage[h] = "idle"
  /\ phase # "recovering" => stage[Recoverer] = "idle"
  /\ phase = "recovering" =>
       \A i \in RequestIds : withdraw_states[i].state \in {"pending", "signed"} =>
         i \in todo \/ (stage[Recoverer] # "idle" /\ job[Recoverer].id = i)

\* Handlers' steps happen while the bank serves, and recovery is not running.
LEMMA HandlerRecovery ==
  ASSUME TypeOK, RecoveryInv, NEW h \in Handlers, phase = "serving", UNCHANGED phase,
         \E s, r, g : Goto(h, s, r, g)
  PROVE  RecoveryInv'
<1>1. h # Recoverer /\ h \in Procs /\ Recoverer \in Procs
  BY ConstantsAssumption DEF Procs
<1>2. stage'[Recoverer] = stage[Recoverer]
  BY <1>1 DEF Goto, TypeOK
<1> QED BY <1>2 DEF RecoveryInv

\* Recovery finishes the record in its hands, whichever way it goes.
LEMMA WorkRecovery ==
  ASSUME IInv, RefundFits, RecoveryInv, Work(Recoverer)
  PROVE  RecoveryInv'
<1> DEFINE r == job[Recoverer]
<1>0. /\ Recoverer \in Procs /\ Recoverer \notin Handlers /\ Handlers \subseteq Procs
      /\ stage[Recoverer] # "idle"
      /\ UNCHANGED <<phase, todo>>
      /\ r \in Requests /\ r.id \in RequestIds /\ r.account \in AccountIds /\ r.denom \in Nat
  BY ConstantsAssumption, RequestType
     DEF Procs, Work, PersistSigned, Compensate, SetCompleted, IInv, ProcsInv
<1>1. phase = "recovering" /\ TypeOK
  BY <1>0 DEF RecoveryInv, IInv
<1>2. \A h \in Handlers : stage'[h] = stage[h]
  BY <1>0, <1>1 DEF Work, PersistSigned, Compensate, SetCompleted, Finish, Goto, TypeOK
<1>3. CASE PersistSigned(Recoverer)
  <2>1. stage'[Recoverer] = "complete" /\ job'[Recoverer] = r
    BY <1>0, <1>1, <1>3 DEF PersistSigned, Goto, TypeOK
  <2>2. \A i \in RequestIds : i # r.id => withdraw_states'[i] = withdraw_states[i]
    BY <1>0, <1>1, <1>3 DEF PersistSigned, SetRow, TypeOK
  <2> QED BY <1>0, <1>1, <1>2, <2>1, <2>2 DEF RecoveryInv
<1>4. CASE Compensate(Recoverer) \/ SetCompleted(Recoverer)
  <2>1. \A i \in RequestIds : i # r.id => withdraw_states'[i] = withdraw_states[i]
    BY <1>0, <1>1, <1>4 DEF Compensate, SetCompleted, SetRow, TypeOK
  <2>2. withdraw_states'[r.id].state \in {"compensated", "completed"}
    <3>1. CASE SetCompleted(Recoverer)
      BY <1>0, <1>1, <3>1 DEF SetCompleted, SetRow, TypeOK
    <3>2. CASE Compensate(Recoverer)
      <4>1. balance[r.account] + r.denom <= MaxBalance /\ balance[r.account] \in Nat
        BY <1>0, <1>1, <3>2 DEF Compensate, RefundFits, TypeOK
      <4>2. ~(balance[r.account] + r.denom > MaxBalance)
        BY <1>0, <4>1, ConstantsAssumption
      <4>3. SetRow(r.id, "compensated", withdraw_states[r.id].sig)
        BY <3>2, <4>2 DEF Compensate
      <4> QED BY <1>0, <1>1, <4>3 DEF SetRow, TypeOK
    <3> QED BY <1>4, <3>1, <3>2
  <2> QED BY <1>0, <1>1, <1>2, <2>1, <2>2 DEF RecoveryInv
<1> QED BY <1>3, <1>4 DEF Work

LEMMA RecoveryStep ==
  ASSUME ~DbFaults, IInv, RefundFits, RecoveryInv, [Next]_vars
  PROVE  RecoveryInv'
<1>0. TypeOK /\ Recoverer \in Procs /\ Handlers \subseteq Procs /\ Recoverer \notin Handlers
  BY ConstantsAssumption DEF IInv, Procs
<1>1. ASSUME UNCHANGED <<phase, todo, withdraw_states, stage, job>> PROVE RecoveryInv'
  BY <1>1 DEF RecoveryInv
<1>2. ASSUME NEW h \in Handlers, NEW r \in Requests, Withdraw(h, r) PROVE RecoveryInv'
  <2>1. CASE \E s, q, g : Goto(h, s, q, g)
    BY <1>0, <1>2, <2>1, HandlerRecovery DEF Withdraw
  <2>2. CASE UNCHANGED mem
    BY <1>1, <1>2, <2>2 DEF Withdraw, mem, db
  <2> QED BY <1>2, <2>1, <2>2 DEF Withdraw
<1>3. ASSUME NEW h \in Handlers, Handle(h) \/ Cancel(h) PROVE RecoveryInv'
  <2>1. stage[h] # "idle" /\ UNCHANGED phase
    BY <1>3 DEF Handle, Cancel, DebitAndRecordPending, Work, PersistSigned, Compensate, SetCompleted
  <2>2. phase = "serving"
    BY <2>1 DEF RecoveryInv
  <2>3. \E s, q, g : Goto(h, s, q, g)
    BY <1>3 DEF Handle, Cancel, DebitAndRecordPending, Work, PersistSigned, Compensate,
       SetCompleted, Finish
  <2> QED BY <1>0, <2>1, <2>2, <2>3, HandlerRecovery
<1>4. ASSUME Crash PROVE RecoveryInv'
  BY <1>0, <1>4 DEF Crash, RecoveryInv
<1>5. ASSUME Restart PROVE RecoveryInv'
  BY <1>0, <1>5 DEF Restart, RecoveryInv, mem, db
<1>6. ASSUME NEW i \in RequestIds, RecoverNext(i) PROVE RecoveryInv'
  <2>1. /\ UNCHANGED <<phase, withdraw_states>> /\ phase = "recovering"
        /\ stage[Recoverer] = "idle" /\ todo' = todo \ {i}
    BY <1>6 DEF RecoverNext, db
  <2>2. withdraw_states[i].req.id = i
    BY <1>6 DEF RecoverNext, IInv, RowsInv
  <2>3. stage'[Recoverer] # "idle" /\ job'[Recoverer].id = i
    BY <1>0, <1>6, <2>2 DEF RecoverNext, Goto, TypeOK
  <2>4. \A h \in Handlers : stage'[h] = stage[h]
    BY <1>0, <1>6 DEF RecoverNext, Goto, TypeOK
  <2> QED BY <2>1, <2>3, <2>4 DEF RecoveryInv
<1>7. ASSUME RecoverDone PROVE RecoveryInv'
  BY <1>0, <1>7 DEF RecoverDone, RecoveryInv, mem, db
<1>8. ASSUME Recover PROVE RecoveryInv'
  BY <1>5, <1>6, <1>7, <1>8, WorkRecovery DEF Recover
<1>9. ASSUME \/ \E a \in AccountIds : \E b \in InitialBalances : CreateAccount(a, b)
             \/ \E a \in AccountIds : \E d \in DepositAmounts : DepositCredit(a, d)
             \/ UNCHANGED vars
      PROVE  RecoveryInv'
  BY <1>1, <1>9 DEF CreateAccount, DepositCredit, mem, vars
<1>10. ~ \E p \in Procs : DbError(p)
  BY DEF DbError
<1> QED BY <1>2, <1>3, <1>4, <1>8, <1>9, <1>10 DEF Next

\* Only RecoverDone opens the bank.
LEMMA OpeningStep ==
  ASSUME IInv, RecoveryInv, [Next]_vars, phase = "recovering", phase' = "serving"
  PROVE  \A i \in RequestIds : withdraw_states[i].state \notin {"pending", "signed"}
<1>1. CASE RecoverDone
  BY <1>1 DEF RecoverDone, RecoveryInv
<1>2. CASE ~RecoverDone
  <2>1. ~ \E p \in Procs : Work(p)
    BY DEF Work, PersistSigned, Compensate, SetCompleted
  <2>2. ~Recover
    BY <1>2, <2>1 DEF Recover, Restart, RecoverNext, Procs
  <2>3. ~ \E h \in Handlers : Handle(h) \/ Cancel(h)
    BY <2>1 DEF Handle, DebitAndRecordPending, Cancel, Procs
  <2>4. ~ \E p \in Procs : DbError(p)
    BY DEF DbError
  <2>5. Crash \/ UNCHANGED vars \/ \E h \in Handlers : \E r \in Requests : Withdraw(h, r)
    BY <2>2, <2>3, <2>4 DEF Next, CreateAccount, DepositCredit
  <2> QED BY <2>5 DEF Crash, vars, Withdraw
<1> QED BY <1>1, <1>2

\* A pending or signed withdrawal is never left stranded by recover_withdrawals:
\* without SQL errors, and when no refund overflows a balance, the bank starts to
\* serve with every record decided, for any number of records and crashes.
THEOREM RecoveryIsComplete ==
  ASSUME ~DbFaults
  PROVE  Spec /\ []RefundFits => RecoveryLeavesNothingOpen
<1>1. Init => RecoveryInv
  BY DEF Init, RecoveryInv, Procs
<1>2. IInv /\ RefundFits /\ RecoveryInv /\ [Next]_vars => RecoveryInv'
  BY RecoveryStep
<1>3. IInv /\ RecoveryInv /\ [Next]_vars =>
        [phase = "recovering" /\ phase' = "serving" =>
           \A i \in RequestIds : withdraw_states[i].state \notin {"pending", "signed"}]_vars
  BY OpeningStep
<1> QED BY <1>1, <1>2, <1>3, Invariance, PTL DEF Spec, RecoveryLeavesNothingOpen

-----------------------------------------------------------------------------
(* Refunds *)

\* At most one process at a time is about to refund one request: two handlers
\* that both found an unsignable request pending refund it twice, because
\* compensate does not look at the state of the record.
RefundsAlone ==
  \A p, q \in Procs :
    /\ stage[p] = "finalize" /\ stage[q] = "finalize"
    /\ job[p].id = job[q].id
    /\ job[p].message \notin Signable
    => p = q

\* Then no process is about to sign or to refund what is refunded already.
Unrefunded ==
  \A p \in Procs :
    stage[p] = "finalize" => withdraw_states[job[p].id].state # "compensated"

\* When every message can be signed nothing is refunded.
LEMMA NoRefundsAtAll == ASSUME Messages \subseteq Signable PROVE IInv => RefundsAlone
BY RequestType DEF RefundsAlone, IInv, ProcsInv

\* Processes change one at a time.
LEMMA OthersKeepWorking ==
  ASSUME TypeOK, NEW p \in Procs, NEW s, NEW r, NEW g, Goto(p, s, r, g)
  PROVE  /\ \A q \in Procs : q # p => stage'[q] = stage[q] /\ job'[q] = job[q]
         /\ stage'[p] = s /\ job'[p] = r
BY DEF TypeOK, Goto

LEMMA UnrefundedStep ==
  ASSUME IInv, RefundsAlone, Unrefunded, [Next]_vars
  PROVE  Unrefunded'
<1> DEFINE Kept(q) == stage'[q] = "finalize" =>
                        withdraw_states'[job'[q].id].state # "compensated"
<1> SUFFICES ASSUME NEW q \in Procs PROVE Kept(q)
  BY DEF Unrefunded
<1>0. TypeOK /\ (stage[q] = "finalize" => job[q] \in Requests /\ job[q].id \in RequestIds)
  BY RequestType DEF IInv, ProcsInv
<1>1. ASSUME UNCHANGED <<withdraw_states, stage, job>> PROVE Kept(q)
  BY <1>1 DEF Unrefunded
<1>2. ASSUME NEW p \in Procs, Finish(p), UNCHANGED withdraw_states PROVE Kept(q)
  BY <1>0, <1>2, OthersKeepWorking DEF Finish, Unrefunded
<1>3. ASSUME NEW h \in Handlers, NEW r \in Requests, Withdraw(h, r) PROVE Kept(q)
  <2>0. h \in Procs /\ UNCHANGED withdraw_states /\ r.id \in RequestIds
    BY <1>3, RequestType DEF Procs, Withdraw, db
  <2>1. CASE withdraw_states[r.id].state = "completed"
    BY <1>1, <1>3, <2>0, <2>1 DEF Withdraw, mem
  <2>2. CASE withdraw_states[r.id].state = "pending"
    <3>1. Goto(h, "finalize", withdraw_states[r.id].req, NoSig)
      BY <1>3, <2>2 DEF Withdraw
    <3>2. withdraw_states[r.id].req.id = r.id
      BY <2>0, <2>2 DEF IInv, RowsInv
    <3> QED BY <1>0, <2>0, <2>2, <3>1, <3>2, OthersKeepWorking DEF Unrefunded
  <2>3. ASSUME NEW s, s # "finalize", NEW x, NEW g, Goto(h, s, x, g) PROVE Kept(q)
    BY <1>0, <2>0, <2>3, OthersKeepWorking DEF Unrefunded
  <2> QED BY <1>3, <2>1, <2>2, <2>3 DEF Withdraw
<1>4. ASSUME NEW h \in Handlers, DebitAndRecordPending(h) PROVE Kept(q)
  <2>1. h \in Procs /\ job[h] \in Requests /\ job[h].id \in RequestIds
    BY <1>4, RequestType DEF Procs, DebitAndRecordPending, IInv, ProcsInv
  <2>2. CASE Finish(h) /\ UNCHANGED withdraw_states
    BY <1>2, <2>1, <2>2
  <2>3. CASE /\ Goto(h, "finalize", job[h], NoSig)
             /\ withdraw_states' = [withdraw_states EXCEPT
                  ![job[h].id] = [state |-> "pending", req |-> job[h], sig |-> NoSig]]
    <3>1. CASE q = h
      BY <1>0, <2>1, <2>3, <3>1, OthersKeepWorking DEF TypeOK
    <3>2. CASE q # h
      BY <1>0, <2>1, <2>3, <3>2, OthersKeepWorking DEF TypeOK, Unrefunded
    <3> QED BY <3>1, <3>2
  <2> QED BY <1>4, <2>2, <2>3 DEF DebitAndRecordPending
<1>5. ASSUME NEW p \in Procs, PersistSigned(p) \/ SetCompleted(p) PROVE Kept(q)
  <2>1. job[p] \in Requests /\ job[p].id \in RequestIds
    BY <1>5, RequestType DEF PersistSigned, SetCompleted, IInv, ProcsInv
  <2>2. PICK s, r, g : Goto(p, s, r, g) /\ s \in {"complete", "idle"}
    BY <1>5 DEF PersistSigned, SetCompleted, Finish
  <2>3. \A i \in RequestIds : \/ withdraw_states'[i] = withdraw_states[i]
                              \/ withdraw_states'[i].state # "compensated"
    BY <1>0, <1>5, <2>1 DEF PersistSigned, SetCompleted, SetRow, TypeOK
  <2> QED BY <1>0, <2>2, <2>3, OthersKeepWorking DEF Unrefunded
<1>6. ASSUME NEW p \in Procs, Compensate(p) PROVE Kept(q)
  <2>1. Finish(p) /\ stage[p] = "finalize" /\ job[p].message \notin Signable
    BY <1>6 DEF Compensate
  <2>2. CASE q = p
    BY <1>0, <2>1, <2>2, OthersKeepWorking DEF Finish
  <2>3. CASE q # p
    <3>1. stage'[q] = stage[q] /\ job'[q] = job[q]
      BY <1>0, <2>1, <2>3, OthersKeepWorking DEF Finish
    <3>2. stage[q] = "finalize" => job[q].id # job[p].id
      BY <2>1, <2>3 DEF RefundsAlone
    <3>3. job[p] \in Requests /\ job[p].id \in RequestIds
      BY <2>1, RequestType DEF IInv, ProcsInv
    <3>4. \A i \in RequestIds : i # job[p].id => withdraw_states'[i] = withdraw_states[i]
      BY <1>0, <1>6, <3>3 DEF Compensate, SetRow, TypeOK
    <3> QED BY <1>0, <3>1, <3>2, <3>4 DEF Unrefunded
  <2> QED BY <2>2, <2>3
<1>7. ASSUME NEW p \in Procs, Work(p) PROVE Kept(q)
  BY <1>5, <1>6, <1>7 DEF Work
<1>8. ASSUME NEW h \in Handlers, Handle(h) \/ Cancel(h) PROVE Kept(q)
  BY <1>2, <1>4, <1>7, <1>8 DEF Handle, Cancel, db, Procs
<1>9. ASSUME NEW i \in RequestIds, RecoverNext(i) PROVE Kept(q)
  <2>0. Recoverer \in Procs /\ UNCHANGED withdraw_states
    BY <1>9 DEF Procs, RecoverNext, db
  <2>1. CASE withdraw_states[i].state = "pending"
    <3>1. Goto(Recoverer, "finalize", withdraw_states[i].req, NoSig)
      BY <1>9, <2>1 DEF RecoverNext
    <3>2. withdraw_states[i].req.id = i
      BY <2>1 DEF IInv, RowsInv
    <3> QED BY <1>0, <2>0, <2>1, <3>1, <3>2, OthersKeepWorking DEF Unrefunded
  <2>2. CASE Goto(Recoverer, "advance", withdraw_states[i].req, withdraw_states[i].sig)
    BY <1>0, <2>0, <2>2, OthersKeepWorking DEF Unrefunded
  <2> QED BY <1>9, <2>1, <2>2 DEF RecoverNext
<1>10. ASSUME Recover PROVE Kept(q)
  BY <1>1, <1>7, <1>9, <1>10 DEF Recover, Restart, RecoverDone, db, mem, Procs
<1>11. ASSUME Crash PROVE Kept(q)
  BY <1>11 DEF Crash
<1>12. ASSUME NEW p \in Procs, DbError(p) PROVE Kept(q)
  BY <1>2, <1>12 DEF DbError, db
<1>13. ASSUME \/ \E a \in AccountIds : \E b \in InitialBalances : CreateAccount(a, b)
              \/ \E a \in AccountIds : \E d \in DepositAmounts : DepositCredit(a, d)
              \/ UNCHANGED vars
       PROVE  Kept(q)
  BY <1>1, <1>13 DEF CreateAccount, DepositCredit, mem, vars
<1> HIDE DEF Kept
<1> QED BY <1>3, <1>8, <1>10, <1>11, <1>12, <1>13 DEF Next

LEMMA UnrefundedInit == Init => Unrefunded
BY DEF Init, Unrefunded

-----------------------------------------------------------------------------
(* Refinement *)

LEMMA ContractInit == Init => Contract!Init
BY DEF Init, Contract!Init, NoRow, outcome, order

LEMMA DebitRefines ==
  ASSUME IInv, NEW h \in Handlers, DebitAndRecordPending(h)
  PROVE  [Contract!Next]_Contract!vars
<1> DEFINE r == job[h]
<1> USE DEF IInv
<1>0. r \in Requests /\ r.id \in RequestIds
  BY RequestType DEF DebitAndRecordPending, ProcsInv, Procs
<1>1. UNCHANGED <<accounts, replies>>
  BY DEF DebitAndRecordPending
<1>2. CASE UNCHANGED <<balance, withdraw_states>>
  BY <1>1, <1>2 DEF Contract!vars, outcome, order
<1>3. CASE /\ r.account \in accounts
           /\ balance[r.account] >= r.denom
           /\ withdraw_states[r.id].state = "none"
           /\ balance' = [balance EXCEPT ![r.account] = balance[r.account] - r.denom]
           /\ withdraw_states' = [withdraw_states EXCEPT
                ![r.id] = [state |-> "pending", req |-> r, sig |-> NoSig]]
  <2>1. outcome[r.id] = "none"
    BY <1>0, <1>3 DEF outcome
  <2>2. outcome' = [outcome EXCEPT ![r.id] = "funded"]
    BY <1>0, <1>3 DEF outcome, TypeOK
  <2>3. order' = [order EXCEPT ![r.id] = r]
    BY <1>0, <1>3 DEF order, TypeOK
  <2>4. Contract!Fund(r)
    BY <1>1, <1>3, <2>1, <2>2, <2>3 DEF Contract!Fund
  <2> QED BY <1>0, <2>4 DEF Contract!Next
<1> QED BY <1>2, <1>3 DEF DebitAndRecordPending

LEMMA PersistSignedRefines ==
  ASSUME IInv, NEW p \in Procs, PersistSigned(p)
  PROVE  [Contract!Next]_Contract!vars
<1> DEFINE r == job[p]
<1> USE DEF IInv
<1>0. /\ r.id \in RequestIds
      /\ withdraw_states[r.id].req = r
      /\ withdraw_states[r.id].state \in {"pending", "signed", "completed"}
  BY RequestType DEF PersistSigned, ProcsInv, RowsInv, TypeOK, States
<1>1. /\ UNCHANGED <<accounts, balance, replies>>
      /\ withdraw_states' = [withdraw_states EXCEPT
            ![r.id] = [state |-> "signed", req |-> r, sig |-> SignatureOf(r)]]
  BY <1>0 DEF PersistSigned, SetRow
<1>2. order' = order
  BY <1>0, <1>1 DEF order, TypeOK
<1>3. outcome' = [outcome EXCEPT ![r.id] = "issued"]
  BY <1>0, <1>1 DEF outcome, TypeOK
<1>4. CASE withdraw_states[r.id].state = "pending"
  <2>1. outcome[r.id] = "funded"
    BY <1>0, <1>4 DEF outcome
  <2>2. Contract!Issue(r.id)
    BY <1>1, <1>2, <1>3, <2>1 DEF Contract!Issue
  <2> QED BY <1>0, <2>2 DEF Contract!Next
<1>5. CASE withdraw_states[r.id].state # "pending"
  <2>1. outcome[r.id] = "issued"
    BY <1>0, <1>5 DEF outcome
  <2>2. outcome' = outcome
    BY <1>0, <1>3, <2>1 DEF outcome
  <2> QED BY <1>1, <1>2, <2>2 DEF Contract!vars
<1> QED BY <1>4, <1>5

LEMMA CompensateRefines ==
  ASSUME IInv, Unrefunded, NEW p \in Procs, Compensate(p)
  PROVE  [Contract!Next]_Contract!vars
<1> DEFINE r == job[p]
<1> USE DEF IInv
<1>0. /\ r.id \in RequestIds
      /\ withdraw_states[r.id].req = r
      /\ withdraw_states[r.id].state = "pending"
      /\ UNCHANGED <<accounts, replies>>
  BY RequestType DEF Compensate, ProcsInv, RowsInv, TypeOK, States, Issued, Unrefunded
<1>1. CASE UNCHANGED <<balance, withdraw_states>>
  BY <1>0, <1>1 DEF Contract!vars, outcome, order
<1>2. CASE /\ balance' = [balance EXCEPT ![r.account] = balance[r.account] + r.denom]
           /\ SetRow(r.id, "compensated", withdraw_states[r.id].sig)
  <2>1. order' = order /\ order[r.id] = r
    BY <1>0, <1>2 DEF order, SetRow, TypeOK
  <2>2. outcome' = [outcome EXCEPT ![r.id] = "refunded"] /\ outcome[r.id] = "funded"
    BY <1>0, <1>2 DEF outcome, SetRow, TypeOK
  <2>3. Contract!Refund(r.id)
    BY <1>0, <1>2, <2>1, <2>2 DEF Contract!Refund
  <2> QED BY <1>0, <2>3 DEF Contract!Next
<1> QED BY <1>1, <1>2 DEF Compensate

\* A reply with the signature of an issued row is a Reply of the contract.
LEMMA ReplyRefines ==
  ASSUME IInv, NEW i \in RequestIds, Issued(i),
         replies' \in {replies, replies \cup {[id |-> i, sig |-> SignatureOf(withdraw_states[i].req)]}},
         UNCHANGED <<accounts, balance, outcome, order>>
  PROVE  [Contract!Next]_Contract!vars
<1>1. outcome[i] = "issued" /\ order[i] = withdraw_states[i].req
  BY DEF outcome, order, Issued
<1>2. CASE replies' = replies
  BY <1>2 DEF Contract!vars
<1>3. CASE replies' = replies \cup {[id |-> i, sig |-> SignatureOf(withdraw_states[i].req)]}
  <2>1. Contract!Reply(i)
    BY <1>1, <1>3 DEF Contract!Reply
  <2> QED BY <2>1 DEF Contract!Next
<1> QED BY <1>2, <1>3

LEMMA SetCompletedRefines ==
  ASSUME IInv, NEW p \in Procs, SetCompleted(p)
  PROVE  [Contract!Next]_Contract!vars
<1> DEFINE r == job[p]
<1> USE DEF IInv
<1>0. /\ r.id \in RequestIds
      /\ withdraw_states[r.id].req = r
      /\ Issued(r.id)
      /\ held[p] = SignatureOf(r)
  BY RequestType DEF SetCompleted, ProcsInv
<1>1. order' = order
  BY <1>0 DEF SetCompleted, SetRow, order, TypeOK
<1>2. outcome' = outcome
  BY <1>0 DEF SetCompleted, SetRow, outcome, TypeOK, Issued
<1>3. /\ UNCHANGED <<accounts, balance>>
      /\ replies' \in {replies, replies \cup {[id |-> r.id, sig |-> SignatureOf(r)]}}
  BY <1>0 DEF SetCompleted, Respond
<1> QED BY <1>0, <1>1, <1>2, <1>3, ReplyRefines

LEMMA WithdrawRefines ==
  ASSUME IInv, NEW h \in Handlers, NEW q \in Requests, Withdraw(h, q)
  PROVE  [Contract!Next]_Contract!vars
<1> USE DEF IInv
<1>1. UNCHANGED <<accounts, balance, outcome, order>>
  BY DEF Withdraw, db, outcome, order
<1>2. CASE replies' = replies
  BY <1>1, <1>2 DEF Contract!vars
<1>3. CASE /\ withdraw_states[q.id].state = "completed"
           /\ Respond(h, q.id, withdraw_states[q.id].sig)
  <2>1. q.id \in RequestIds /\ Issued(q.id)
    BY <1>3, RequestType DEF Issued
  <2>2. withdraw_states[q.id].sig = SignatureOf(withdraw_states[q.id].req)
    BY <2>1 DEF RowsInv
  <2>3. replies' \in {replies,
          replies \cup {[id |-> q.id, sig |-> SignatureOf(withdraw_states[q.id].req)]}}
    BY <1>3, <2>2 DEF Respond
  <2> QED BY <1>1, <2>1, <2>3, ReplyRefines
<1> QED BY <1>2, <1>3 DEF Withdraw

\* Paying in is Open or PayIn of the contract.
LEMMA PayInRefines ==
  ASSUME IInv, NEW a \in AccountIds, NEW b \in 0..MaxBalance,
         CreateAccount(a, b) \/ DepositCredit(a, b)
  PROVE  [Contract!Next]_Contract!vars
<1>1. UNCHANGED <<outcome, order, replies>>
  BY DEF CreateAccount, DepositCredit, outcome, order
<1>2. Contract!Open(a, b) \/ Contract!PayIn(a, b)
  BY <1>1 DEF CreateAccount, DepositCredit, Contract!Open, Contract!PayIn
<1> QED BY <1>2 DEF Contract!Next

LEMMA StepRefines ==
  ASSUME Unrefunded, IInv, [Next]_vars
  PROVE  [Contract!Next]_Contract!vars
<1> DEFINE Goal == [Contract!Next]_Contract!vars
<1>1. ASSUME NEW p \in Procs, Work(p) PROVE Goal
  BY <1>1, PersistSignedRefines, CompensateRefines, SetCompletedRefines DEF Work
<1>2. CASE UNCHANGED <<accounts, balance, withdraw_states, replies>>
  BY <1>2 DEF Contract!vars, outcome, order
<1>3. ASSUME NEW h \in Handlers, Handle(h) \/ Cancel(h) PROVE Goal
  BY <1>3, <1>1, <1>2, DebitRefines DEF Handle, Cancel, db, Procs
<1>4. CASE Recover
  BY <1>4, <1>1, <1>2 DEF Recover, Restart, RecoverNext, RecoverDone, db, Procs
<1>5. ASSUME NEW a \in AccountIds, NEW b \in InitialBalances, CreateAccount(a, b)
      PROVE  Goal
  BY <1>5, PayInRefines, ConstantsAssumption
<1>6. ASSUME NEW a \in AccountIds, NEW d \in DepositAmounts, DepositCredit(a, d)
      PROVE  Goal
  <2>1. d \in 0..MaxBalance
    BY <1>6, ConstantsAssumption
  <2> QED BY <1>6, <2>1, PayInRefines
<1>7. CASE (\E p \in Procs : DbError(p)) \/ Crash \/ UNCHANGED vars
  BY <1>7, <1>2 DEF DbError, Crash, db, vars
<1> QED BY <1>3, <1>4, <1>5, <1>6, <1>7, WithdrawRefines DEF Next

\* The handlers, their retries and the recovery implement the withdrawal contract
\* (one debit, then one signature or one refund) in every behaviour in which one
\* request is refunded by one process at a time.
THEOREM KeepsContractWithRefunds == Spec /\ []RefundsAlone => RefinesContract
<1>1. Init => Contract!Init /\ Unrefunded
  BY ContractInit, UnrefundedInit
<1>2. IInv /\ RefundsAlone /\ Unrefunded /\ [Next]_vars => Unrefunded'
  BY UnrefundedStep
<1>3. IInv /\ Unrefunded /\ [Next]_vars => [Contract!Next]_Contract!vars
  BY StepRefines
<1> QED BY <1>1, <1>2, <1>3, Invariance, PTL DEF Spec, RefinesContract, Contract!Spec

\* When every blinded message can be signed, they implement the contract in every
\* behaviour: one debit, one signature.
THEOREM KeepsContract ==
  ASSUME Messages \subseteq Signable
  PROVE  Spec => RefinesContract
<1>1. IInv => RefundsAlone
  BY NoRefundsAtAll
<1> QED BY <1>1, KeepsContractWithRefunds, Invariance, PTL

-----------------------------------------------------------------------------
(* Money *)

\* What account a holds, debits included, beyond what was paid into it.
Gain(a) == (balance[a] + SumFunctionOnSet(Taken(a), RequestIds)) - paidIn[a]

\* Nothing was paid into an account that does not exist.
Unopened == \A a \in AccountIds \ accounts : balance[a] = 0 /\ paidIn[a] = 0

\* The step refunds a record that is already compensated.
RefundsAgain ==
  \E p \in Procs : Compensate(p) /\ withdraw_states[job[p].id].state = "compensated"

\* What requests have taken are numbers of cents.
LEMMA TakenType ==
  ASSUME IInv, NEW a
  PROVE  /\ \A i \in RequestIds : Taken(a)[i] \in Int
         /\ SumFunctionOnSet(Taken(a), RequestIds) \in Int
<1>1. \A i \in RequestIds : Taken(a)[i] \in Int
  BY RequestType DEF IInv, RowsInv, Taken
<1> QED BY <1>1, SumType, FinitenessAssumption

LEMMA TakenPrimeType ==
  ASSUME IInv', NEW a
  PROVE  /\ \A i \in RequestIds : Taken(a)'[i] \in Int
         /\ SumFunctionOnSet(Taken(a)', RequestIds) \in Int
<1>1. PICK g : g = Taken(a)'
  OBVIOUS
<1>2. \A i \in RequestIds : g[i] \in Int
  BY <1>1, RequestType DEF IInv, RowsInv, Taken
<1> QED BY <1>1, <1>2, SumType, FinitenessAssumption

\* A step that writes one row moves the sum by what that row takes.
LEMMA TakenStep ==
  ASSUME IInv, IInv', NEW a, NEW i \in RequestIds,
         \A j \in RequestIds \ {i} : withdraw_states'[j] = withdraw_states[j]
  PROVE  /\ SumFunctionOnSet(Taken(a)', RequestIds) =
              SumFunctionOnSet(Taken(a), RequestIds) + (Taken(a)'[i] - Taken(a)[i])
         /\ SumFunctionOnSet(Taken(a), RequestIds) \in Int
         /\ SumFunctionOnSet(Taken(a)', RequestIds) \in Int
<1>1. PICK f : f = Taken(a)
  OBVIOUS
<1>2. PICK g : g = Taken(a)'
  OBVIOUS
<1>3. \A j \in RequestIds : f[j] \in Int
  BY <1>1, TakenType
<1>4. \A j \in RequestIds : g[j] \in Int
  BY <1>2, TakenPrimeType
<1>5. \A j \in RequestIds : j # i => f[j] = g[j]
  BY <1>1, <1>2 DEF Taken
<1>6. SumFunctionOnSet(g, RequestIds) = SumFunctionOnSet(f, RequestIds) + (g[i] - f[i])
  BY <1>3, <1>4, <1>5, SumUpdate, FinitenessAssumption
<1>7. SumFunctionOnSet(f, RequestIds) \in Int /\ SumFunctionOnSet(g, RequestIds) \in Int
  BY <1>3, <1>4, SumType, FinitenessAssumption
<1> QED BY <1>1, <1>2, <1>6, <1>7

\* A step that pays in as much as it credits changes nobody's gain.
LEMMA PayInGain ==
  ASSUME IInv, Unopened, NEW a \in AccountIds, NEW d \in Nat,
         CreateAccount(a, d) \/ DepositCredit(a, d)
  PROVE  Unopened' /\ \A c \in AccountIds : Gain(c)' = Gain(c)
<1>1. UNCHANGED withdraw_states /\ accounts' = accounts \cup {a}
  BY DEF CreateAccount, DepositCredit
<1>2. Unopened'
  BY <1>1 DEF Unopened, CreateAccount, DepositCredit, IInv, TypeOK
<1>3. ASSUME NEW c \in AccountIds
      PROVE  Gain(c)' = Gain(c)
  <2>1. Taken(c)' = Taken(c)
    BY <1>1 DEF Taken
  <2>2. PICK s \in Int : s = SumFunctionOnSet(Taken(c), RequestIds)
    BY TakenType
  <2>3. /\ balance[c] \in Nat /\ paidIn[c] \in Nat
        /\ balance[a] \in Nat /\ paidIn[a] \in Nat
    BY DEF IInv, TypeOK
  <2>4. CASE c # a
    <3>1. balance'[c] = balance[c] /\ paidIn'[c] = paidIn[c]
      BY <2>4 DEF CreateAccount, DepositCredit, IInv, TypeOK
    <3> QED BY <2>1, <3>1 DEF Gain
  <2>5. CASE c = a /\ CreateAccount(a, d)
    <3>1. balance'[c] = d /\ paidIn'[c] = d /\ balance[c] = 0 /\ paidIn[c] = 0
      BY <2>5 DEF CreateAccount, Unopened, IInv, TypeOK
    <3> QED BY <2>1, <2>2, <3>1 DEF Gain
  <2>6. CASE c = a /\ DepositCredit(a, d)
    <3>1. balance'[c] = balance[c] + d /\ paidIn'[c] = paidIn[c] + d
      BY <2>6 DEF DepositCredit, IInv, TypeOK
    <3> QED BY <2>1, <2>2, <2>3, <3>1 DEF Gain
  <2> QED BY <2>4, <2>5, <2>6
<1> QED BY <1>2, <1>3

\* The debit moves the denomination from the balance to the record.
LEMMA DebitGain ==
  ASSUME IInv, NEW h \in Handlers, DebitAndRecordPending(h), NEW a \in AccountIds
  PROVE  Gain(a)' = Gain(a)
<1>0. PICK r \in Requests : r = job[h]
  BY DEF DebitAndRecordPending, IInv, ProcsInv, Procs
<1>1. /\ r.id \in RequestIds /\ r.account \in AccountIds /\ r.denom \in Nat
      /\ UNCHANGED paidIn
  BY RequestType DEF DebitAndRecordPending
<1>2. CASE UNCHANGED <<balance, withdraw_states>>
  BY <1>1, <1>2 DEF Gain, Taken
<1>3. CASE /\ withdraw_states[r.id].state = "none"
           /\ balance' = [balance EXCEPT ![r.account] = balance[r.account] - r.denom]
           /\ withdraw_states' = [withdraw_states EXCEPT
                ![r.id] = [state |-> "pending", req |-> r, sig |-> NoSig]]
  <2>1. \A j \in RequestIds : withdraw_states'[j] =
          IF j = r.id THEN [state |-> "pending", req |-> r, sig |-> NoSig] ELSE withdraw_states[j]
    BY <1>1, <1>3 DEF IInv, TypeOK
  <2>2. Taken(a)[r.id] = 0 /\ Taken(a)'[r.id] = IF r.account = a THEN r.denom ELSE 0
    BY <1>1, <1>3, <2>1 DEF Taken
  <2>3. /\ SumFunctionOnSet(Taken(a)', RequestIds) =
             SumFunctionOnSet(Taken(a), RequestIds) + (Taken(a)'[r.id] - Taken(a)[r.id])
        /\ SumFunctionOnSet(Taken(a), RequestIds) \in Int
    BY <1>1, <2>1, TakenStep, DebitInv
  <2>4. balance[a] \in Nat /\ paidIn[a] \in Nat
        /\ balance'[a] = balance[a] - (IF r.account = a THEN r.denom ELSE 0)
    BY <1>1, <1>3 DEF IInv, TypeOK
  <2> QED BY <1>1, <2>2, <2>3, <2>4 DEF Gain
<1> QED BY <1>0, <1>2, <1>3 DEF DebitAndRecordPending

\* Signing and completing keep the debit of the record.
LEMMA SignGain ==
  ASSUME IInv, NEW p \in Procs, PersistSigned(p) \/ SetCompleted(p), NEW a \in AccountIds
  PROVE  Gain(a)' = Gain(a)
<1>0. PICK r \in Requests : r = job[p]
  BY DEF PersistSigned, SetCompleted, IInv, ProcsInv
<1>1. /\ r.id \in RequestIds
      /\ UNCHANGED <<balance, paidIn>>
      /\ withdraw_states[r.id].req = r
      /\ withdraw_states[r.id].state \in {"pending", "signed", "completed"}
  BY <1>0, RequestType DEF PersistSigned, SetCompleted, IInv, ProcsInv, RowsInv, TypeOK, States,
     Issued
<1>2. PICK s, g : SetRow(r.id, s, g) /\ s \in {"signed", "completed"}
  BY <1>0 DEF PersistSigned, SetCompleted
<1>3. \A j \in RequestIds : withdraw_states'[j] =
        IF j = r.id THEN [state |-> s, req |-> r, sig |-> g] ELSE withdraw_states[j]
  BY <1>1, <1>2 DEF SetRow, IInv, TypeOK
<1>4. Taken(a)' = Taken(a)
  <2>1. ASSUME NEW j \in RequestIds PROVE Taken(a)'[j] = Taken(a)[j]
    BY <1>1, <1>2, <1>3 DEF Taken
  <2> QED BY <2>1 DEF Taken
<1> QED BY <1>1, <1>4 DEF Gain

\* A refund moves the denomination back from the record, and when another
\* process has refunded the record before, it creates it.
LEMMA CompensateGain ==
  ASSUME IInv, NEW p \in Procs, Compensate(p), NEW a \in AccountIds
  PROVE  Gain(a)' >= Gain(a) /\ (~RefundsAgain => Gain(a)' = Gain(a))
<1>0. PICK r \in Requests : r = job[p]
  BY DEF Compensate, IInv, ProcsInv
<1>1. /\ r.id \in RequestIds /\ r.account \in AccountIds /\ r.denom \in Nat
      /\ UNCHANGED paidIn
      /\ withdraw_states[r.id].req = r
      /\ withdraw_states[r.id].state \in {"pending", "compensated"}
  BY <1>0, RequestType DEF Compensate, IInv, ProcsInv, RowsInv, TypeOK, States, Issued
<1>2. PICK s \in Int : s = SumFunctionOnSet(Taken(a), RequestIds)
  BY TakenType
<1>3. balance[a] \in Nat /\ paidIn[a] \in Nat
  BY DEF IInv, TypeOK
<1>4. CASE UNCHANGED <<balance, withdraw_states>>
  <2>1. Gain(a)' = Gain(a)
    BY <1>1, <1>4 DEF Gain, Taken
  <2>2. Gain(a) \in Int
    BY <1>2, <1>3 DEF Gain
  <2> QED BY <2>1, <2>2
<1>5. CASE /\ balance' = [balance EXCEPT ![r.account] = balance[r.account] + r.denom]
           /\ SetRow(r.id, "compensated", withdraw_states[r.id].sig)
  <2>1. \A j \in RequestIds : j # r.id => withdraw_states'[j] = withdraw_states[j]
    BY <1>1, <1>5 DEF SetRow, IInv, TypeOK
  <2>2. withdraw_states'[r.id].state = "compensated"
    BY <1>1, <1>5 DEF SetRow, IInv, TypeOK
  <2>3. PICK d \in Nat : d = IF r.account = a THEN r.denom ELSE 0
    BY <1>1
  <2>4. PICK t \in {0, d} : t = Taken(a)[r.id]
    BY <1>1, <2>3 DEF Taken
  <2>5. Taken(a)'[r.id] = 0
    BY <1>1, <2>2 DEF Taken
  <2>6. SumFunctionOnSet(Taken(a)', RequestIds) = s + (0 - t)
    BY <1>1, <1>2, <2>1, <2>4, <2>5, TakenStep, CompensateInv
  <2>7. balance'[a] = balance[a] + d
    BY <1>1, <1>5, <2>3 DEF IInv, TypeOK
  <2>8. ~RefundsAgain => t = d
    BY <1>0, <1>1, <2>3, <2>4 DEF RefundsAgain, Taken
  <2>9. /\ Gain(a) = (balance[a] + s) - paidIn[a]
        /\ Gain(a)' = ((balance[a] + d) + (s + (0 - t))) - paidIn[a]
    BY <1>1, <1>2, <2>6, <2>7 DEF Gain
  <2>10. CASE t = d
    BY <1>2, <1>3, <2>3, <2>9, <2>10
  <2>11. CASE t = 0
    BY <1>2, <1>3, <2>3, <2>8, <2>9, <2>11
  <2> QED BY <2>4, <2>10, <2>11
<1> QED BY <1>0, <1>4, <1>5 DEF Compensate

\* No step takes anything from a customer, and only a second refund gives.
LEMMA GainStep ==
  ASSUME IInv, Unopened, [Next]_vars
  PROVE  /\ Unopened'
         /\ \A a \in AccountIds : /\ Gain(a)' >= Gain(a)
                                  /\ ~RefundsAgain => Gain(a)' = Gain(a)
<1> DEFINE Same == Unopened' /\ \A a \in AccountIds : Gain(a)' = Gain(a)
           Goal == /\ Unopened'
                   /\ \A a \in AccountIds : /\ Gain(a)' >= Gain(a)
                                            /\ ~RefundsAgain => Gain(a)' = Gain(a)
<1>1. ASSUME Same PROVE Goal
  <2>1. \A a \in AccountIds : Gain(a) \in Int
    BY TakenType DEF Gain, IInv, TypeOK
  <2> QED BY <1>1, <2>1
<1>2. ASSUME UNCHANGED <<accounts, balance, withdraw_states, paidIn>> PROVE Goal
  <2>1. Same
    BY <1>2 DEF Unopened, Gain, Taken
  <2> QED BY <1>1, <2>1
<1>3. ASSUME UNCHANGED <<accounts, paidIn>>, \A a \in AccountIds \ accounts : balance'[a] = balance[a]
      PROVE  Unopened'
  BY <1>3 DEF Unopened
<1>4. ASSUME NEW p \in Procs, PersistSigned(p) \/ SetCompleted(p) PROVE Goal
  <2>1. Unopened'
    BY <1>3, <1>4 DEF PersistSigned, SetCompleted
  <2> QED BY <1>1, <1>4, <2>1, SignGain
<1>5. ASSUME NEW p \in Procs, Compensate(p) PROVE Goal
  <2>1. job[p] \in Requests /\ job[p].account \in accounts
    BY <1>5, RequestType DEF Compensate, IInv, ProcsInv, RowsInv
  <2>2. Unopened'
    BY <1>3, <1>5, <2>1 DEF Compensate, IInv, TypeOK
  <2> QED BY <1>5, <2>2, CompensateGain
<1>6. ASSUME NEW p \in Procs, Work(p) PROVE Goal
  BY <1>4, <1>5, <1>6 DEF Work
<1>7. ASSUME NEW h \in Handlers, DebitAndRecordPending(h) PROVE Goal
  <2>1. Unopened'
    BY <1>3, <1>7 DEF DebitAndRecordPending, IInv, TypeOK
  <2> QED BY <1>1, <1>7, <2>1, DebitGain
<1>8. ASSUME NEW h \in Handlers, Handle(h) \/ Cancel(h) PROVE Goal
  BY <1>2, <1>6, <1>7, <1>8 DEF Handle, Cancel, db, Procs
<1>9. ASSUME Recover PROVE Goal
  BY <1>2, <1>6, <1>9 DEF Recover, Restart, RecoverNext, RecoverDone, db, Procs
<1>10. ASSUME NEW a \in AccountIds, NEW d \in Nat, CreateAccount(a, d) \/ DepositCredit(a, d)
       PROVE  Goal
  BY <1>1, <1>10, PayInGain
<1>11. ASSUME \/ \E h \in Handlers : \E r \in Requests : Withdraw(h, r)
              \/ \E p \in Procs : DbError(p)
              \/ Crash
              \/ UNCHANGED vars
       PROVE  Goal
  BY <1>2, <1>11 DEF Withdraw, DbError, Crash, db, vars
<1>12. InitialBalances \subseteq Nat /\ DepositAmounts \subseteq Nat
  BY ConstantsAssumption
<1>13. ASSUME NEW a \in AccountIds, NEW b \in InitialBalances, CreateAccount(a, b) PROVE Goal
  <2>1. b \in Nat
    BY <1>12
  <2> HIDE DEF Goal
  <2> QED BY <1>10, <1>13, <2>1
<1>14. ASSUME NEW a \in AccountIds, NEW d \in DepositAmounts, DepositCredit(a, d) PROVE Goal
  <2>1. d \in Nat
    BY <1>12
  <2> HIDE DEF Goal
  <2> QED BY <1>10, <1>14, <2>1
<1>15. Goal
  <2> HIDE DEF Goal
  <2>1. CASE Next
    BY <1>8, <1>9, <1>11, <1>13, <1>14, <2>1 DEF Next
  <2>2. CASE UNCHANGED vars
    BY <1>11, <2>2 DEF Goal
  <2> QED BY <2>1, <2>2
<1> QED BY <1>15

\* At the start no account holds anything.
LEMMA GainInit ==
  ASSUME Init
  PROVE  Unopened /\ \A a \in AccountIds : Gain(a) = 0
<1>1. ASSUME NEW a \in AccountIds PROVE Gain(a) = 0
  <2>1. \A i \in RequestIds : Taken(a)[i] = 0
    BY DEF Init, NoRow, Taken
  <2>2. SumFunctionOnSet(Taken(a), RequestIds) = 0
    BY <2>1, SumZero, FinitenessAssumption
  <2> QED BY <2>2 DEF Init, Gain
<1> QED BY <1>1 DEF Init, Unopened

\* The two properties in terms of the gain.
LEMMA GainMeaning ==
  ASSUME IInv
  PROVE  /\ MoneyConserved <=> \A a \in AccountIds : Gain(a) = 0
         /\ NothingLost <=> \A a \in AccountIds : Gain(a) >= 0
<1>1. ASSUME NEW a \in AccountIds
      PROVE  /\ balance[a] \in Int /\ paidIn[a] \in Int
             /\ SumFunctionOnSet(Taken(a), RequestIds) \in Int
  BY TakenType DEF IInv, TypeOK
<1>2. ASSUME NEW a \in AccountIds
      PROVE  /\ paidIn[a] = balance[a] + SumFunctionOnSet(Taken(a), RequestIds) <=> Gain(a) = 0
             /\ paidIn[a] <= balance[a] + SumFunctionOnSet(Taken(a), RequestIds) <=> Gain(a) >= 0
  BY <1>1 DEF Gain
<1>3. MoneyConserved <=> \A a \in AccountIds : Gain(a) = 0
  BY <1>2 DEF MoneyConserved
<1>4. NothingLost <=> \A a \in AccountIds : Gain(a) >= 0
  BY <1>2 DEF NothingLost
<1> QED BY <1>3, <1>4

\* A customer never loses money: whatever handlers, retries, crashes and
\* recoveries do, every cent paid in is in the balance or in a record that holds
\* its debit.
THEOREM CustomersLoseNothing == Spec => []NothingLost
<1>1. IInv /\ Init => Unopened /\ NothingLost
  <2> SUFFICES ASSUME IInv, Init PROVE Unopened /\ NothingLost
    OBVIOUS
  <2>1. \A a \in AccountIds : Gain(a) >= 0
    BY GainInit
  <2> QED BY <2>1, GainInit, GainMeaning
<1>2. IInv /\ IInv' /\ Unopened /\ NothingLost /\ [Next]_vars => Unopened' /\ NothingLost'
  <2> SUFFICES ASSUME IInv, IInv', Unopened, NothingLost, [Next]_vars
               PROVE  Unopened' /\ NothingLost'
    OBVIOUS
  <2>1. ASSUME NEW a \in AccountIds
        PROVE  paidIn'[a] <= balance'[a] + SumFunctionOnSet(Taken(a)', RequestIds)
    <3>1. Gain(a)' >= Gain(a) /\ Gain(a) >= 0
      BY GainStep, GainMeaning
    <3>2. /\ balance[a] \in Int /\ paidIn[a] \in Int /\ balance'[a] \in Int /\ paidIn'[a] \in Int
          /\ SumFunctionOnSet(Taken(a), RequestIds) \in Int
          /\ SumFunctionOnSet(Taken(a)', RequestIds) \in Int
      BY TakenType, TakenPrimeType DEF IInv, TypeOK
    <3> QED BY <3>1, <3>2 DEF Gain
  <2> QED BY <2>1, GainStep DEF NothingLost
<1> QED BY <1>1, <1>2, Invariance, PTL DEF Spec

\* Money is neither made nor lost in any behaviour in which one request is
\* refunded by one process at a time: the double refund is the only leak.
THEOREM SingleRefundsConserveMoney == Spec /\ []RefundsAlone => []MoneyConserved
<1>1. IInv /\ Init => Unopened /\ Unrefunded /\ MoneyConserved
  BY GainInit, GainMeaning, UnrefundedInit
<1>2. IInv /\ IInv' /\ RefundsAlone /\ Unopened /\ Unrefunded /\ MoneyConserved /\ [Next]_vars
        => Unopened' /\ Unrefunded' /\ MoneyConserved'
  <2> SUFFICES ASSUME IInv, IInv', RefundsAlone, Unopened, Unrefunded, MoneyConserved,
                      [Next]_vars
               PROVE  Unopened' /\ Unrefunded' /\ MoneyConserved'
    OBVIOUS
  <2>1. ~RefundsAgain
    BY DEF RefundsAgain, Compensate, Unrefunded
  <2>2. ASSUME NEW a \in AccountIds
        PROVE  paidIn'[a] = balance'[a] + SumFunctionOnSet(Taken(a)', RequestIds)
    <3>1. Gain(a)' = 0
      BY <2>1, GainStep, GainMeaning
    <3>2. /\ balance'[a] \in Int /\ paidIn'[a] \in Int
          /\ SumFunctionOnSet(Taken(a)', RequestIds) \in Int
      BY TakenPrimeType DEF IInv, TypeOK
    <3> QED BY <3>1, <3>2 DEF Gain
  <2> QED BY <2>2, GainStep, UnrefundedStep DEF MoneyConserved
<1> QED BY <1>1, <1>2, Invariance, PTL DEF Spec

\* When every blinded message can be signed, money is conserved at every instant
\* of every behaviour, crashes and recoveries included.
THEOREM WithdrawalsConserveMoney ==
  ASSUME Messages \subseteq Signable
  PROVE  Spec => []MoneyConserved
<1>1. IInv => RefundsAlone
  BY NoRefundsAtAll
<1> QED BY <1>1, SingleRefundsConserveMoney, Invariance, PTL
=============================================================================
