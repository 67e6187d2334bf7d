------------------------------ MODULE Registry ------------------------------
(***************************************************************************)
(* The shared registry of member banks (digicash-registry): the spent      *)
(* serials with their transcripts, exposure caps, receivables and their    *)
(* settlement (registry.rs, submit_serial, settle, set_cap and             *)
(* register_member).                                                       *)
(*                                                                         *)
(* submit_serial and settle run as the statements of READ COMMITTED        *)
(* transactions, like commit_deposit in BankDeposit: writes are visible    *)
(* from the commit on, and an insert or update of a key another open       *)
(* transaction has written waits for it.  Plain SELECTs do not wait.       *)
(***************************************************************************)
EXTENDS Integers, FiniteSets

CONSTANTS Banks,
          Admin,        \* the bank seeded as governance admin
          Coins,        \* (denomination, scheme, serial) triples
          Issuer(_),    \* the issuing bank a submission reports: what the
                        \* client of its bank is configured with
          Value(_),     \* a coin's denomination in cents
          MaxValue,     \* the largest denomination
          Submitters,   \* handlers of POST /serials that may run at once
          Settlers,     \* handlers of POST /settle that may run at once
          CapValues,    \* caps the admin sets
          MaxAmount,    \* i64::MAX, the largest BIGINT
          NoCap, NoJob, NoBank

ASSUME ConstantsAssumption ==
  /\ Admin \in Banks
  /\ \A j \in [bank : Banks, coin : Coins] : Issuer(j) \in Banks
  /\ MaxValue \in Nat /\ \A c \in Coins : Value(c) \in 1..MaxValue
  /\ MaxAmount \in Nat
  /\ CapValues \subseteq 0..MaxAmount
  /\ NoCap \notin Nat
  /\ NoBank \notin Banks
  /\ NoJob \notin [bank : Banks, coin : Coins]

\* A server has finitely many handlers.
ASSUME HandlersAssumption == IsFiniteSet(Submitters)

Procs == Submitters \cup Settlers
Pairs == Banks \X Banks      \* <<issuing bank, depositing bank>>
Jobs  == [bank : Banks, coin : Coins]
Replies == [job : Jobs, outcome : {"Accepted", "DoubleSpend", "ExposureCapExceeded"},
            transcripts : SUBSET Jobs]
Zero  == [p \in Pairs |-> 0]

\* A DELETE of several rows: those it has still to visit, the one it is at (none
\* or one), and those it has locked.
Scans == [todo : SUBSET Pairs, at : SUBSET Pairs, taken : SUBSET Pairs]
NoScan == [todo |-> {}, at |-> {}, taken |-> {}]

VARIABLES
  members,      \* table members
  caps,         \* table exposure_caps: a cap or NoCap
  serials,      \* table serials: first_bank_id of a coin, or NoBank
  transcripts,  \* table transcripts: [bank, coin]
  receivables,  \* table receivables: amount_cents, 0 where there is no row
  claims,       \* settlement_claims, summed per pair
  stage,        \* what each handler does next
  job,          \* the submission it handles
  limit,        \* the cap it read
  amounts,      \* the receivables a settlement read
  scan,         \* how far its DELETE is
  replies,      \* answers to submissions, [job, outcome, transcripts]
  owed,         \* history: accepted value per pair
  letIn,        \* history: the caps, or NoCap, that submissions were let past
  raced         \* history: pairs another commit wrote during a settlement

db   == <<members, caps, serials, transcripts, receivables, claims>>
mem  == <<stage, job, limit, amounts, scan>>
history == <<owed, letIn, raced>>
vars == <<members, caps, serials, transcripts, receivables, claims, stage, job,
          limit, amounts, scan, replies, owed, letIn, raced>>

Init ==
  /\ members = {Admin}
  /\ caps = [p \in Pairs |-> NoCap]
  /\ serials = [c \in Coins |-> NoBank]
  /\ transcripts = {}
  /\ receivables = Zero
  /\ claims = Zero
  /\ stage = [h \in Procs |-> "idle"]
  /\ job = [h \in Procs |-> NoJob]
  /\ limit = [h \in Procs |-> NoCap]
  /\ amounts = [h \in Procs |-> Zero]
  /\ scan = [h \in Procs |-> NoScan]
  /\ replies = {}
  /\ owed = Zero
  /\ letIn = [p \in Pairs |-> {}]
  /\ raced = {}

-----------------------------------------------------------------------------
Goto(h, s) == stage' = [stage EXCEPT ![h] = s]

\* The handler is done; an open transaction is dropped and rolls back.
Finish(h) ==
  /\ stage' = [stage EXCEPT ![h] = "idle"]
  /\ job' = [job EXCEPT ![h] = NoJob]
  /\ limit' = [limit EXCEPT ![h] = NoCap]
  /\ amounts' = [amounts EXCEPT ![h] = Zero]
  /\ scan' = [scan EXCEPT ![h] = NoScan]

Reply(h, outcome, entries) ==
  /\ replies' = replies \cup {[job |-> job[h], outcome |-> outcome, transcripts |-> entries]}
  /\ Finish(h)

PairOf(j) == <<Issuer(j), j.bank>>

\* What the open transactions hold.
SerialLocked(c) == \E h \in Submitters : stage[h] \in {"receivable", "accept"} /\ job[h].coin = c
RowLocked(p) ==
  \/ \E h \in Submitters : stage[h] = "accept" /\ PairOf(job[h]) = p
  \/ \E h \in Settlers : p \in scan[h].taken

\* A settlement that has read the receivables and not ended.
InSettlement(h) == stage[h] \in {"delete", "scan"}

\* The commit of h writes the rows of ps, which an open settlement has read.
NoteRace(h, ps) ==
  raced' = IF \E g \in Settlers \ {h} : InSettlement(g) THEN raced \cup ps ELSE raced

-----------------------------------------------------------------------------
\* member_pubkey: there is a key for the bank.
HasMemberKey(b) == b \in members

\* The signature of a request verifies under the key that members holds for
\* its bank; the timestamp and the nonce are checked as in RequestAuth.
Authenticated(b) == HasMemberKey(b)

\* is_admin: the flag of the bank's row, which only the seeding of main sets.
IsAdmin(b) == b \in members /\ b = Admin

\* Governance requests are the admin's; another caller's is forbidden.
EnsureAdmin(b) == Authenticated(b) /\ IsAdmin(b)

\* register_member; a bank that is a member is refused.
RegisterMember(caller, b) ==
  /\ EnsureAdmin(caller)
  /\ b \notin members
  /\ members' = members \cup {b}
  /\ UNCHANGED <<caps, serials, transcripts, receivables, claims, mem, replies, history>>

\* set_cap sets or replaces the cap of a pair.
SetCap(caller, p, v) ==
  /\ EnsureAdmin(caller)
  /\ caps' = [caps EXCEPT ![p] = v]
  /\ UNCHANGED <<members, serials, transcripts, receivables, claims, mem, replies, history>>

\* submit_serial by a member: the transaction begins and the cap is read.
ReadCap(h, j) ==
  /\ stage[h] = "idle"
  /\ Authenticated(j.bank)
  /\ job' = [job EXCEPT ![h] = j]
  /\ limit' = [limit EXCEPT ![h] = caps[PairOf(j)]]
  /\ Goto(h, "exposure")
  /\ UNCHANGED <<db, amounts, scan, replies, history>>

\* Wrong variant: a receivable equal to the cap is still accepted.
CheckExposureStrict(h) ==
  LET p == PairOf(job[h]) IN
  /\ stage[h] = "exposure"
  /\ \/ /\ limit[h] # NoCap
        /\ receivables[p] > limit[h]
        /\ Reply(h, "ExposureCapExceeded", {})
        /\ UNCHANGED letIn
     \/ /\ limit[h] # NoCap => receivables[p] <= limit[h]
        /\ Goto(h, "serial")
        /\ letIn' = [letIn EXCEPT ![p] = letIn[p] \cup {limit[h]}]
        /\ UNCHANGED <<job, limit, amounts, scan, replies>>
  /\ UNCHANGED <<db, owed, raced>>

\* The outstanding receivable is read without a lock; at the cap the deposit
\* is refused and nothing, not even the transcript, is written.
CheckExposure(h) ==
  LET p == PairOf(job[h]) IN
  /\ stage[h] = "exposure"
  /\ \/ /\ limit[h] # NoCap
        /\ receivables[p] >= limit[h]
        /\ Reply(h, "ExposureCapExceeded", {})
        /\ UNCHANGED letIn
     \/ /\ limit[h] # NoCap => receivables[p] < limit[h]
        /\ Goto(h, "serial")
        /\ letIn' = [letIn EXCEPT ![p] = letIn[p] \cup {limit[h]}]
        /\ UNCHANGED <<job, limit, amounts, scan, replies>>
  /\ UNCHANGED <<db, owed, raced>>

\* Wrong variant: the insert does not wait for an uncommitted one.
InsertSerialUnlocked(h) ==
  /\ stage[h] = "serial"
  /\ Goto(h, IF serials[job[h].coin] = NoBank THEN "receivable" ELSE "collide")
  /\ UNCHANGED <<db, job, limit, amounts, scan, replies, history>>

\* Wrong variant: a serial that is taken is tried again in the transaction.
InsertSerialRetries(h) ==
  /\ stage[h] = "serial"
  /\ ~SerialLocked(job[h].coin)
  /\ serials[job[h].coin] = NoBank
  /\ Goto(h, "receivable")
  /\ UNCHANGED <<db, job, limit, amounts, scan, replies, history>>

\* INSERT INTO transcripts, then INSERT INTO serials ... ON CONFLICT DO NOTHING,
\* which waits for an uncommitted insert of the serial.
InsertSerial(h) ==
  /\ stage[h] = "serial"
  /\ ~SerialLocked(job[h].coin)
  /\ Goto(h, IF serials[job[h].coin] = NoBank THEN "receivable" ELSE "collide")
  /\ UNCHANGED <<db, job, limit, amounts, scan, replies, history>>

\* Wrong variant: the sum is not limited to the column's range.
AddReceivableUnbounded(h) ==
  /\ stage[h] = "receivable"
  /\ ~RowLocked(PairOf(job[h]))
  /\ Goto(h, "accept")
  /\ UNCHANGED <<db, job, limit, amounts, scan, replies, history>>

\* The upsert of the receivable waits for its row; a sum past i64::MAX is an
\* SQL error and rolls back.
AddReceivable(h) ==
  LET p == PairOf(job[h]) IN
  /\ stage[h] = "receivable"
  /\ ~RowLocked(p)
  /\ IF receivables[p] + Value(job[h].coin) > MaxAmount
       THEN Finish(h)
       ELSE Goto(h, "accept") /\ UNCHANGED <<job, limit, amounts, scan>>
  /\ UNCHANGED <<db, replies, history>>

\* COMMIT of a fresh serial: serial, transcript and receivable together.
CommitAccepted(h) ==
  LET j == job[h]
      p == PairOf(j) IN
  /\ stage[h] = "accept"
  /\ serials' = [serials EXCEPT ![j.coin] = j.bank]
  /\ transcripts' = transcripts \cup {j}
  /\ receivables' = [receivables EXCEPT ![p] = receivables[p] + Value(j.coin)]
  /\ Reply(h, "Accepted", {})
  /\ owed' = [owed EXCEPT ![p] = owed[p] + Value(j.coin)]
  /\ NoteRace(h, {p})
  /\ UNCHANGED <<members, caps, claims, letIn>>

\* Wrong variant: the transcripts are read before the own one is written.
CommitCollisionReadsFirst(h) ==
  LET j == job[h] IN
  /\ stage[h] = "collide"
  /\ transcripts' = transcripts \cup {j}
  /\ Reply(h, "DoubleSpend", {t \in transcripts : t.coin = j.coin})
  /\ UNCHANGED <<members, caps, serials, receivables, claims, history>>

\* Wrong variant: a collision is answered without the commit.
CommitCollisionRollsBack(h) ==
  LET j == job[h] IN
  /\ stage[h] = "collide"
  /\ Reply(h, "DoubleSpend", {t \in transcripts \cup {j} : t.coin = j.coin})
  /\ UNCHANGED <<db, history>>

\* A collision: every transcript of the serial is returned, the own one
\* included, which the commit keeps.
CommitCollision(h) ==
  LET j == job[h] IN
  /\ stage[h] = "collide"
  /\ transcripts' = transcripts \cup {j}
  /\ Reply(h, "DoubleSpend", {t \in transcripts \cup {j} : t.coin = j.coin})
  /\ UNCHANGED <<members, caps, serials, receivables, claims, history>>

-----------------------------------------------------------------------------
\* settle reads the receivables, without locks ...
SettleRead(caller, h) ==
  /\ EnsureAdmin(caller)
  /\ stage[h] = "idle"
  /\ Goto(h, "delete")
  /\ amounts' = [amounts EXCEPT ![h] = receivables]
  /\ UNCHANGED <<db, job, limit, scan, replies, history>>

\* ... and DELETE FROM receivables takes the rows that are committed when it
\* starts ...
SettleDelete(h) ==
  /\ stage[h] = "delete"
  /\ Goto(h, "scan")
  /\ scan' = [scan EXCEPT ![h].todo = {p \in Pairs : receivables[p] > 0}]
  /\ UNCHANGED <<db, job, limit, amounts, replies, history>>

\* ... one after the other, in the order they lie in the table, which is not the
\* same for two statements: an update moves a row ...
SettleVisit(h) ==
  \E p \in scan[h].todo :
    /\ stage[h] = "scan"
    /\ scan[h].at = {}
    /\ scan' = [scan EXCEPT ![h].todo = @ \ {p}, ![h].at = {p}]
    /\ UNCHANGED <<db, stage, job, limit, amounts, replies, history>>

\* ... and locks each, keeping the locks it has while it waits for one another
\* transaction holds.
SettleLock(h) ==
  /\ stage[h] = "scan"
  /\ scan[h].at # {}
  /\ \A p \in scan[h].at : ~RowLocked(p)
  /\ scan' = [scan EXCEPT ![h].at = {}, ![h].taken = @ \cup scan[h].at]
  /\ UNCHANGED <<db, stage, job, limit, amounts, replies, history>>

\* Wrong variant: the difference is claimed in both directions.
NetSigned(a, p) == a[p] - a[<<p[2], p[1]>>]

\* A pair's net: what the issuer's side owes beyond the reverse direction.
Net(a, p) == IF a[p] > a[<<p[2], p[1]>>] THEN a[p] - a[<<p[2], p[1]>>] ELSE 0

\* Wrong variant: the receivables are not cleared.
SettleCommitKeeps(h) ==
  /\ stage[h] = "scan"
  /\ scan[h].todo = {} /\ scan[h].at = {}
  /\ claims' = [p \in Pairs |-> claims[p] + Net(amounts[h], p)]
  /\ Finish(h)
  /\ UNCHANGED <<members, caps, serials, transcripts, receivables, replies, history>>

\* COMMIT, once the DELETE has been through: one claim per pair of banks with a
\* net, in the direction of the net, and the rows are gone, for a DELETE that
\* had still to visit them or waits for them too.
SettleCommit(h) ==
  LET gone == scan[h].taken IN
  /\ stage[h] = "scan"
  /\ scan[h].todo = {} /\ scan[h].at = {}
  /\ claims' = [p \in Pairs |-> claims[p] + Net(amounts[h], p)]
  /\ receivables' = [p \in Pairs |-> IF p \in gone THEN 0 ELSE receivables[p]]
  /\ stage' = [stage EXCEPT ![h] = "idle"]
  /\ amounts' = [amounts EXCEPT ![h] = Zero]
  /\ scan' = [g \in Procs |->
       IF g = h THEN NoScan
       ELSE [scan[g] EXCEPT !.todo = @ \ gone, !.at = @ \ gone]]
  /\ NoteRace(h, gone)
  /\ UNCHANGED <<members, caps, serials, transcripts, job, limit, replies, owed, letIn>>

\* An SQL or pool error, a client that goes away, or a crash: rollback.
Abort(h) ==
  /\ stage[h] # "idle"
  /\ Finish(h)
  /\ UNCHANGED <<db, replies, history>>

Submit(h) ==
  \/ CheckExposure(h) \/ InsertSerial(h) \/ AddReceivable(h)
  \/ CommitAccepted(h) \/ CommitCollision(h)

Settle(h) == SettleDelete(h) \/ SettleVisit(h) \/ SettleLock(h) \/ SettleCommit(h)

Next ==
  \/ \E caller, b \in Banks : RegisterMember(caller, b)
  \/ \E caller \in Banks, p \in Pairs : \E v \in CapValues : SetCap(caller, p, v)
  \/ \E h \in Submitters : \E j \in Jobs : ReadCap(h, j)
  \/ \E h \in Submitters : Submit(h)
  \/ \E h \in Settlers : Settle(h) \/ \E caller \in Banks : SettleRead(caller, h)
  \/ \E h \in Procs : Abort(h)

Spec == Init /\ [][Next]_vars

\* The DELETE of g waits for a row that the one of h has locked.
WaitsFor(g, h) == scan[g].at \cap scan[h].taken # {}

\* h waits in a circle.
InCircle(h) ==
  \E S \in SUBSET Settlers :
    /\ h \in S
    /\ \A g \in S : (\E k \in S : WaitsFor(g, k)) /\ (\E k \in S : WaitsFor(k, g))

\* As in BankDeposit: handlers are polled, lock queues are first come first
\* served.  Postgres looks for circles (deadlock_timeout) and fails the statement
\* of a transaction in one.
Fairness ==
  \A h \in Procs : SF_vars(Submit(h) \/ Settle(h)) /\ WF_vars(InCircle(h) /\ Abort(h))

FairSpec == Spec /\ Fairness

-----------------------------------------------------------------------------
(* Properties *)

\* The tables and the handlers' memory hold values of their types.
TypeOK ==
  /\ members \subseteq Banks
  /\ caps \in [Pairs -> CapValues \cup {NoCap}]
  /\ serials \in [Coins -> Banks \cup {NoBank}]
  /\ transcripts \subseteq Jobs
  /\ receivables \in [Pairs -> 0..MaxAmount]
  /\ claims \in [Pairs -> Nat]
  /\ stage \in [Procs -> {"idle", "exposure", "serial", "receivable", "accept",
                          "collide", "delete", "scan"}]
  /\ job \in [Procs -> Jobs \cup {NoJob}]
  /\ limit \in [Procs -> CapValues \cup {NoCap}]
  /\ amounts \in [Procs -> [Pairs -> Nat]]
  /\ scan \in [Procs -> Scans]
  /\ replies \subseteq Replies
  /\ owed \in [Pairs -> Nat]
  /\ letIn \in [Pairs -> SUBSET (CapValues \cup {NoCap})]
  /\ raced \subseteq Pairs

\* Answers tell the truth, however many submit at the same time: only the bank
\* recorded as the first depositor is ever told that the serial was fresh, and
\* "on a serial collision both banks' digests are here" (0001_initial_schema.sql of
\* the registry): a DoubleSpend answer holds the transcript of the first
\* depositor and the one of the submission it answers.
RepliesAreTrue ==
  \A x \in replies :
    /\ x.outcome = "Accepted" => serials[x.job.coin] = x.job.bank
    /\ x.outcome = "DoubleSpend" =>
         /\ x.job \in x.transcripts
         /\ [bank |-> serials[x.job.coin], coin |-> x.job.coin] \in x.transcripts

\* The evidence outlives the answer: the transcript of every submission that was
\* answered is on record, a double spend's too, although it is rejected; the one
\* exception is a refusal at the cap, which rolls back ("reject before recording
\* anything", registry.rs, submit_serial), even of a coin that is spent already.
EvidenceKept ==
  \A x \in replies : x.job \in transcripts \/ x.outcome = "ExposureCapExceeded"

\* Per pair of banks, the net of what was accepted is the net outstanding plus
\* the net claimed.
Balanced(p) ==
  LET q == <<p[2], p[1]>> IN
  owed[p] - owed[q] = (receivables[p] - receivables[q]) + (claims[p] - claims[q])

\* "accumulated at deposit and reset at settlement" (0001_initial_schema.sql of the
\* registry): every accepted coin is in a receivable or in a claim.
SettlementConserves == \A p \in Pairs : Balanced(p)

\* Where that can fail: only for two banks whose receivable another transaction
\* has written between the SELECT of a settlement and its end.  Whatever else
\* runs beside settlements, is rolled back or waits for their rows, the claims
\* of all other banks are exact.
OnlyRacesLose ==
  \A p \in Pairs : {p, <<p[2], p[1]>>} \cap raced = {} => Balanced(p)

\* "The receivables are then cleared, so an immediate re-run nets nothing
\* (idempotent)" (registry.rs, settle): no more is claimed than was accepted,
\* again unless the receivable was written during a settlement, by a second one
\* for example.
OnlyRacesClaimTwice == \A p \in Pairs \ raced : claims[p] <= owed[p]

\* "if a cap is set and the outstanding receivable has reached it, reject"
\* (registry.rs, submit_serial): the receivable is read without a lock, so
\* submissions pass the check together.  How far that can go: the receivable
\* stays below a cap one of them was compared with, plus one coin per handler.
OvershootBounded ==
  \A p \in Pairs :
    receivables[p] > 0 /\ NoCap \notin letIn[p] =>
      \E v \in letIn[p] : receivables[p] < v + Cardinality(Submitters) * MaxValue

\* A submission or settlement that has begun ends: whoever waits gets its row, or
\* is in a circle of settlements, which is broken.
HandlersEnd == \A h \in Procs : stage[h] # "idle" ~> stage[h] = "idle"
=============================================================================
