--------------------------- MODULE RegistryProofs ---------------------------
(***************************************************************************)
(* Proofs about Registry, for any banks, coins, caps and number of         *)
(* concurrent submissions and settlements.                                 *)
(***************************************************************************)
EXTENDS Registry, FiniteSetTheorems, TLAPS

Submitting == {"exposure", "serial", "receivable", "accept", "collide"}
Settling   == {"delete", "scan"}
Inserted   == {"receivable", "accept"}   \* holds its insert of the serial

\* What a handler between two of its statements may rely on: no other
\* transaction has committed its serial since the insert, none ever takes a
\* serial back, and the sum it has written fits.
HandlersInv ==
  \A h \in Procs :
    /\ stage[h] \in Submitting => h \in Submitters /\ job[h] \in Jobs
    /\ stage[h] \in Settling => h \in Settlers
    /\ stage[h] \in Inserted => serials[job[h].coin] = NoBank
    /\ stage[h] = "collide" => serials[job[h].coin] # NoBank
    /\ stage[h] = "accept" =>
         receivables[PairOf(job[h])] + Value(job[h].coin) <= MaxAmount

\* What the rows' locks give: one open insert per serial, one open update per
\* receivable.
LocksInv ==
  /\ \A g, h \in Procs :
       stage[g] \in Inserted /\ stage[h] \in Inserted /\ job[g].coin = job[h].coin => g = h
  /\ \A g, h \in Procs :
       stage[g] = "accept" /\ stage[h] = "accept" /\ PairOf(job[g]) = PairOf(job[h]) => g = h

\* The first depositor's transcript is on record.
TranscriptsInv ==
  \A c \in Coins : serials[c] # NoBank => [bank |-> serials[c], coin |-> c] \in transcripts

IInv ==
  /\ TypeOK
  /\ HandlersInv
  /\ LocksInv
  /\ TranscriptsInv
  /\ RepliesAreTrue
  /\ EvidenceKept

-----------------------------------------------------------------------------
(* The operators of the model *)

\* A submission names a pair of banks and a coin with a value: the row of
\* receivables that submit_serial charges always exists as a key.
LEMMA PairOfType ==
  ASSUME NEW j \in Jobs
  PROVE  /\ PairOf(j) \in Pairs
         /\ j.coin \in Coins /\ j.bank \in Banks
         /\ Value(j.coin) \in Nat \ {0} /\ Value(j.coin) <= MaxValue
  BY ConstantsAssumption DEF PairOf, Pairs, Jobs

\* settle's net of a pair is a natural number, at most what is outstanding, and
\* the nets of the two directions differ by what the two receivables differ by.
LEMMA NetProperties ==
  ASSUME NEW a \in [Pairs -> Nat], NEW p \in Pairs
  PROVE  LET q == <<p[2], p[1]>> IN
         /\ q \in Pairs /\ <<q[2], q[1]>> = p
         /\ Net(a, p) \in Nat
         /\ Net(a, p) <= a[p]
         /\ Net(a, p) - Net(a, q) = a[p] - a[q]
  <1> DEFINE q == <<p[2], p[1]>>
  <1>1. q \in Pairs /\ <<q[2], q[1]>> = p
    BY DEF Pairs
  <1>2. a[p] \in Nat /\ a[q] \in Nat
    BY <1>1
  <1>3. Net(a, q) = IF a[q] > a[p] THEN a[q] - a[p] ELSE 0
    BY <1>1 DEF Net
  <1>4. Net(a, p) = IF a[p] > a[q] THEN a[p] - a[q] ELSE 0
    BY DEF Net
  <1> QED
    BY <1>1, <1>2, <1>3, <1>4

-----------------------------------------------------------------------------
(* The invariant *)

\* The registry starts with its tables empty and the admin seeded.
LEMMA InitInv == Init => IInv
  <1> SUFFICES ASSUME Init PROVE IInv
    OBVIOUS
  <1>1. TypeOK
    BY ConstantsAssumption DEF Init, TypeOK, Zero, Replies, Scans, NoScan
  <1>2. HandlersInv /\ LocksInv
    BY DEF Init, HandlersInv, LocksInv, Submitting, Settling, Inserted
  <1>3. TranscriptsInv /\ RepliesAreTrue /\ EvidenceKept
    BY DEF Init, TranscriptsInv, RepliesAreTrue, EvidenceKept
  <1> QED
    BY <1>1, <1>2, <1>3 DEF IInv

\* Governance (register_member, set_cap) touches neither handlers nor serials.
LEMMA GovernInv ==
  ASSUME IInv, NEW caller \in Banks
  PROVE  /\ \A b \in Banks : RegisterMember(caller, b) => IInv'
         /\ \A p \in Pairs, v \in CapValues : SetCap(caller, p, v) => IInv'
  <1>1. ASSUME NEW b \in Banks, RegisterMember(caller, b)
        PROVE  IInv'
    BY <1>1 DEF RegisterMember, IInv, TypeOK, HandlersInv, LocksInv, TranscriptsInv,
      RepliesAreTrue, EvidenceKept, mem, history
  <1>2. ASSUME NEW p \in Pairs, NEW v \in CapValues, SetCap(caller, p, v)
        PROVE  IInv'
    BY <1>2 DEF SetCap, IInv, TypeOK, HandlersInv, LocksInv, TranscriptsInv,
      RepliesAreTrue, EvidenceKept, mem, history
  <1> QED
    BY <1>1, <1>2

\* A handler that ends and writes nothing (refused, rolled back, aborted).
LEMMA FinishInv ==
  ASSUME IInv, NEW h \in Procs, Finish(h), UNCHANGED <<db, replies, history>>
  PROVE  IInv'
  <1>1. TypeOK'
    BY DEF IInv, TypeOK, Finish, db, history, Zero, Scans, NoScan
  <1>2. HandlersInv' /\ LocksInv'
    BY DEF IInv, TypeOK, HandlersInv, LocksInv, Finish, db, Submitting, Settling, Inserted
  <1>3. TranscriptsInv' /\ RepliesAreTrue' /\ EvidenceKept'
    BY DEF IInv, TranscriptsInv, RepliesAreTrue, EvidenceKept, db
  <1> QED
    BY <1>1, <1>2, <1>3 DEF IInv

\* A handler that only moves on to its next statement.
LEMMA GotoInv ==
  ASSUME IInv, NEW h \in Procs, NEW s \in Submitting \cup Settling, Goto(h, s),
         UNCHANGED <<db, job, limit, amounts, replies, owed, raced>>,
         scan' \in [Procs -> Scans],
         letIn' \in [Pairs -> SUBSET (CapValues \cup {NoCap})],
         s \in Submitting => h \in Submitters /\ job[h] \in Jobs,
         s \in Settling => h \in Settlers,
         s \in Inserted => /\ serials[job[h].coin] = NoBank
                           /\ \A g \in Procs \ {h} : stage[g] \in Inserted => job[g].coin # job[h].coin,
         s = "collide" => serials[job[h].coin] # NoBank,
         s = "accept" =>
           /\ receivables[PairOf(job[h])] + Value(job[h].coin) <= MaxAmount
           /\ \A g \in Procs \ {h} : stage[g] = "accept" => PairOf(job[g]) # PairOf(job[h])
  PROVE  IInv'
  <1>1. TypeOK'
    BY DEF IInv, TypeOK, Goto, db, Submitting, Settling
  <1>2. stage' = [stage EXCEPT ![h] = s] /\ DOMAIN stage = Procs
    BY DEF Goto, IInv, TypeOK
  <1>3. HandlersInv'
    <2>1. UNCHANGED <<serials, receivables, job>>
      BY DEF db
    <2>2. \A g \in Procs : stage'[g] = IF g = h THEN s ELSE stage[g]
      BY <1>2
    <2> QED
      BY <2>1, <2>2 DEF IInv, HandlersInv
  <1>4. LocksInv'
    BY <1>2 DEF IInv, LocksInv, db, Inserted
  <1>5. TranscriptsInv' /\ RepliesAreTrue' /\ EvidenceKept'
    BY DEF IInv, TranscriptsInv, RepliesAreTrue, EvidenceKept, db
  <1> QED
    BY <1>1, <1>3, <1>4, <1>5 DEF IInv

\* submit_serial begins.
LEMMA ReadCapInv ==
  ASSUME IInv, NEW h \in Submitters, NEW j \in Jobs, ReadCap(h, j)
  PROVE  IInv'
  <1>1. h \in Procs /\ PairOf(j) \in Pairs
    BY PairOfType DEF Procs
  <1>2. TypeOK'
    BY <1>1 DEF IInv, TypeOK, ReadCap, Goto, db, history
  <1>3. stage' = [stage EXCEPT ![h] = "exposure"] /\ job' = [job EXCEPT ![h] = j]
        /\ UNCHANGED <<serials, receivables>>
    BY DEF ReadCap, Goto, db
  <1>4. HandlersInv' /\ LocksInv'
    BY <1>1, <1>3 DEF IInv, TypeOK, HandlersInv, LocksInv, Submitting, Settling, Inserted
  <1>5. TranscriptsInv' /\ RepliesAreTrue' /\ EvidenceKept'
    BY DEF ReadCap, IInv, TranscriptsInv, RepliesAreTrue, EvidenceKept, db
  <1> QED
    BY <1>2, <1>4, <1>5 DEF IInv

\* An answer, with what was written for it: its truth and its evidence are all
\* that the invariant asks of a reply.
LEMMA ReplyInv ==
  ASSUME IInv, NEW y \in Replies, replies' = replies \cup {y},
         serials' \in [Coins -> Banks \cup {NoBank}],
         \A c \in Coins : serials[c] # NoBank => serials'[c] = serials[c],
         transcripts \subseteq transcripts',
         y.outcome = "Accepted" => serials'[y.job.coin] = y.job.bank,
         y.outcome = "DoubleSpend" =>
           /\ y.job \in y.transcripts
           /\ [bank |-> serials'[y.job.coin], coin |-> y.job.coin] \in y.transcripts,
         y.job \in transcripts' \/ y.outcome = "ExposureCapExceeded"
  PROVE  replies' \subseteq Replies /\ RepliesAreTrue' /\ EvidenceKept'
  <1>1. replies' \subseteq Replies
    BY DEF IInv, TypeOK
  <1>2. ASSUME NEW x \in replies
        PROVE  /\ x.outcome = "Accepted" => serials'[x.job.coin] = x.job.bank
               /\ x.outcome = "DoubleSpend" =>
                    /\ x.job \in x.transcripts
                    /\ [bank |-> serials'[x.job.coin], coin |-> x.job.coin] \in x.transcripts
    <2>1. x.job \in Jobs /\ x.transcripts \in SUBSET Jobs
      BY DEF IInv, TypeOK, Replies
    <2>2. x.job.coin \in Coins /\ x.job.bank \in Banks
      BY <2>1, PairOfType
    <2>3. x.outcome = "DoubleSpend" => serials[x.job.coin] # NoBank
      BY <2>1, ConstantsAssumption DEF IInv, RepliesAreTrue, Jobs
    <2> QED
      BY <2>1, <2>2, <2>3, ConstantsAssumption DEF IInv, RepliesAreTrue
  <1>3. RepliesAreTrue'
    BY <1>2 DEF RepliesAreTrue
  <1>4. EvidenceKept'
    BY DEF IInv, EvidenceKept
  <1> QED
    BY <1>1, <1>3, <1>4

\* The exposure check: a refusal answers and writes nothing.
LEMMA CheckExposureInv ==
  ASSUME IInv, NEW h \in Submitters, CheckExposure(h)
  PROVE  IInv'
  <1>1. h \in Procs /\ stage[h] = "exposure" /\ job[h] \in Jobs
    BY DEF Procs, CheckExposure, IInv, HandlersInv, Submitting
  <1>2. UNCHANGED <<db, owed, raced>> /\ letIn' \in [Pairs -> SUBSET (CapValues \cup {NoCap})]
    <2>1. PairOf(job[h]) \in Pairs /\ limit[h] \in CapValues \cup {NoCap}
      BY <1>1, PairOfType DEF IInv, TypeOK
    <2> QED
      BY <2>1 DEF CheckExposure, IInv, TypeOK
  <1>3. CASE Reply(h, "ExposureCapExceeded", {})
    <2>1. replies' \subseteq Replies /\ RepliesAreTrue' /\ EvidenceKept'
      <3> DEFINE y == [job |-> job[h], outcome |-> "ExposureCapExceeded", transcripts |-> {}]
      <3>1. /\ replies' = replies \cup {y} /\ y \in Replies
            /\ y.outcome = "ExposureCapExceeded"
        BY <1>1, <1>3 DEF Reply, Replies
      <3> HIDE DEF y
      <3>2. UNCHANGED <<serials, transcripts>> /\ serials \in [Coins -> Banks \cup {NoBank}]
        BY <1>2 DEF db, IInv, TypeOK
      <3> QED
        BY <3>1, <3>2, ReplyInv
    <2>2. Finish(h)
      BY <1>3 DEF Reply
    <2>3. TypeOK'
      BY <1>2, <2>1, <2>2 DEF IInv, TypeOK, Finish, db, Zero, Scans, NoScan
    <2>4. HandlersInv' /\ LocksInv'
      BY <1>1, <1>2, <2>2
      DEF IInv, TypeOK, HandlersInv, LocksInv, Finish, db, Submitting, Settling, Inserted
    <2>5. TranscriptsInv'
      BY <1>2 DEF IInv, TranscriptsInv, db
    <2> QED
      BY <2>1, <2>3, <2>4, <2>5 DEF IInv
  <1>4. CASE Goto(h, "serial") /\ UNCHANGED <<job, limit, amounts, scan, replies>>
    BY <1>1, <1>2, <1>4, GotoInv DEF Submitting, Settling, Inserted, IInv, TypeOK
  <1> QED
    BY <1>3, <1>4 DEF CheckExposure

\* The insert of the serial waits for the one that is open, so the two never
\* both find the serial free.
LEMMA InsertSerialInv ==
  ASSUME IInv, NEW h \in Submitters, InsertSerial(h)
  PROVE  IInv'
  <1> DEFINE s == IF serials[job[h].coin] = NoBank THEN "receivable" ELSE "collide"
  <1>1. h \in Procs /\ stage[h] = "serial" /\ job[h] \in Jobs
    BY DEF Procs, InsertSerial, IInv, HandlersInv, Submitting
  <1>2. Goto(h, s) /\ UNCHANGED <<db, job, limit, amounts, scan, replies, history>>
    BY DEF InsertSerial
  <1>3. s \in {"receivable", "collide"}
        /\ (s = "receivable" <=> serials[job[h].coin] = NoBank)
    OBVIOUS
  <1> HIDE DEF s
  <1>4. \A g \in Procs : stage[g] \in Inserted => job[g].coin # job[h].coin
    BY DEF InsertSerial, SerialLocked, Inserted, IInv, HandlersInv, Submitting
  <1>5. scan' \in [Procs -> Scans] /\ UNCHANGED <<owed, raced>>
        /\ letIn' \in [Pairs -> SUBSET (CapValues \cup {NoCap})]
    BY <1>2 DEF IInv, TypeOK, history
  <1>6. /\ s \in Submitting \cup Settling /\ s \notin Settling /\ s # "accept"
        /\ (s \in Inserted => serials[job[h].coin] = NoBank)
        /\ (s = "collide" => serials[job[h].coin] # NoBank)
    BY <1>3 DEF Submitting, Settling, Inserted
  <1> QED
    BY <1>1, <1>2, <1>4, <1>5, <1>6, GotoInv

\* The upsert of the receivable waits for the row and fails past i64::MAX.
LEMMA AddReceivableInv ==
  ASSUME IInv, NEW h \in Submitters, AddReceivable(h)
  PROVE  IInv'
  <1>1. h \in Procs /\ stage[h] = "receivable" /\ job[h] \in Jobs
    BY DEF Procs, AddReceivable, IInv, HandlersInv, Submitting
  <1>2. UNCHANGED <<db, replies, history>>
    BY DEF AddReceivable
  <1>3. CASE Finish(h)
    BY <1>1, <1>2, <1>3, FinishInv
  <1>4. CASE /\ ~(receivables[PairOf(job[h])] + Value(job[h].coin) > MaxAmount)
             /\ Goto(h, "accept") /\ UNCHANGED <<job, limit, amounts, scan>>
    <2>1. receivables[PairOf(job[h])] + Value(job[h].coin) <= MaxAmount
      <3>1. PairOf(job[h]) \in Pairs /\ Value(job[h].coin) \in Nat
        BY <1>1, PairOfType
      <3> QED
        BY <1>4, <3>1, ConstantsAssumption DEF IInv, TypeOK
    <2>2. \A g \in Procs : stage[g] = "accept" => PairOf(job[g]) # PairOf(job[h])
      BY DEF AddReceivable, RowLocked, IInv, HandlersInv, Submitting
    <2>3. /\ serials[job[h].coin] = NoBank
          /\ \A g \in Procs \ {h} : stage[g] \in Inserted => job[g].coin # job[h].coin
      BY <1>1 DEF IInv, HandlersInv, LocksInv, Inserted
    <2>4. scan' \in [Procs -> Scans] /\ UNCHANGED <<owed, raced>>
          /\ letIn' \in [Pairs -> SUBSET (CapValues \cup {NoCap})]
      BY <1>2, <1>4 DEF IInv, TypeOK, history
    <2>5. "accept" \in Submitting \cup Settling /\ "accept" \notin Settling
      BY DEF Submitting, Settling
    <2> QED
      BY <1>1, <1>2, <1>4, <2>1, <2>2, <2>3, <2>4, <2>5, GotoInv
  <1> QED
    BY <1>3, <1>4 DEF AddReceivable

\* The commit of a fresh serial: the serial was free and is still free, by the
\* lock; the transcript goes with it.
LEMMA CommitAcceptedInv ==
  ASSUME IInv, NEW h \in Submitters, CommitAccepted(h)
  PROVE  IInv'
  <1> DEFINE j == job[h]
             p == PairOf(job[h])
  <1>1. h \in Procs /\ stage[h] = "accept" /\ j \in Jobs
    BY DEF Procs, CommitAccepted, IInv, HandlersInv, Submitting
  <1>2. /\ p \in Pairs /\ j.coin \in Coins /\ j.bank \in Banks
        /\ Value(j.coin) \in Nat \ {0}
    BY <1>1, PairOfType
  <1>3. /\ serials[j.coin] = NoBank
        /\ receivables[p] + Value(j.coin) <= MaxAmount
        /\ \A g \in Procs \ {h} : stage[g] \in Inserted => job[g].coin # j.coin
        /\ \A g \in Procs \ {h} : stage[g] = "accept" => PairOf(job[g]) # p
    BY <1>1 DEF IInv, HandlersInv, LocksInv, Inserted
  <1>4. /\ serials' = [serials EXCEPT ![j.coin] = j.bank]
        /\ transcripts' = transcripts \cup {j}
        /\ receivables' = [receivables EXCEPT ![p] = receivables[p] + Value(j.coin)]
        /\ owed' = [owed EXCEPT ![p] = owed[p] + Value(j.coin)]
        /\ Reply(h, "Accepted", {})
        /\ UNCHANGED <<members, caps, claims, letIn>>
    BY DEF CommitAccepted
  <1>5. Finish(h)
    BY <1>4 DEF Reply
  <1>6. /\ serials' \in [Coins -> Banks \cup {NoBank}]
        /\ \A c \in Coins : serials[c] # NoBank => serials'[c] = serials[c]
        /\ serials'[j.coin] = j.bank
        /\ transcripts \subseteq transcripts' /\ j \in transcripts'
    BY <1>2, <1>3, <1>4 DEF IInv, TypeOK
  <1>7. replies' \subseteq Replies /\ RepliesAreTrue' /\ EvidenceKept'
    <2> DEFINE y == [job |-> j, outcome |-> "Accepted", transcripts |-> {}]
    <2>1. /\ replies' = replies \cup {y} /\ y \in Replies
          /\ y.outcome = "Accepted" /\ y.job = j
      BY <1>1, <1>4 DEF Reply, Replies
    <2> HIDE DEF y
    <2> QED
      BY <1>6, <2>1, ReplyInv
  <1>8. TypeOK'
    <2>1. receivables' \in [Pairs -> 0..MaxAmount] /\ owed' \in [Pairs -> Nat]
      BY <1>2, <1>3, <1>4, ConstantsAssumption DEF IInv, TypeOK
    <2>2. raced' \subseteq Pairs
      BY <1>2 DEF CommitAccepted, NoteRace, IInv, TypeOK
    <2> QED
      BY <1>1, <1>4, <1>5, <1>6, <1>7, <2>1, <2>2
      DEF IInv, TypeOK, Finish, Zero, Scans, NoScan
  <1>9. \A g \in Procs : /\ g # h => stage'[g] = stage[g] /\ job'[g] = job[g]
                         /\ g = h => stage'[g] = "idle"
    BY <1>5 DEF Finish, IInv, TypeOK
  <1>10. HandlersInv'
    <2> SUFFICES ASSUME NEW g \in Procs
                 PROVE  /\ stage'[g] \in Submitting => g \in Submitters /\ job'[g] \in Jobs
                        /\ stage'[g] \in Settling => g \in Settlers
                        /\ stage'[g] \in Inserted => serials'[job'[g].coin] = NoBank
                        /\ stage'[g] = "collide" => serials'[job'[g].coin] # NoBank
                        /\ stage'[g] = "accept" =>
                             receivables'[PairOf(job'[g])] + Value(job'[g].coin) <= MaxAmount
      BY DEF HandlersInv, PairOf
    <2>1. CASE g = h
      BY <1>9, <2>1 DEF Submitting, Settling, Inserted
    <2>2. CASE g # h /\ stage[g] \in Submitting
      <3>1. job[g] \in Jobs /\ PairOf(job[g]) \in Pairs /\ job[g].coin \in Coins
        BY <2>2, PairOfType DEF IInv, HandlersInv
      <3>2. stage[g] \in Inserted => serials'[job[g].coin] = serials[job[g].coin]
        BY <1>3, <1>4, <2>2, <3>1 DEF IInv, TypeOK
      <3>3. stage[g] = "collide" => serials'[job[g].coin] # NoBank
        BY <1>6, <2>2, <3>1 DEF IInv, HandlersInv
      <3>4. stage[g] = "accept" => receivables'[PairOf(job[g])] = receivables[PairOf(job[g])]
        BY <1>3, <1>4, <2>2, <3>1 DEF IInv, TypeOK
      <3> QED
        BY <1>9, <2>2, <3>2, <3>3, <3>4 DEF IInv, HandlersInv
    <2>3. CASE g # h /\ stage[g] \notin Submitting
      BY <1>9, <2>3 DEF IInv, HandlersInv, Submitting, Inserted
    <2> QED
      BY <2>1, <2>2, <2>3
  <1>11. LocksInv'
    BY <1>9 DEF IInv, LocksInv, Inserted
  <1>12. TranscriptsInv'
    BY <1>1, <1>2, <1>4, <1>6 DEF IInv, TranscriptsInv, Jobs
  <1> QED
    BY <1>7, <1>8, <1>10, <1>11, <1>12 DEF IInv

\* A collision: the serial is committed, so its first depositor has a transcript,
\* and the answer takes it together with the own one.
LEMMA CommitCollisionInv ==
  ASSUME IInv, NEW h \in Submitters, CommitCollision(h)
  PROVE  IInv'
  <1> DEFINE j == job[h]
             found == {t \in transcripts \cup {j} : t.coin = j.coin}
  <1>1. h \in Procs /\ stage[h] = "collide" /\ j \in Jobs /\ serials[j.coin] # NoBank
    BY DEF Procs, CommitCollision, IInv, HandlersInv, Submitting
  <1>2. j.coin \in Coins
    BY <1>1, PairOfType
  <1>3. /\ transcripts' = transcripts \cup {j}
        /\ Reply(h, "DoubleSpend", found)
        /\ UNCHANGED <<members, caps, serials, receivables, claims, history>>
    BY DEF CommitCollision
  <1>4. Finish(h)
    BY <1>3 DEF Reply
  <1>5. found \subseteq Jobs /\ j \in found
    BY <1>1 DEF IInv, TypeOK
  <1>6. [bank |-> serials[j.coin], coin |-> j.coin] \in found
    BY <1>1, <1>2 DEF IInv, TranscriptsInv
  <1> HIDE DEF found
  <1>7. replies' \subseteq Replies /\ RepliesAreTrue' /\ EvidenceKept'
    <2> DEFINE y == [job |-> j, outcome |-> "DoubleSpend", transcripts |-> found]
    <2>1. /\ replies' = replies \cup {y} /\ y \in Replies
          /\ y.outcome = "DoubleSpend" /\ y.job = j /\ y.transcripts = found
      BY <1>1, <1>3, <1>5 DEF Reply, Replies
    <2> HIDE DEF y
    <2>2. serials' = serials /\ serials \in [Coins -> Banks \cup {NoBank}]
          /\ transcripts \subseteq transcripts' /\ j \in transcripts'
      BY <1>3 DEF IInv, TypeOK
    <2> QED
      BY <1>5, <1>6, <2>1, <2>2, ReplyInv
  <1>8. TypeOK'
    BY <1>1, <1>3, <1>4, <1>7 DEF IInv, TypeOK, Finish, Zero, Scans, NoScan, history
  <1>9. HandlersInv' /\ LocksInv'
    BY <1>1, <1>3, <1>4
    DEF IInv, TypeOK, HandlersInv, LocksInv, Finish, Submitting, Settling, Inserted
  <1>10. TranscriptsInv'
    BY <1>3 DEF IInv, TranscriptsInv
  <1> QED
    BY <1>7, <1>8, <1>9, <1>10 DEF IInv

\* What a step of a DELETE does to how far it is: it starts with the rows it
\* finds, and moves them on one by one, losing none.
LEMMA ScanStep ==
  ASSUME scan \in [Procs -> Scans], NEW h \in Procs,
         SettleDelete(h) \/ SettleVisit(h) \/ SettleLock(h)
  PROVE  \E s \in Scans :
           /\ scan' = [scan EXCEPT ![h] = s]
           /\ SettleDelete(h) => /\ s.todo = {p \in Pairs : receivables[p] > 0}
                                 /\ s.at = scan[h].at /\ s.taken = scan[h].taken
           /\ ~SettleDelete(h) => s.todo \cup s.at \cup s.taken
                                    = scan[h].todo \cup scan[h].at \cup scan[h].taken
  <1>1. /\ scan[h] \in Scans /\ scan[h].todo \subseteq Pairs
        /\ scan[h].at \subseteq Pairs /\ scan[h].taken \subseteq Pairs
    BY DEF Scans
  <1>2. CASE SettleDelete(h)
    <2> DEFINE s == [scan[h] EXCEPT !.todo = {p \in Pairs : receivables[p] > 0}]
    <2>1. s \in Scans /\ s.todo = {p \in Pairs : receivables[p] > 0}
          /\ s.at = scan[h].at /\ s.taken = scan[h].taken
      BY <1>1 DEF Scans
    <2>2. scan' = [scan EXCEPT ![h] = s]
      BY <1>2 DEF SettleDelete
    <2> HIDE DEF s
    <2> QED
      BY <1>2, <2>1, <2>2
  <1>3. CASE ~SettleDelete(h) /\ SettleVisit(h)
    <2>1. PICK p \in scan[h].todo :
            /\ scan[h].at = {}
            /\ scan' = [scan EXCEPT ![h].todo = @ \ {p}, ![h].at = {p}]
      BY <1>3 DEF SettleVisit
    <2> DEFINE s == [scan[h] EXCEPT !.todo = @ \ {p}, !.at = {p}]
    <2>2. s \in Scans /\ s.todo = scan[h].todo \ {p} /\ s.at = {p} /\ s.taken = scan[h].taken
      BY <1>1 DEF Scans
    <2>3. scan' = [scan EXCEPT ![h] = s]
      BY <2>1
    <2> HIDE DEF s
    <2>4. s.todo \cup s.at \cup s.taken = scan[h].todo \cup scan[h].at \cup scan[h].taken
      BY <2>1, <2>2
    <2> QED
      BY <1>3, <2>2, <2>3, <2>4
  <1>4. CASE ~SettleDelete(h) /\ SettleLock(h)
    <2> DEFINE s == [scan[h] EXCEPT !.at = {}, !.taken = @ \cup scan[h].at]
    <2>1. s \in Scans /\ s.todo = scan[h].todo /\ s.at = {}
          /\ s.taken = scan[h].taken \cup scan[h].at
      BY <1>1 DEF Scans
    <2>2. scan' = [scan EXCEPT ![h] = s]
      BY <1>4 DEF SettleLock
    <2> HIDE DEF s
    <2> QED
      BY <1>4, <2>1, <2>2
  <1> QED
    BY <1>2, <1>3, <1>4

\* settle reads, and its DELETE goes from row to row.
LEMMA SettleScanInv ==
  ASSUME IInv, NEW h \in Settlers,
         \/ SettleDelete(h) \/ SettleVisit(h) \/ SettleLock(h)
         \/ \E caller \in Banks : SettleRead(caller, h)
  PROVE  IInv'
  <1>1. h \in Procs
    BY DEF Procs
  <1>2. CASE \E caller \in Banks : SettleRead(caller, h)
    <2>1. /\ stage' = [stage EXCEPT ![h] = "delete"]
          /\ amounts' = [amounts EXCEPT ![h] = receivables]
          /\ UNCHANGED <<db, job, limit, scan, replies, history>>
      BY <1>2 DEF SettleRead, Goto
    <2>2. receivables \in [Pairs -> Nat]
      BY ConstantsAssumption DEF IInv, TypeOK
    <2>3. TypeOK'
      BY <1>1, <2>1, <2>2 DEF IInv, TypeOK, db, history
    <2>4. HandlersInv' /\ LocksInv'
      BY <1>1, <2>1
      DEF IInv, TypeOK, HandlersInv, LocksInv, db, Submitting, Settling, Inserted
    <2>5. TranscriptsInv' /\ RepliesAreTrue' /\ EvidenceKept'
      BY <2>1 DEF IInv, TranscriptsInv, RepliesAreTrue, EvidenceKept, db
    <2> QED
      BY <2>3, <2>4, <2>5 DEF IInv
  <1>3. CASE SettleDelete(h) \/ SettleVisit(h) \/ SettleLock(h)
    <2>1. scan \in [Procs -> Scans]
      BY DEF IInv, TypeOK
    <2>2. scan' \in [Procs -> Scans]
      BY <1>1, <1>3, <2>1, ScanStep
    <2>3. /\ Goto(h, "scan")
          /\ UNCHANGED <<db, job, limit, amounts, replies, history>>
      BY <1>1, <1>3 DEF SettleDelete, SettleVisit, SettleLock, Goto, IInv, TypeOK
    <2>4. UNCHANGED <<owed, raced>> /\ letIn' \in [Pairs -> SUBSET (CapValues \cup {NoCap})]
      BY <2>3 DEF IInv, TypeOK, history
    <2> QED
      BY <1>1, <2>2, <2>3, <2>4, GotoInv DEF Submitting, Settling, Inserted
  <1> QED
    BY <1>2, <1>3

\* The commit of a settlement only lowers receivables, so a sum that fitted
\* still fits; the net claimed is a natural number in each direction.
LEMMA SettleCommitInv ==
  ASSUME IInv, NEW h \in Settlers, SettleCommit(h)
  PROVE  IInv'
  <1>1. h \in Procs /\ amounts[h] \in [Pairs -> Nat]
    BY DEF Procs, IInv, TypeOK
  <1>2. /\ claims' = [p \in Pairs |-> claims[p] + Net(amounts[h], p)]
        /\ receivables' = [p \in Pairs |-> IF p \in scan[h].taken THEN 0 ELSE receivables[p]]
        /\ stage' = [stage EXCEPT ![h] = "idle"]
        /\ amounts' = [amounts EXCEPT ![h] = Zero]
        /\ UNCHANGED <<members, caps, serials, transcripts, job, limit, replies, owed, letIn>>
    BY DEF SettleCommit
  <1>3. claims' \in [Pairs -> Nat]
    <2>1. \A p \in Pairs : Net(amounts[h], p) \in Nat
      BY <1>1, NetProperties
    <2> QED
      BY <1>2, <2>1 DEF IInv, TypeOK
  <1>4. /\ receivables' \in [Pairs -> 0..MaxAmount]
        /\ \A p \in Pairs : receivables'[p] <= receivables[p]
    BY <1>2, ConstantsAssumption DEF IInv, TypeOK
  <1>5. TypeOK'
    <2>1. scan' \in [Procs -> Scans]
      <3>1. /\ scan \in [Procs -> Scans]
            /\ scan' = [g \in Procs |->
                 IF g = h THEN NoScan
                 ELSE [scan[g] EXCEPT !.todo = @ \ scan[h].taken, !.at = @ \ scan[h].taken]]
        BY DEF SettleCommit, IInv, TypeOK
      <3> QED
        BY <3>1 DEF Scans, NoScan
    <2>2. stage' \in [Procs -> {"idle", "exposure", "serial", "receivable", "accept",
                          "collide", "delete", "scan"}]
          /\ amounts' \in [Procs -> [Pairs -> Nat]]
      BY <1>1, <1>2 DEF IInv, TypeOK, Zero
    <2>3. raced' \subseteq Pairs
      BY <1>1 DEF SettleCommit, NoteRace, IInv, TypeOK, Scans
    <2> QED
      BY <1>2, <1>3, <1>4, <2>1, <2>2, <2>3 DEF IInv, TypeOK
  <1>6. \A g \in Procs : stage'[g] = IF g = h THEN "idle" ELSE stage[g]
    BY <1>2 DEF IInv, TypeOK
  <1>7. HandlersInv'
    <2>1. ASSUME NEW g \in Procs, stage'[g] = "accept"
          PROVE  receivables'[PairOf(job[g])] + Value(job[g].coin) <= MaxAmount
      <3>1. stage[g] = "accept" /\ job[g] \in Jobs
        BY <1>6, <2>1 DEF IInv, HandlersInv, Submitting
      <3>2. PairOf(job[g]) \in Pairs /\ Value(job[g].coin) \in Nat
        BY <3>1, PairOfType
      <3>3. receivables[PairOf(job[g])] + Value(job[g].coin) <= MaxAmount
        BY <3>1 DEF IInv, HandlersInv
      <3> QED
        BY <1>4, <3>2, <3>3, ConstantsAssumption DEF IInv, TypeOK
    <2>2. UNCHANGED <<serials, job>>
      BY <1>2
    <2>3. \A g \in Procs :
            /\ stage'[g] \in Submitting => g \in Submitters /\ job[g] \in Jobs
            /\ stage'[g] \in Settling => g \in Settlers
            /\ stage'[g] \in Inserted => serials[job[g].coin] = NoBank
            /\ stage'[g] = "collide" => serials[job[g].coin] # NoBank
      BY <1>6 DEF IInv, HandlersInv, Submitting, Settling, Inserted
    <2> QED
      BY <2>1, <2>2, <2>3 DEF HandlersInv
  <1>8. LocksInv'
    BY <1>2, <1>6 DEF IInv, LocksInv, Inserted
  <1>9. TranscriptsInv' /\ RepliesAreTrue' /\ EvidenceKept'
    BY <1>2 DEF IInv, TranscriptsInv, RepliesAreTrue, EvidenceKept
  <1> QED
    BY <1>5, <1>7, <1>8, <1>9 DEF IInv

\* Every statement of every handler, every rollback and every governance request
\* keeps the invariant.
LEMMA NextInv == IInv /\ [Next]_vars => IInv'
  <1> SUFFICES ASSUME IInv, [Next]_vars PROVE IInv'
    OBVIOUS
  <1>1. CASE \E caller, b \in Banks : RegisterMember(caller, b)
    BY <1>1, GovernInv
  <1>2. CASE \E caller \in Banks, p \in Pairs : \E v \in CapValues : SetCap(caller, p, v)
    BY <1>2, GovernInv
  <1>3. CASE \E h \in Submitters : \E j \in Jobs : ReadCap(h, j)
    BY <1>3, ReadCapInv
  <1>4. CASE \E h \in Submitters : Submit(h)
    BY <1>4, CheckExposureInv, InsertSerialInv, AddReceivableInv, CommitAcceptedInv,
       CommitCollisionInv DEF Submit
  <1>5. CASE \E h \in Settlers : Settle(h) \/ \E caller \in Banks : SettleRead(caller, h)
    BY <1>5, SettleScanInv, SettleCommitInv DEF Settle
  <1>6. CASE \E h \in Procs : Abort(h)
    BY <1>6, FinishInv DEF Abort
  <1>7. CASE UNCHANGED vars
    BY <1>7 DEF vars, IInv, TypeOK, HandlersInv, LocksInv, TranscriptsInv, RepliesAreTrue,
      EvidenceKept
  <1> QED
    BY <1>1, <1>2, <1>3, <1>4, <1>5, <1>6, <1>7 DEF Next

\* The invariant holds in every reachable state of the registry.
THEOREM Invariance == Spec => []IInv
  BY InitInv, NextInv, PTL DEF Spec

\* The tables and the handlers' memory keep their types; in particular no sum of
\* receivables passes i64::MAX, with any number of submissions in flight.
THEOREM TypeCorrect == Spec => []TypeOK
  <1>1. IInv => TypeOK
    BY DEF IInv
  <1> QED
    BY <1>1, Invariance, PTL

\* submit_serial answers truthfully under any interleaving: an Accepted answer
\* names the first depositor, and a DoubleSpend answer carries the first
\* depositor's transcript and the submitter's own.
THEOREM TruthfulReplies == Spec => []RepliesAreTrue
  <1>1. IInv => RepliesAreTrue
    BY DEF IInv
  <1> QED
    BY <1>1, Invariance, PTL

\* Every submission that was answered, other than one refused at its cap, has its
\* transcript on record for good.
THEOREM EvidenceOutlives == Spec => []EvidenceKept
  <1>1. IInv => EvidenceKept
    BY DEF IInv
  <1> QED
    BY <1>1, Invariance, PTL

-----------------------------------------------------------------------------
(* Settlements beside anything else *)

\* Where a settlement still agrees with the table: in the rows that no other
\* commit has written since it began, what it read is what is outstanding, and
\* its DELETE covers the rows that are not empty.
AgreesInv ==
  \A g \in Procs :
    /\ stage[g] # "scan" => scan[g] = NoScan
    /\ stage[g] \in Settling => \A p \in Pairs \ raced : amounts[g][p] = receivables[p]
    /\ stage[g] = "scan" =>
         \A p \in Pairs \ raced :
           p \in scan[g].todo \cup scan[g].at \cup scan[g].taken <=> receivables[p] > 0

\* In such rows what is outstanding and what is claimed never exceed what was
\* accepted.
BacklogInv == \A p \in Pairs \ raced : receivables[p] + claims[p] <= owed[p]

MoneyInv == AgreesInv /\ BacklogInv /\ OnlyRacesLose

\* Nothing is owed at the start.
LEMMA MoneyInitInv == Init => MoneyInv
  BY DEF Init, MoneyInv, AgreesInv, BacklogInv, OnlyRacesLose, Balanced, Settling, Zero, Pairs

\* The totals are numbers.
LEMMA MoneyTypes ==
  ASSUME IInv
  PROVE  /\ receivables \in [Pairs -> Nat] /\ owed \in [Pairs -> Nat]
         /\ claims \in [Pairs -> Nat] /\ raced \subseteq Pairs
         /\ \A g \in Procs : amounts[g] \in [Pairs -> Nat]
  BY ConstantsAssumption DEF IInv, TypeOK

\* A step that leaves the money alone and no settlement further than before.
LEMMA MoneyKept ==
  ASSUME MoneyInv, UNCHANGED <<receivables, claims, owed, raced>>,
         \A g \in Procs :
           /\ stage'[g] # "scan" => scan'[g] = NoScan
           /\ stage'[g] \in Settling =>
                stage'[g] = stage[g] /\ amounts'[g] = amounts[g] /\ scan'[g] = scan[g]
  PROVE  MoneyInv'
  <1>1. AgreesInv'
    BY DEF MoneyInv, AgreesInv, Settling
  <1>2. BacklogInv' /\ OnlyRacesLose'
    BY DEF MoneyInv, BacklogInv, OnlyRacesLose, Balanced
  <1> QED
    BY <1>1, <1>2 DEF MoneyInv

\* A handler that ends without a write leaves the money alone.
LEMMA FinishKeepsMoney ==
  ASSUME IInv, MoneyInv, NEW h \in Procs, Finish(h),
         UNCHANGED <<receivables, claims, owed, raced>>
  PROVE  MoneyInv'
  <1>1. \A g \in Procs :
          /\ stage'[g] = IF g = h THEN "idle" ELSE stage[g]
          /\ amounts'[g] = IF g = h THEN Zero ELSE amounts[g]
          /\ scan'[g] = IF g = h THEN NoScan ELSE scan[g]
    BY DEF Finish, IInv, TypeOK
  <1>2. \A g \in Procs : stage[g] # "scan" => scan[g] = NoScan
    BY DEF MoneyInv, AgreesInv
  <1> QED
    BY <1>1, <1>2, MoneyKept DEF Settling

\* A submission that moves on leaves the money alone.
LEMMA SubmitKeepsMoney ==
  ASSUME IInv, MoneyInv, NEW h \in Procs, NEW s \in Submitting, Goto(h, s), stage[h] # "scan",
         UNCHANGED <<receivables, claims, owed, raced, amounts, scan>>
  PROVE  MoneyInv'
  <1>1. \A g \in Procs : stage'[g] = IF g = h THEN s ELSE stage[g]
    BY DEF Goto, IInv, TypeOK
  <1>2. \A g \in Procs : stage[g] # "scan" => scan[g] = NoScan
    BY DEF MoneyInv, AgreesInv
  <1> QED
    BY <1>1, <1>2, MoneyKept DEF Settling, Submitting

\* An acceptance adds the coin to what is owed and to what is outstanding, and is
\* a race where a settlement is open.
LEMMA AcceptKeepsMoney ==
  ASSUME IInv, MoneyInv, NEW h \in Submitters, CommitAccepted(h)
  PROVE  MoneyInv'
  <1> DEFINE r == PairOf(job[h])
             v == Value(job[h].coin)
  <1>1. h \in Procs /\ stage[h] = "accept" /\ job[h] \in Jobs
    BY DEF Procs, CommitAccepted, IInv, HandlersInv, Submitting
  <1>2. r \in Pairs /\ v \in Nat
    BY <1>1, PairOfType
  <1>3. /\ receivables' = [receivables EXCEPT ![r] = receivables[r] + v]
        /\ owed' = [owed EXCEPT ![r] = owed[r] + v]
        /\ claims' = claims
        /\ NoteRace(h, {r})
        /\ Finish(h)
    BY DEF CommitAccepted, Reply
  <1> HIDE DEF r, v
  <1>4. /\ receivables \in [Pairs -> Nat] /\ owed \in [Pairs -> Nat]
        /\ claims \in [Pairs -> Nat]
    BY MoneyTypes
  <1>5. raced \subseteq raced'
    BY <1>3 DEF NoteRace
  <1>6. \A g \in Procs :
          /\ stage'[g] = IF g = h THEN "idle" ELSE stage[g]
          /\ amounts'[g] = IF g = h THEN Zero ELSE amounts[g]
          /\ scan'[g] = IF g = h THEN NoScan ELSE scan[g]
    BY <1>1, <1>3 DEF Finish, IInv, TypeOK
  <1>7. AgreesInv'
    <2> SUFFICES ASSUME NEW g \in Procs
                 PROVE  /\ stage'[g] # "scan" => scan'[g] = NoScan
                        /\ stage'[g] \in Settling =>
                             \A p \in Pairs \ raced' : amounts'[g][p] = receivables'[p]
                        /\ stage'[g] = "scan" =>
                             \A p \in Pairs \ raced' :
                               p \in scan'[g].todo \cup scan'[g].at \cup scan'[g].taken
                                 <=> receivables'[p] > 0
      BY DEF AgreesInv
    <2>1. CASE stage'[g] \notin Settling
      BY <1>6, <2>1 DEF MoneyInv, AgreesInv, Settling
    <2>2. CASE stage'[g] \in Settling
      <3>1. g # h /\ stage'[g] = stage[g] /\ amounts'[g] = amounts[g] /\ scan'[g] = scan[g]
        BY <1>6, <2>2 DEF Settling
      <3>2. g \in Settlers \ {h} /\ InSettlement(g)
        BY <2>2, <3>1 DEF InSettlement, IInv, HandlersInv, Settling
      <3>3. r \in raced'
        BY <1>3, <3>2 DEF NoteRace
      <3>4. \A p \in Pairs \ raced' : receivables'[p] = receivables[p] /\ p \notin raced
        BY <1>3, <1>4, <1>5, <3>3
      <3> QED
        BY <2>2, <3>1, <3>4 DEF MoneyInv, AgreesInv
    <2> QED
      BY <2>1, <2>2
  <1>8. BacklogInv'
    <2> SUFFICES ASSUME NEW p \in Pairs \ raced'
                 PROVE  receivables'[p] + claims'[p] <= owed'[p]
      BY DEF BacklogInv
    <2>1. receivables[p] + claims[p] <= owed[p]
      BY <1>5 DEF MoneyInv, BacklogInv
    <2> QED
      BY <1>2, <1>3, <1>4, <2>1
  <1>9. ASSUME NEW p \in Pairs, NEW q \in Pairs, q = <<p[2], p[1]>>, {p, q} \cap raced' = {}
        PROVE  owed'[p] - owed'[q] = (receivables'[p] - receivables'[q]) + (claims'[p] - claims'[q])
    <2>1. owed[p] - owed[q] = (receivables[p] - receivables[q]) + (claims[p] - claims[q])
      BY <1>5, <1>9 DEF MoneyInv, OnlyRacesLose, Balanced
    <2>2. \A o \in Pairs : /\ owed'[o] - receivables'[o] = owed[o] - receivables[o]
                           /\ owed'[o] \in Nat /\ receivables'[o] \in Nat
      BY <1>2, <1>3, <1>4
    <2>3. /\ owed[p] \in Nat /\ receivables[p] \in Nat /\ claims[p] \in Nat
          /\ owed[q] \in Nat /\ receivables[q] \in Nat /\ claims[q] \in Nat
          /\ claims'[p] = claims[p] /\ claims'[q] = claims[q]
      BY <1>3, <1>4
    <2>4. /\ owed'[p] - receivables'[p] = owed[p] - receivables[p]
          /\ owed'[q] - receivables'[q] = owed[q] - receivables[q]
          /\ owed'[p] \in Nat /\ receivables'[p] \in Nat
          /\ owed'[q] \in Nat /\ receivables'[q] \in Nat
      BY <2>2
    <2> QED
      BY <2>1, <2>3, <2>4
  <1>10. \A p \in Pairs : <<p[2], p[1]>> \in Pairs
    BY DEF Pairs
  <1>11. OnlyRacesLose'
    BY <1>9, <1>10 DEF OnlyRacesLose, Balanced
  <1> QED
    BY <1>7, <1>8, <1>11 DEF MoneyInv

\* settle reads what is outstanding, and its DELETE starts with the rows that are
\* not empty and keeps them on its list.
LEMMA ScanKeepsMoney ==
  ASSUME IInv, MoneyInv, NEW h \in Settlers,
         \/ SettleDelete(h) \/ SettleVisit(h) \/ SettleLock(h)
         \/ \E caller \in Banks : SettleRead(caller, h)
  PROVE  MoneyInv'
  <1>1. h \in Procs /\ UNCHANGED <<receivables, claims, owed, raced>>
    BY DEF Procs, SettleDelete, SettleVisit, SettleLock, SettleRead, db, history
  <1>2. BacklogInv' /\ OnlyRacesLose'
    BY <1>1 DEF MoneyInv, BacklogInv, OnlyRacesLose, Balanced
  <1>3. CASE \E caller \in Banks : SettleRead(caller, h)
    <2>1. /\ stage[h] = "idle"
          /\ \A g \in Procs : /\ stage'[g] = IF g = h THEN "delete" ELSE stage[g]
                              /\ amounts'[g] = IF g = h THEN receivables ELSE amounts[g]
                              /\ scan'[g] = scan[g]
      BY <1>1, <1>3 DEF SettleRead, Goto, IInv, TypeOK
    <2>2. AgreesInv'
      BY <1>1, <2>1 DEF MoneyInv, AgreesInv, Settling
    <2> QED
      BY <1>2, <2>2 DEF MoneyInv
  <1>4. CASE SettleDelete(h) \/ SettleVisit(h) \/ SettleLock(h)
    <2>1. scan \in [Procs -> Scans]
      BY DEF IInv, TypeOK
    <2>2. PICK s \in Scans :
            /\ scan' = [scan EXCEPT ![h] = s]
            /\ SettleDelete(h) => /\ s.todo = {p \in Pairs : receivables[p] > 0}
                                  /\ s.at = scan[h].at /\ s.taken = scan[h].taken
            /\ ~SettleDelete(h) => s.todo \cup s.at \cup s.taken
                                     = scan[h].todo \cup scan[h].at \cup scan[h].taken
      BY <1>1, <1>4, <2>1, ScanStep
    <2>3. /\ \A g \in Procs : stage'[g] = IF g = h THEN "scan" ELSE stage[g]
          /\ amounts' = amounts
          /\ SettleDelete(h) => stage[h] = "delete"
          /\ ~SettleDelete(h) => stage[h] = "scan"
      BY <1>1, <1>4 DEF SettleDelete, SettleVisit, SettleLock, Goto, IInv, TypeOK
    <2>4. \A g \in Procs : scan'[g] = IF g = h THEN s ELSE scan[g]
      BY <2>1, <2>2
    <2>5. \A p \in Pairs \ raced :
            p \in s.todo \cup s.at \cup s.taken <=> receivables[p] > 0
      <3>1. CASE SettleDelete(h)
        BY <1>1, <2>2, <2>3, <3>1 DEF MoneyInv, AgreesInv, NoScan
      <3>2. CASE ~SettleDelete(h)
        BY <1>1, <2>2, <2>3, <3>2 DEF MoneyInv, AgreesInv
      <3> QED
        BY <3>1, <3>2
    <2>6. AgreesInv'
      BY <1>1, <2>3, <2>4, <2>5 DEF MoneyInv, AgreesInv, Settling
    <2> QED
      BY <1>2, <2>6 DEF MoneyInv
  <1> QED
    BY <1>3, <1>4

\* The commit of a settlement turns what is outstanding in the rows it still
\* agrees with into claims of the nets, and is a race for any other one.
LEMMA SettleKeepsMoney ==
  ASSUME IInv, MoneyInv, NEW h \in Settlers, SettleCommit(h)
  PROVE  MoneyInv'
  <1> DEFINE gone == scan[h].taken
             a == amounts[h]
  <1>1. h \in Procs /\ stage[h] = "scan" /\ gone \subseteq Pairs
        /\ scan[h].todo = {} /\ scan[h].at = {}
    BY DEF Procs, SettleCommit, IInv, TypeOK, Scans
  <1>2. /\ receivables \in [Pairs -> Nat] /\ owed \in [Pairs -> Nat]
        /\ claims \in [Pairs -> Nat] /\ a \in [Pairs -> Nat]
    BY <1>1, MoneyTypes
  <1>3. /\ claims' = [p \in Pairs |-> claims[p] + Net(a, p)]
        /\ receivables' = [p \in Pairs |-> IF p \in gone THEN 0 ELSE receivables[p]]
        /\ stage' = [stage EXCEPT ![h] = "idle"]
        /\ amounts' = [amounts EXCEPT ![h] = Zero]
        /\ scan' = [g \in Procs |->
             IF g = h THEN NoScan
             ELSE [scan[g] EXCEPT !.todo = @ \ gone, !.at = @ \ gone]]
        /\ NoteRace(h, gone)
        /\ owed' = owed
    BY DEF SettleCommit
  <1>4. raced \subseteq raced'
    BY <1>3 DEF NoteRace
  <1>5. \A p \in Pairs \ raced : a[p] = receivables[p] /\ (p \in gone <=> receivables[p] > 0)
    BY <1>1 DEF MoneyInv, AgreesInv, Settling
  <1> HIDE DEF gone, a
  <1>6. ASSUME NEW p \in Pairs \ raced PROVE receivables'[p] = 0
    <2>1. receivables[p] \in Nat /\ (p \in gone <=> receivables[p] > 0)
      BY <1>2, <1>5
    <2>2. receivables'[p] = IF p \in gone THEN 0 ELSE receivables[p]
      BY <1>3
    <2> QED
      BY <2>1, <2>2
  <1>7. \A g \in Procs :
          /\ stage'[g] = IF g = h THEN "idle" ELSE stage[g]
          /\ g # h => amounts'[g] = amounts[g]
          /\ g = h => scan'[g] = NoScan
          /\ g # h => /\ scan'[g].todo = scan[g].todo \ gone
                      /\ scan'[g].at = scan[g].at \ gone
                      /\ scan'[g].taken = scan[g].taken
                      /\ scan[g] = NoScan => scan'[g] = NoScan
    <2>1. \A g \in Procs : scan[g] \in Scans
      BY DEF IInv, TypeOK
    <2>2. \A g \in Procs \ {h} :
            /\ scan'[g].todo = scan[g].todo \ gone
            /\ scan'[g].at = scan[g].at \ gone
            /\ scan'[g].taken = scan[g].taken
            /\ scan'[g] = [todo |-> scan[g].todo \ gone, at |-> scan[g].at \ gone,
                           taken |-> scan[g].taken]
      BY <1>3, <2>1 DEF Scans
    <2>3. \A g \in Procs \ {h} : scan[g] = NoScan => scan'[g] = NoScan
      BY <2>2 DEF NoScan
    <2> QED
      BY <1>1, <1>3, <2>2, <2>3 DEF IInv, TypeOK
  <1>8. AgreesInv'
    <2> SUFFICES ASSUME NEW g \in Procs
                 PROVE  /\ stage'[g] # "scan" => scan'[g] = NoScan
                        /\ stage'[g] \in Settling =>
                             \A p \in Pairs \ raced' : amounts'[g][p] = receivables'[p]
                        /\ stage'[g] = "scan" =>
                             \A p \in Pairs \ raced' :
                               p \in scan'[g].todo \cup scan'[g].at \cup scan'[g].taken
                                 <=> receivables'[p] > 0
      BY DEF AgreesInv
    <2>1. CASE stage'[g] \notin Settling
      BY <1>7, <2>1 DEF MoneyInv, AgreesInv, Settling
    <2>2. CASE stage'[g] \in Settling
      <3>1. g # h /\ stage'[g] = stage[g] /\ amounts'[g] = amounts[g]
        BY <1>7, <2>2 DEF Settling
      <3>2. g \in Settlers \ {h} /\ InSettlement(g)
        BY <2>2, <3>1 DEF InSettlement, IInv, HandlersInv, Settling
      <3>3. gone \subseteq raced'
        BY <1>3, <3>2 DEF NoteRace
      <3>4. \A p \in Pairs \ raced' : /\ p \notin gone /\ p \notin raced
                                      /\ receivables'[p] = receivables[p]
        BY <1>3, <1>4, <3>3
      <3>5. stage[g] = "scan" => scan'[g].taken = scan[g].taken
            /\ scan'[g].todo = scan[g].todo \ gone /\ scan'[g].at = scan[g].at \ gone
        BY <1>7, <3>1
      <3>6. \A p \in Pairs \ raced' : amounts[g][p] = receivables[p]
        BY <2>2, <3>1, <3>4 DEF MoneyInv, AgreesInv
      <3>7. stage[g] = "scan" => \A p \in Pairs \ raced' :
              p \in scan[g].todo \cup scan[g].at \cup scan[g].taken <=> receivables[p] > 0
        BY <3>4 DEF MoneyInv, AgreesInv
      <3>8. stage[g] = "scan" => \A p \in Pairs \ raced' :
              p \in scan'[g].todo \cup scan'[g].at \cup scan'[g].taken
                <=> p \in scan[g].todo \cup scan[g].at \cup scan[g].taken
        BY <3>4, <3>5
      <3>9. stage'[g] # "scan" => scan'[g] = NoScan
        BY <1>7, <3>1 DEF MoneyInv, AgreesInv
      <3> QED
        BY <2>2, <3>1, <3>4, <3>6, <3>7, <3>8, <3>9 DEF Settling
    <2> QED
      BY <2>1, <2>2
  <1>9. \A p \in Pairs : /\ <<p[2], p[1]>> \in Pairs
                         /\ Net(a, p) \in Nat
                         /\ Net(a, p) <= a[p]
                         /\ Net(a, p) - Net(a, <<p[2], p[1]>>) = a[p] - a[<<p[2], p[1]>>]
    BY <1>2, NetProperties
  <1>10. \A p \in Pairs : claims'[p] = claims[p] + Net(a, p)
    BY <1>3
  <1>11. BacklogInv'
    <2> SUFFICES ASSUME NEW p \in Pairs \ raced'
                 PROVE  receivables'[p] + claims'[p] <= owed[p]
      BY <1>3 DEF BacklogInv
    <2>1. p \in Pairs \ raced /\ receivables[p] + claims[p] <= owed[p]
      BY <1>4 DEF MoneyInv, BacklogInv
    <2>2. receivables[p] \in Nat /\ claims[p] \in Nat /\ owed[p] \in Nat
      BY <1>2
    <2>3. Net(a, p) \in Nat /\ Net(a, p) <= receivables[p]
      BY <1>5, <1>9, <2>1
    <2>4. receivables'[p] = 0 /\ claims'[p] = claims[p] + Net(a, p)
      BY <1>6, <1>10, <2>1
    <2> QED
      BY <2>1, <2>2, <2>3, <2>4
  <1>12. OnlyRacesLose'
    <2> SUFFICES ASSUME NEW p \in Pairs, NEW q, q = <<p[2], p[1]>>, {p, q} \cap raced' = {}
                 PROVE  owed'[p] - owed'[q]
                          = (receivables'[p] - receivables'[q]) + (claims'[p] - claims'[q])
      BY DEF OnlyRacesLose, Balanced
    <2>1. /\ q \in Pairs /\ p \notin raced /\ q \notin raced
          /\ Net(a, p) \in Nat /\ Net(a, q) \in Nat
          /\ Net(a, p) - Net(a, q) = a[p] - a[q]
      BY <1>4, <1>9
    <2>2. owed[p] - owed[q] = (receivables[p] - receivables[q]) + (claims[p] - claims[q])
      BY <2>1 DEF MoneyInv, OnlyRacesLose, Balanced
    <2>3. /\ claims'[p] = claims[p] + Net(a, p) /\ claims'[q] = claims[q] + Net(a, q)
          /\ receivables'[p] = 0 /\ receivables'[q] = 0
          /\ a[p] = receivables[p] /\ a[q] = receivables[q]
          /\ owed'[p] = owed[p] /\ owed'[q] = owed[q]
      BY <1>3, <1>5, <1>6, <1>10, <2>1
    <2>4. /\ receivables[p] \in Nat /\ claims[p] \in Nat /\ owed[p] \in Nat
          /\ receivables[q] \in Nat /\ claims[q] \in Nat /\ owed[q] \in Nat
      BY <1>2, <2>1
    <2> QED
      BY <2>1, <2>2, <2>3, <2>4
  <1> QED
    BY <1>8, <1>11, <1>12 DEF MoneyInv

\* Every step keeps the money straight outside of races.
LEMMA MoneyNextInv == IInv /\ MoneyInv /\ [Next]_vars => MoneyInv'
  <1> SUFFICES ASSUME IInv, MoneyInv, [Next]_vars PROVE MoneyInv'
    OBVIOUS
  <1> USE DEF history
  <1>1. ASSUME UNCHANGED <<receivables, claims, owed, raced, stage, amounts, scan>>
        PROVE  MoneyInv'
    BY <1>1 DEF MoneyInv, AgreesInv, BacklogInv, OnlyRacesLose, Balanced
  <1>2. CASE \E caller, b \in Banks : RegisterMember(caller, b)
    BY <1>1, <1>2 DEF RegisterMember, mem
  <1>3. CASE \E caller \in Banks, p \in Pairs : \E v \in CapValues : SetCap(caller, p, v)
    BY <1>1, <1>3 DEF SetCap, mem
  <1>4. ASSUME NEW h \in Submitters, NEW j \in Jobs, ReadCap(h, j)
        PROVE  MoneyInv'
    BY <1>4, SubmitKeepsMoney DEF ReadCap, db, Procs, Submitting
  <1>5. ASSUME NEW h \in Submitters, Submit(h)
        PROVE  MoneyInv'
    <2>1. h \in Procs
      BY DEF Procs
    <2>2. CASE CheckExposure(h)
      BY <2>1, <2>2, SubmitKeepsMoney, FinishKeepsMoney
      DEF CheckExposure, Reply, db, Submitting
    <2>3. CASE InsertSerial(h)
      BY <2>1, <2>3, SubmitKeepsMoney DEF InsertSerial, db, Submitting
    <2>4. CASE AddReceivable(h)
      BY <2>1, <2>4, SubmitKeepsMoney, FinishKeepsMoney DEF AddReceivable, db, Submitting
    <2>5. CASE CommitAccepted(h)
      BY <2>5, AcceptKeepsMoney
    <2>6. CASE CommitCollision(h)
      BY <2>1, <2>6, FinishKeepsMoney DEF CommitCollision, Reply
    <2> QED
      BY <1>5, <2>2, <2>3, <2>4, <2>5, <2>6 DEF Submit
  <1>6. CASE \E h \in Settlers : Settle(h) \/ \E caller \in Banks : SettleRead(caller, h)
    BY <1>6, ScanKeepsMoney, SettleKeepsMoney DEF Settle
  <1>7. CASE \E h \in Procs : Abort(h)
    BY <1>7, FinishKeepsMoney DEF Abort, db
  <1>8. CASE UNCHANGED vars
    BY <1>1, <1>8 DEF vars
  <1> QED
    BY <1>2, <1>3, <1>4, <1>5, <1>6, <1>7, <1>8 DEF Next

\* The money stays straight outside of races in every reachable state.
THEOREM MoneyInvariance == Spec => []MoneyInv
  BY MoneyInitInv, MoneyNextInv, Invariance, PTL DEF Spec

\* settle loses nothing but in the race of run registry_settle_race: for any
\* number of submissions, settlements and rollbacks at once, what was accepted
\* between two banks is outstanding or claimed, net, unless another commit has
\* written a receivable of theirs while a settlement was open.
THEOREM LossNeedsRace == Spec => []OnlyRacesLose
  <1>1. MoneyInv => OnlyRacesLose
    BY DEF MoneyInv
  <1> QED
    BY <1>1, MoneyInvariance, PTL

\* A re-run of settle claims nothing again, with the same exception: claims of a
\* pair never pass what was accepted.
THEOREM DoubleClaimNeedsRace == Spec => []OnlyRacesClaimTwice
  <1>1. IInv /\ MoneyInv => OnlyRacesClaimTwice
    <2> SUFFICES ASSUME IInv, MoneyInv, NEW p \in Pairs \ raced
                 PROVE  claims[p] <= owed[p]
      BY DEF OnlyRacesClaimTwice
    <2>1. receivables[p] \in Nat /\ claims[p] \in Nat /\ owed[p] \in Nat
      BY MoneyTypes
    <2>2. receivables[p] + claims[p] <= owed[p]
      BY DEF MoneyInv, BacklogInv
    <2> QED
      BY <2>1, <2>2
  <1> QED
    BY <1>1, Invariance, MoneyInvariance, PTL

-----------------------------------------------------------------------------
(* Caps *)

Admitted == {"serial", "receivable", "accept"}   \* past the check, not committed

\* The submissions of a pair that have passed the check and may still add to its
\* receivable.
Passed(p) == {h \in Submitters : stage[h] \in Admitted /\ PairOf(job[h]) = p}

\* What can still come of a pair's receivable.
Prospect(p) == receivables[p] + Cardinality(Passed(p)) * MaxValue

\* A pair that was only ever let in below caps has nothing, or can still come to
\* no more than a cap and one coin per handler.
ProspectInv ==
  \A p \in Pairs :
    \/ NoCap \in letIn[p]
    \/ receivables[p] = 0 /\ Passed(p) = {}
    \/ \E v \in letIn[p] : Prospect(p) < v + Cardinality(Submitters) * MaxValue

\* The admitted are finitely many, so their number is one, and fewer of them have
\* less to add.
LEMMA PassedCount ==
  ASSUME NEW A, NEW B, A \subseteq B, B \subseteq Submitters
  PROVE  /\ IsFiniteSet(A) /\ IsFiniteSet(B)
         /\ Cardinality(A) \in Nat /\ Cardinality(B) \in Nat
         /\ Cardinality(A) * MaxValue \in Nat /\ Cardinality(B) * MaxValue \in Nat
         /\ Cardinality(A) * MaxValue <= Cardinality(B) * MaxValue
         /\ \A h \in B \ A : Cardinality(A) * MaxValue + MaxValue <= Cardinality(B) * MaxValue
  <1>1. IsFiniteSet(A) /\ IsFiniteSet(B)
    BY HandlersAssumption, FS_Subset
  <1>2. Cardinality(A) \in Nat /\ Cardinality(B) \in Nat /\ MaxValue \in Nat
    BY <1>1, FS_CardinalityType, ConstantsAssumption
  <1>3. Cardinality(A) <= Cardinality(B)
    BY <1>1, FS_Subset
  <1>4. ASSUME NEW k \in Nat, NEW n \in Nat, NEW m \in Nat, k <= n
        PROVE  k * m \in Nat /\ n * m \in Nat /\ k * m <= n * m /\ (k < n => k * m + m <= n * m)
    <2>1. PICK d \in Nat : n = k + d
      <3>1. n - k \in Nat /\ n = k + (n - k)
        BY <1>4
      <3> QED
        BY <3>1
    <2>2. k * m \in Nat /\ d * m \in Nat /\ n * m = k * m + d * m
      BY <2>1
    <2>3. ASSUME k < n PROVE m <= d * m
      <3>1. d - 1 \in Nat /\ d * m = (d - 1) * m + m /\ (d - 1) * m \in Nat
        BY <2>1, <2>3
      <3> QED
        BY <3>1
    <2> QED
      BY <2>2, <2>3
  <1>5. ASSUME NEW h \in B \ A PROVE Cardinality(A) < Cardinality(B)
    BY <1>1, <1>2, <1>3, <1>5, FS_Subset
  <1> QED
    BY <1>1, <1>2, <1>3, <1>4, <1>5

\* A step after which a pair has no more outstanding and no more admitted.
LEMMA ProspectKept ==
  ASSUME IInv, ProspectInv, UNCHANGED letIn,
         \A p \in Pairs : receivables'[p] \in Nat /\ receivables'[p] <= receivables[p],
         \A h \in Submitters :
           stage'[h] \in Admitted => stage[h] \in Admitted /\ job'[h] = job[h]
  PROVE  ProspectInv'
  <1> SUFFICES ASSUME NEW p \in Pairs
               PROVE  \/ NoCap \in letIn[p]
                      \/ receivables'[p] = 0 /\ Passed(p)' = {}
                      \/ \E v \in letIn[p] :
                           Prospect(p)' < v + Cardinality(Submitters) * MaxValue
    BY DEF ProspectInv
  <1>1. Passed(p)' \subseteq Passed(p) /\ Passed(p) \subseteq Submitters
    BY DEF Passed, PairOf
  <1>2. receivables[p] \in Nat
    BY MoneyTypes
  <1>3. CASE receivables[p] = 0 /\ Passed(p) = {}
    BY <1>1, <1>2, <1>3
  <1>4. ASSUME NEW v \in letIn[p], NoCap \notin letIn[p],
               Prospect(p) < v + Cardinality(Submitters) * MaxValue
        PROVE  Prospect(p)' < v + Cardinality(Submitters) * MaxValue
    <2>1. v \in Nat
      BY <1>4, ConstantsAssumption DEF IInv, TypeOK
    <2>2. /\ Cardinality(Passed(p)') * MaxValue \in Nat
          /\ Cardinality(Passed(p)) * MaxValue \in Nat
          /\ Cardinality(Passed(p)') * MaxValue <= Cardinality(Passed(p)) * MaxValue
      BY <1>1, PassedCount
    <2>3. Cardinality(Submitters) * MaxValue \in Nat
      BY PassedCount
    <2> QED
      BY <1>2, <1>4, <2>1, <2>2, <2>3 DEF Prospect
  <1> QED
    BY <1>3, <1>4 DEF ProspectInv

\* A handler that ends is no longer admitted.
LEMMA FinishKeepsProspect ==
  ASSUME IInv, ProspectInv, NEW h \in Procs, Finish(h), UNCHANGED <<receivables, letIn>>
  PROVE  ProspectInv'
  <1>1. \A g \in Procs : /\ stage'[g] = IF g = h THEN "idle" ELSE stage[g]
                         /\ g # h => job'[g] = job[g]
    BY DEF Finish, IInv, TypeOK
  <1>2. \A p \in Pairs : receivables'[p] \in Nat /\ receivables'[p] <= receivables[p]
    BY MoneyTypes
  <1> QED
    BY <1>1, <1>2, ProspectKept DEF Admitted, Procs

\* A handler that moves on and is let in by this step by no cap.
LEMMA GotoKeepsProspect ==
  ASSUME IInv, ProspectInv, NEW h \in Procs, NEW s, Goto(h, s),
         s \in Admitted => stage[h] \in Admitted /\ job'[h] = job[h],
         \A g \in Procs \ {h} : job'[g] = job[g],
         UNCHANGED <<receivables, letIn>>
  PROVE  ProspectInv'
  <1>1. \A g \in Procs : stage'[g] = IF g = h THEN s ELSE stage[g]
    BY DEF Goto, IInv, TypeOK
  <1>2. \A p \in Pairs : receivables'[p] \in Nat /\ receivables'[p] <= receivables[p]
    BY MoneyTypes
  <1> QED
    BY <1>1, <1>2, ProspectKept DEF Procs

\* The check: whoever is let in by a cap finds the receivable below it, and there
\* are no more admitted than handlers.
LEMMA CheckKeepsProspect ==
  ASSUME IInv, ProspectInv, NEW h \in Submitters, CheckExposure(h)
  PROVE  ProspectInv'
  <1> DEFINE r == PairOf(job[h])
  <1>1. h \in Procs /\ job[h] \in Jobs /\ UNCHANGED receivables
    BY DEF Procs, CheckExposure, IInv, HandlersInv, Submitting, db
  <1>2. r \in Pairs /\ receivables \in [Pairs -> Nat]
        /\ letIn \in [Pairs -> SUBSET (CapValues \cup {NoCap})]
    BY <1>1, PairOfType, MoneyTypes DEF IInv, TypeOK
  <1>3. CASE Reply(h, "ExposureCapExceeded", {}) /\ UNCHANGED letIn
    BY <1>1, <1>3, FinishKeepsProspect DEF Reply
  <1>4. CASE /\ limit[h] # NoCap => receivables[r] < limit[h]
             /\ Goto(h, "serial")
             /\ letIn' = [letIn EXCEPT ![r] = letIn[r] \cup {limit[h]}]
             /\ UNCHANGED job
    <2>1. \A g \in Procs : stage'[g] = IF g = h THEN "serial" ELSE stage[g]
      BY <1>4 DEF Goto, IInv, TypeOK
    <2> SUFFICES ASSUME NEW p \in Pairs
                 PROVE  \/ NoCap \in letIn'[p]
                        \/ receivables[p] = 0 /\ Passed(p)' = {}
                        \/ \E v \in letIn'[p] :
                             Prospect(p)' < v + Cardinality(Submitters) * MaxValue
      BY <1>1 DEF ProspectInv
    <2>2. CASE p # r
      <3>1. letIn'[p] = letIn[p] /\ Passed(p)' = Passed(p)
        BY <1>2, <1>4, <2>1, <2>2 DEF Passed, Admitted, Procs, PairOf, CheckExposure
      <3> QED
        BY <1>1, <3>1 DEF ProspectInv, Prospect
    <2>3. CASE p = r /\ limit[h] = NoCap
      BY <1>2, <1>4, <2>3
    <2>4. CASE p = r /\ limit[h] # NoCap
      <3>1. limit[h] \in Nat /\ limit[h] \in letIn'[p]
        <4>1. limit[h] \in CapValues /\ \A v \in CapValues : v \in 0..MaxAmount
          BY <1>1, <2>4, ConstantsAssumption DEF IInv, TypeOK
        <4>2. limit[h] \in letIn'[p]
          BY <1>2, <1>4, <2>4
        <4>3. limit[h] \in Nat
          BY <4>1
        <4> QED
          BY <4>2, <4>3
      <3>2. Passed(p)' \subseteq Submitters
        BY DEF Passed
      <3>3. /\ Cardinality(Passed(p)') * MaxValue \in Nat
            /\ Cardinality(Submitters) * MaxValue \in Nat
            /\ Cardinality(Passed(p)') * MaxValue <= Cardinality(Submitters) * MaxValue
        BY <3>2, PassedCount
      <3>4. receivables[p] \in Nat /\ receivables[p] < limit[h] /\ receivables'[p] = receivables[p]
        BY <1>1, <1>2, <1>4, <2>4
      <3>5. Prospect(p)' < limit[h] + Cardinality(Submitters) * MaxValue
        BY <3>1, <3>3, <3>4 DEF Prospect
      <3> QED
        BY <3>1, <3>5
    <2> QED
      BY <2>2, <2>3, <2>4
  <1> QED
    BY <1>3, <1>4 DEF CheckExposure

\* An acceptance adds at most what the prospect already counts for its handler.
LEMMA AcceptKeepsProspect ==
  ASSUME IInv, ProspectInv, NEW h \in Submitters, CommitAccepted(h)
  PROVE  ProspectInv'
  <1> DEFINE r == PairOf(job[h])
             x == Value(job[h].coin)
  <1>1. h \in Procs /\ stage[h] = "accept" /\ job[h] \in Jobs
    BY DEF Procs, CommitAccepted, IInv, HandlersInv, Submitting
  <1>2. r \in Pairs /\ x \in Nat /\ x <= MaxValue /\ MaxValue \in Nat
    BY <1>1, PairOfType, ConstantsAssumption
  <1>3. /\ receivables' = [receivables EXCEPT ![r] = receivables[r] + x]
        /\ letIn' = letIn /\ Finish(h)
    BY DEF CommitAccepted, Reply
  <1>4. \A g \in Procs : /\ stage'[g] = IF g = h THEN "idle" ELSE stage[g]
                         /\ g # h => job'[g] = job[g]
    BY <1>1, <1>3 DEF Finish, IInv, TypeOK
  <1>5. /\ receivables \in [Pairs -> Nat]
        /\ letIn \in [Pairs -> SUBSET (CapValues \cup {NoCap})]
    BY MoneyTypes DEF IInv, TypeOK
  <1> SUFFICES ASSUME NEW p \in Pairs
               PROVE  \/ NoCap \in letIn[p]
                      \/ receivables'[p] = 0 /\ Passed(p)' = {}
                      \/ \E v \in letIn[p] :
                           Prospect(p)' < v + Cardinality(Submitters) * MaxValue
    BY <1>3 DEF ProspectInv
  <1>6. CASE p # r
    <2>1. receivables'[p] = receivables[p]
      BY <1>2, <1>3, <1>5, <1>6
    <2>2. Passed(p)' = Passed(p)
      BY <1>1, <1>4, <1>6 DEF Passed, Admitted, Procs, PairOf
    <2> QED
      BY <2>1, <2>2 DEF ProspectInv, Prospect
  <1>7. CASE p = r
    <2>1. h \in Passed(p)
      BY <1>1, <1>7 DEF Passed, Admitted
    <2>2. Passed(p)' \subseteq Passed(p) /\ h \notin Passed(p)' /\ Passed(p) \subseteq Submitters
      BY <1>1, <1>4 DEF Passed, Admitted, Procs, PairOf
    <2>3. /\ Cardinality(Passed(p)') * MaxValue \in Nat
          /\ Cardinality(Passed(p)) * MaxValue \in Nat
          /\ Cardinality(Passed(p)') * MaxValue + MaxValue <= Cardinality(Passed(p)) * MaxValue
      BY <2>1, <2>2, PassedCount
    <2>4. receivables[p] \in Nat /\ receivables'[p] = receivables[p] + x
      BY <1>2, <1>3, <1>5, <1>7
    <2>5. Prospect(p)' <= Prospect(p) /\ Prospect(p) \in Nat /\ Prospect(p)' \in Nat
      BY <1>2, <2>3, <2>4 DEF Prospect
    <2>6. ASSUME NEW v \in letIn[p], NoCap \notin letIn[p],
                 Prospect(p) < v + Cardinality(Submitters) * MaxValue
          PROVE  Prospect(p)' < v + Cardinality(Submitters) * MaxValue
      <3>1. v \in Nat /\ Cardinality(Submitters) * MaxValue \in Nat
        BY <1>5, <2>6, PassedCount, ConstantsAssumption
      <3> QED
        BY <2>5, <2>6, <3>1
    <2> QED
      BY <2>1, <2>6 DEF ProspectInv
  <1> QED
    BY <1>6, <1>7

\* Every step keeps the prospect of every pair within its bound.
LEMMA ProspectNextInv == IInv /\ ProspectInv /\ [Next]_vars => ProspectInv'
  <1> SUFFICES ASSUME IInv, ProspectInv, [Next]_vars PROVE ProspectInv'
    OBVIOUS
  <1> USE DEF history
  <1>1. ASSUME UNCHANGED <<receivables, letIn, stage, job>>
        PROVE  ProspectInv'
    BY <1>1 DEF ProspectInv, Prospect, Passed, PairOf
  <1>2. CASE \E caller, b \in Banks : RegisterMember(caller, b)
    BY <1>1, <1>2 DEF RegisterMember, mem
  <1>3. CASE \E caller \in Banks, p \in Pairs : \E v \in CapValues : SetCap(caller, p, v)
    BY <1>1, <1>3 DEF SetCap, mem
  <1>4. ASSUME NEW h \in Submitters, NEW j \in Jobs, ReadCap(h, j)
        PROVE  ProspectInv'
    <2>1. h \in Procs /\ Goto(h, "exposure") /\ UNCHANGED <<receivables, letIn>>
          /\ \A g \in Procs \ {h} : job'[g] = job[g]
      BY <1>4 DEF ReadCap, Procs, db, IInv, TypeOK
    <2> QED
      BY <2>1, GotoKeepsProspect DEF Admitted
  <1>5. ASSUME NEW h \in Submitters, Submit(h)
        PROVE  ProspectInv'
    <2>1. h \in Procs
      BY DEF Procs
    <2>2. CASE CheckExposure(h)
      BY <2>2, CheckKeepsProspect
    <2>3. CASE InsertSerial(h)
      BY <2>1, <2>3, GotoKeepsProspect DEF InsertSerial, db, Admitted
    <2>4. CASE AddReceivable(h)
      BY <2>1, <2>4, GotoKeepsProspect, FinishKeepsProspect DEF AddReceivable, db, Admitted
    <2>5. CASE CommitAccepted(h)
      BY <2>5, AcceptKeepsProspect
    <2>6. CASE CommitCollision(h)
      BY <2>1, <2>6, FinishKeepsProspect DEF CommitCollision, Reply
    <2> QED
      BY <1>5, <2>2, <2>3, <2>4, <2>5, <2>6 DEF Submit
  <1>6. ASSUME NEW h \in Settlers,
               \/ SettleDelete(h) \/ SettleVisit(h) \/ SettleLock(h)
               \/ \E caller \in Banks : SettleRead(caller, h)
        PROVE  ProspectInv'
    <2>1. h \in Procs /\ UNCHANGED <<receivables, letIn, job>>
      BY <1>6 DEF Procs, SettleDelete, SettleVisit, SettleLock, SettleRead, db
    <2>2. Goto(h, "scan") \/ Goto(h, "delete") \/ UNCHANGED stage
      BY <1>6 DEF SettleDelete, SettleVisit, SettleLock, SettleRead
    <2> QED
      BY <1>1, <2>1, <2>2, GotoKeepsProspect DEF Admitted
  <1>7. ASSUME NEW h \in Settlers, SettleCommit(h)
        PROVE  ProspectInv'
    <2>1. receivables' = [p \in Pairs |-> IF p \in scan[h].taken THEN 0 ELSE receivables[p]]
          /\ UNCHANGED <<job, letIn>> /\ stage' = [stage EXCEPT ![h] = "idle"]
      BY <1>7 DEF SettleCommit
    <2>2. \A p \in Pairs : receivables'[p] \in Nat /\ receivables'[p] <= receivables[p]
      BY <2>1, MoneyTypes
    <2>3. \A g \in Submitters : stage'[g] \in Admitted => stage[g] \in Admitted
      BY <2>1 DEF IInv, TypeOK, Admitted, Procs
    <2> QED
      BY <2>1, <2>2, <2>3, ProspectKept
  <1>8. CASE \E h \in Procs : Abort(h)
    BY <1>8, FinishKeepsProspect DEF Abort, db
  <1>9. CASE UNCHANGED vars
    BY <1>1, <1>9 DEF vars
  <1> QED
    BY <1>2, <1>3, <1>4, <1>5, <1>6, <1>7, <1>8, <1>9 DEF Next, Settle

\* The exposure check, which takes no lock, lets a pair past its cap by less than
\* one coin for every handler that runs at once, and no further, whatever settle
\* and set_cap do meanwhile.
THEOREM CapsOvershootByHandlers == Spec => []OvershootBounded
  <1>1. Init => ProspectInv
    BY DEF Init, ProspectInv, Passed, Zero, Admitted, Procs
  <1>2. Spec => []ProspectInv
    BY <1>1, ProspectNextInv, Invariance, PTL DEF Spec
  <1>3. IInv /\ ProspectInv => OvershootBounded
    <2> SUFFICES ASSUME IInv, ProspectInv, NEW p \in Pairs,
                        receivables[p] > 0, NoCap \notin letIn[p]
                 PROVE  \E v \in letIn[p] :
                          receivables[p] < v + Cardinality(Submitters) * MaxValue
      BY DEF OvershootBounded
    <2>1. receivables[p] \in Nat
      BY MoneyTypes
    <2>2. PICK v \in letIn[p] : Prospect(p) < v + Cardinality(Submitters) * MaxValue
      BY <2>1 DEF ProspectInv
    <2>3. v \in Nat
      BY <2>2, ConstantsAssumption DEF IInv, TypeOK
    <2>4. Passed(p) \subseteq Submitters
      BY DEF Passed
    <2>5. /\ Cardinality(Passed(p)) * MaxValue \in Nat
          /\ Cardinality(Submitters) * MaxValue \in Nat
      BY <2>4, PassedCount
    <2>6. receivables[p] < v + Cardinality(Submitters) * MaxValue
      BY <2>1, <2>2, <2>3, <2>5 DEF Prospect
    <2> QED
      BY <2>2, <2>6
  <1> QED
    BY <1>2, <1>3, Invariance, PTL
=============================================================================
