--------------------------- MODULE KeyStoreProofs ---------------------------
(***************************************************************************)
(* Proofs about KeyStore, for every number of processes, denominations and *)
(* key pairs.                                                              *)
(***************************************************************************)
EXTENDS KeyStore, TLAPS

\* What a start has in memory when it reaches a stage.
LoadedInv ==
  \A p \in Processes :
    /\ \A i \in 1..N : i < pos[p] => keys[p][Order[i]] \in KeyIds
    /\ stage[p] = "write" => keys[p][File(p)] \in KeyIds
    /\ stage[p] = "recover" => pos[p] = N
    /\ stage[p] \in {"publish", "bind"} => \A f \in Files : keys[p][f] \in KeyIds

\* A key in memory is the one of the file, unless it is still to be written or
\* the file was written over.
MemoryInv ==
  \A p \in Processes, f \in Files :
    keys[p][f] \in KeyIds /\ f \notin overwritten /\ ~(stage[p] = "write" /\ File(p) = f)
      => files[f] = keys[p][f]

\* ca-cert.pem is signed with the key of the file, too.
CertInv == caCert # NoKey /\ Ca \notin overwritten => files[Ca] = caCert

\* The inductive invariant.
IInv == TypeOK /\ LoadedInv /\ MemoryInv /\ CertInv /\ KeysInUseOnDisk /\ HonouredLater

-----------------------------------------------------------------------------
LEMMA FileType ==
  ASSUME TypeOK, NEW p \in Processes
  PROVE  /\ File(p) \in Files
         /\ pos[p] \in 1..N
         /\ File(p) = Ca <=> pos[p] = N
  BY ConstantsAssumption DEF TypeOK, File

LEMMA CaType == Ca \in Files /\ Denominations \subseteq Files /\ Ca \notin Denominations
  BY ConstantsAssumption DEF Files

LEMMA KeyNames == NoKey \notin KeyIds /\ Torn \notin KeyIds /\ Absent \notin KeyIds
  BY ConstantsAssumption

LEMMA InitInv == Init => IInv
<1> SUFFICES ASSUME Init PROVE IInv
  OBVIOUS
<1>0. 1 \in 1..N /\ N # 1
  BY ConstantsAssumption
<1>1. TypeOK
  BY <1>0 DEF Init, TypeOK, NoKeys, Stages
<1>2. LoadedInv /\ MemoryInv
  BY KeyNames, <1>0, ConstantsAssumption DEF Init, LoadedInv, MemoryInv, NoKeys
<1>3. CertInv /\ KeysInUseOnDisk /\ HonouredLater
  BY DEF Init, CertInv, KeysInUseOnDisk, HonouredLater
<1> QED BY <1>1, <1>2, <1>3 DEF IInv

-----------------------------------------------------------------------------
\* A step of one process that leaves the files and what depends on them alone.
LEMMA MemoryStepInv ==
  ASSUME IInv, NEW p \in Processes, UNCHANGED <<files, caCert, world, overwritten>>,
         fresh' \subseteq KeyIds,
         NEW s \in Stages, NEW n \in 1..N, NEW m \in [Files -> KeyIds \cup {NoKey}],
         stage' = [stage EXCEPT ![p] = s], pos' = [pos EXCEPT ![p] = n],
         keys' = [keys EXCEPT ![p] = m],
         s # "write",
         \A i \in 1..N : i < n => m[Order[i]] \in KeyIds,
         s = "recover" => n = N,
         s \in {"publish", "bind", "serving"} => \A f \in Files : m[f] \in KeyIds,
         \A f \in Files : m[f] \in KeyIds /\ f \notin overwritten => files[f] = m[f]
  PROVE  IInv'
<1>1. TypeOK'
  BY DEF IInv, TypeOK, world
<1>2. \A q \in Processes \ {p} : stage'[q] = stage[q] /\ pos'[q] = pos[q] /\ keys'[q] = keys[q]
  BY DEF IInv, TypeOK
<1>3. stage'[p] = s /\ pos'[p] = n /\ keys'[p] = m
  BY DEF IInv, TypeOK
<1>4. LoadedInv'
  BY <1>2, <1>3 DEF IInv, LoadedInv, File
<1>5. MemoryInv'
  BY <1>2, <1>3 DEF IInv, MemoryInv, File
<1>6. CertInv' /\ KeysInUseOnDisk' /\ HonouredLater'
  BY DEF IInv, CertInv, KeysInUseOnDisk, HonouredLater, world
<1> QED BY <1>1, <1>4, <1>5, <1>6 DEF IInv

LEMMA ExitInv ==
  ASSUME IInv, NEW p \in Processes, Exit(p), UNCHANGED <<files, caCert, world, fresh, overwritten>>
  PROVE  IInv'
<1>1. NoKeys \in [Files -> KeyIds \cup {NoKey}] /\ \A f \in Files : NoKeys[f] \notin KeyIds
  BY KeyNames DEF NoKeys
<1>2. "down" \in Stages /\ 1 \in 1..N /\ fresh' \subseteq KeyIds
  BY ConstantsAssumption DEF Stages, IInv, TypeOK
<1>3. \A i \in 1..N : ~(i < 1)
  BY ConstantsAssumption
<1>4. "down" \notin {"write", "recover", "publish", "bind", "serving"}
  OBVIOUS
<1> HIDE DEF NoKeys
<1> QED BY <1>1, <1>2, <1>3, <1>4, MemoryStepInv DEF Exit

\* A stage reached with the same keys.
LEMMA GotoInv ==
  ASSUME IInv, NEW p \in Processes, NEW s \in Stages, Goto(p, s), stage[p] # "write",
         s \notin {"write", "recover"},
         s \in {"publish", "bind", "serving"} => stage[p] \in {"publish", "bind", "serving"},
         UNCHANGED <<files, caCert, world, fresh, overwritten, pos, keys>>
  PROVE  IInv'
<1>1. /\ pos[p] \in 1..N /\ keys[p] \in [Files -> KeyIds \cup {NoKey}]
      /\ pos' = [pos EXCEPT ![p] = pos[p]] /\ keys' = [keys EXCEPT ![p] = keys[p]]
      /\ fresh' \subseteq KeyIds
  BY DEF IInv, TypeOK
<1>2. /\ \A i \in 1..N : i < pos[p] => keys[p][Order[i]] \in KeyIds
      /\ s \in {"publish", "bind", "serving"} => \A f \in Files : keys[p][f] \in KeyIds
  BY DEF IInv, LoadedInv, TypeOK
<1>3. \A f \in Files : keys[p][f] \in KeyIds /\ f \notin overwritten => files[f] = keys[p][f]
  BY DEF IInv, MemoryInv
<1> QED BY <1>1, <1>2, <1>3, MemoryStepInv DEF Goto

\* The key a process advances with completes what it has loaded.
LEMMA Advanced ==
  ASSUME IInv, NEW p \in Processes, NEW k \in KeyIds, Advance(p, k)
  PROVE  \E s \in {"load", "recover", "publish"}, n \in 1..N, m \in [Files -> KeyIds \cup {NoKey}] :
           /\ m = [keys[p] EXCEPT ![File(p)] = k]
           /\ stage' = [stage EXCEPT ![p] = s]
           /\ pos' = [pos EXCEPT ![p] = n]
           /\ keys' = [keys EXCEPT ![p] = m]
           /\ \A i \in 1..N : i < n => m[Order[i]] \in KeyIds
           /\ s = "recover" => n = N
           /\ s = "publish" => \A f \in Files : m[f] \in KeyIds
<1> DEFINE m == [keys[p] EXCEPT ![File(p)] = k]
<1>1. /\ pos[p] \in 1..N /\ File(p) \in Files /\ keys[p] \in [Files -> KeyIds \cup {NoKey}]
      /\ N \in Nat /\ \A i \in 1..N : Order[i] \in Files
  BY FileType, ConstantsAssumption DEF IInv, TypeOK
<1>2. m \in [Files -> KeyIds \cup {NoKey}] /\ keys' = [keys EXCEPT ![p] = m]
  BY <1>1 DEF Advance, IInv, TypeOK
<1>3. \A i \in 1..N : i <= pos[p] => m[Order[i]] \in KeyIds
  BY <1>1 DEF IInv, LoadedInv, File
<1> HIDE DEF m
<1>4. CASE pos[p] = N
  <2>1. stage' = [stage EXCEPT ![p] = "publish"] /\ pos' = [pos EXCEPT ![p] = N]
    BY <1>4 DEF Advance, Goto, IInv, TypeOK
  <2>2. \A f \in Files : m[f] \in KeyIds
    BY <1>1, <1>3, <1>4, ConstantsAssumption
  <2> QED BY <1>1, <1>2, <1>3, <1>4, <2>1, <2>2 DEF m
<1>5. CASE pos[p] # N
  <2> DEFINE s == IF pos[p] + 1 = N THEN "recover" ELSE "load"
  <2>1. /\ stage' = [stage EXCEPT ![p] = s] /\ pos' = [pos EXCEPT ![p] = pos[p] + 1]
    BY <1>5 DEF Advance, Goto
  <2>2. pos[p] + 1 \in 1..N /\ \A i \in 1..N : i < pos[p] + 1 => i <= pos[p]
    BY <1>1, <1>5
  <2>3. s \in {"load", "recover", "publish"} /\ s # "publish" /\ (s = "recover" => pos[p] + 1 = N)
    OBVIOUS
  <2> HIDE DEF s
  <2> QED BY <1>2, <1>3, <2>1, <2>2, <2>3 DEF m
<1> QED BY <1>4, <1>5

LEMMA LoadKeyInv ==
  ASSUME IInv, NEW p \in Processes, LoadKey(p)
  PROVE  IInv'
<1>0. /\ stage[p] = "load" /\ UNCHANGED <<files, caCert, fresh, world, overwritten>>
      /\ File(p) \in Files
  BY FileType DEF LoadKey, disk, IInv
<1>1. CASE files[File(p)] \in KeyIds /\ Advance(p, files[File(p)])
  <2> DEFINE k == files[File(p)]
  <2>1. k \in KeyIds /\ Advance(p, k)
    BY <1>1
  <2> HIDE DEF k
  <2>2. PICK s \in {"load", "recover", "publish"}, n \in 1..N,
             m \in [Files -> KeyIds \cup {NoKey}] :
           /\ m = [keys[p] EXCEPT ![File(p)] = k]
           /\ stage' = [stage EXCEPT ![p] = s]
           /\ pos' = [pos EXCEPT ![p] = n]
           /\ keys' = [keys EXCEPT ![p] = m]
           /\ \A i \in 1..N : i < n => m[Order[i]] \in KeyIds
           /\ s = "recover" => n = N
           /\ s = "publish" => \A f \in Files : m[f] \in KeyIds
    BY <2>1, Advanced
  <2>3. \A f \in Files : m[f] \in KeyIds /\ f \notin overwritten => files[f] = m[f]
    <3> SUFFICES ASSUME NEW f \in Files, m[f] \in KeyIds, f \notin overwritten
                 PROVE  files[f] = m[f]
      OBVIOUS
    <3>1. CASE f = File(p)
      BY <1>0, <2>2, <3>1 DEF k, IInv, TypeOK
    <3>2. CASE f # File(p)
      BY <1>0, <2>2, <3>2 DEF IInv, TypeOK, MemoryInv
    <3> QED BY <3>1, <3>2
  <2>4. /\ s \in Stages /\ s # "write" /\ fresh' \subseteq KeyIds
        /\ s \in {"publish", "bind", "serving"} => s = "publish"
    BY <1>0 DEF Stages, IInv, TypeOK
  <2> QED BY <1>0, <2>2, <2>3, <2>4, MemoryStepInv
<1>2. CASE Exit(p)
  BY <1>0, <1>2, ExitInv
<1>3. CASE Goto(p, "create") /\ UNCHANGED <<pos, keys>>
  BY <1>0, <1>3, GotoInv DEF Stages
<1> QED BY <1>1, <1>2, <1>3 DEF LoadKey

LEMMA StartInv ==
  ASSUME IInv, NEW p \in Processes, Start(p)
  PROVE  IInv'
  BY GotoInv DEF Start, disk, Stages

LEMMA BindInv ==
  ASSUME IInv, NEW p \in Processes, Bind(p)
  PROVE  IInv'
<1>0. stage[p] = "bind" /\ UNCHANGED <<files, caCert, fresh, world, overwritten>>
  BY DEF Bind, disk
<1>1. CASE Exit(p)
  BY <1>0, <1>1, ExitInv
<1>2. CASE Goto(p, "serving") /\ UNCHANGED <<pos, keys>>
  BY <1>0, <1>2, GotoInv DEF Stages
<1> QED BY <1>1, <1>2 DEF Bind

LEMMA FailInv ==
  ASSUME IInv, NEW p \in Processes, Fail(p)
  PROVE  IInv'
  BY ExitInv DEF Fail, disk

-----------------------------------------------------------------------------
\* Whatever becomes of a file: it had no complete content, then nothing depends
\* on it, or it is noted as written over.
LEMMA FileStepKeeps ==
  ASSUME IInv, NEW f \in Files, NEW x, files' = [files EXCEPT ![f] = x], NoteOverwrite(f),
         UNCHANGED <<caCert, world>>
  PROVE  /\ CertInv' /\ KeysInUseOnDisk' /\ HonouredLater'
         /\ overwritten \subseteq overwritten' /\ overwritten' \subseteq Files
         /\ \A g \in Files : g \notin overwritten' /\ files[g] \in KeyIds => files'[g] = files[g]
<1>1. overwritten \subseteq overwritten' /\ overwritten' \subseteq Files
  BY DEF NoteOverwrite, IInv, TypeOK
<1>2. \A g \in Files : g \notin overwritten' /\ files[g] \in KeyIds => files'[g] = files[g]
  BY DEF NoteOverwrite, IInv, TypeOK
<1>3. CertInv'
  BY <1>1, <1>2, CaType DEF IInv, TypeOK, CertInv
<1>4. KeysInUseOnDisk'
  <2>1. UNCHANGED <<blinded, pending, coins, pins, certs>>
    BY DEF world
  <2>2. ASSUME NEW u \in blinded \cup pending \cup coins, u.denom \notin overwritten'
        PROVE  files'[u.denom] = u.key
    <3>1. u.denom \in Files /\ u.key \in KeyIds
      BY CaType DEF IInv, TypeOK, Units
    <3>2. files[u.denom] = u.key
      BY <1>1, <2>2 DEF IInv, KeysInUseOnDisk
    <3> QED BY <1>2, <2>2, <3>1, <3>2
  <2>3. ASSUME NEW k \in pins \cup certs, Ca \notin overwritten'
        PROVE  files'[Ca] = k
    <3>1. k \in KeyIds
      BY DEF IInv, TypeOK
    <3>2. files[Ca] = k
      BY <1>1, <2>3 DEF IInv, KeysInUseOnDisk
    <3> QED BY <1>2, <2>3, <3>1, <3>2, CaType
  <2> QED BY <2>1, <2>2, <2>3 DEF KeysInUseOnDisk
<1>5. HonouredLater'
  BY <1>1 DEF IInv, HonouredLater, world
<1> QED BY <1>1, <1>2, <1>3, <1>4, <1>5

LEMMA CreateKeyInv ==
  ASSUME IInv, NEW p \in Processes, CreateKey(p)
  PROVE  IInv'
<1>1. PICK k \in fresh :
        /\ stage[p] = "create"
        /\ fresh' = fresh \ {k}
        /\ keys' = [keys EXCEPT ![p][File(p)] = k]
        /\ files' = [files EXCEPT ![File(p)] = Torn]
        /\ NoteOverwrite(File(p))
        /\ stage' = [stage EXCEPT ![p] = "write"]
        /\ UNCHANGED <<caCert, pos, world>>
  BY DEF CreateKey, Goto
<1>2. k \in KeyIds /\ File(p) \in Files
  BY FileType DEF IInv, TypeOK
<1>3. /\ CertInv' /\ KeysInUseOnDisk' /\ HonouredLater'
      /\ overwritten \subseteq overwritten' /\ overwritten' \subseteq Files
      /\ \A g \in Files : g \notin overwritten' /\ files[g] \in KeyIds => files'[g] = files[g]
  BY <1>1, <1>2, FileStepKeeps
<1>4. TypeOK'
  BY <1>1, <1>2, <1>3 DEF IInv, TypeOK, Stages, world
<1>5. \A q \in Processes, f \in Files :
        /\ q # p => stage'[q] = stage[q] /\ keys'[q] = keys[q]
        /\ keys'[q][f] = IF q = p /\ f = File(p) THEN k ELSE keys[q][f]
        /\ stage'[p] = "write" /\ File(q)' = File(q)
  BY <1>1, <1>2 DEF IInv, TypeOK, File
<1>6. LoadedInv'
  <2> SUFFICES ASSUME NEW q \in Processes PROVE LoadedInv!(q)'
    BY DEF LoadedInv
  <2>1. \A i \in 1..N : Order[i] \in Files
    BY ConstantsAssumption
  <2>2. UNCHANGED pos /\ File(q) \in Files
    BY <1>1, FileType DEF IInv
  <2>3. CASE q = p
    BY <1>2, <1>5, <2>1, <2>2, <2>3 DEF IInv, LoadedInv
  <2>4. CASE q # p
    BY <1>5, <2>1, <2>2, <2>4 DEF IInv, LoadedInv
  <2> QED BY <2>3, <2>4
<1>7. MemoryInv'
  <2> SUFFICES ASSUME NEW q \in Processes, NEW f \in Files, keys'[q][f] \in KeyIds,
                      f \notin overwritten', ~(stage'[q] = "write" /\ File(q)' = f)
               PROVE  files'[f] = keys'[q][f]
    BY DEF MemoryInv
  <2>1. keys'[q][f] = keys[q][f] /\ ~(stage[q] = "write" /\ File(q) = f)
    BY <1>1, <1>5
  <2>2. files[f] = keys[q][f]
    BY <1>3, <2>1 DEF IInv, MemoryInv
  <2> QED BY <1>3, <2>1, <2>2
<1> QED BY <1>3, <1>4, <1>6, <1>7 DEF IInv

LEMMA WriteKeyInv ==
  ASSUME IInv, NEW p \in Processes, WriteKey(p)
  PROVE  IInv'
<1> DEFINE k == keys[p][File(p)]
<1>1. /\ stage[p] = "write" /\ NoteOverwrite(File(p)) /\ UNCHANGED <<caCert, fresh, world>>
      /\ Advance(p, k)
      /\ k \in KeyIds /\ File(p) \in Files
  BY FileType DEF WriteKey, IInv, LoadedInv
<1>2. PICK x \in {k, Torn} : /\ files' = [files EXCEPT ![File(p)] = x]
                             /\ x # k => files[File(p)] \in KeyIds
  BY DEF WriteKey
<1> HIDE DEF k
<1>3. /\ CertInv' /\ KeysInUseOnDisk' /\ HonouredLater'
      /\ overwritten \subseteq overwritten' /\ overwritten' \subseteq Files
      /\ \A g \in Files : g \notin overwritten' /\ files[g] \in KeyIds => files'[g] = files[g]
  BY <1>1, <1>2, FileStepKeeps
<1>4. PICK s \in {"load", "recover", "publish"}, n \in 1..N,
           m \in [Files -> KeyIds \cup {NoKey}] :
         /\ m = [keys[p] EXCEPT ![File(p)] = k]
         /\ stage' = [stage EXCEPT ![p] = s]
         /\ pos' = [pos EXCEPT ![p] = n]
         /\ keys' = [keys EXCEPT ![p] = m]
         /\ \A i \in 1..N : i < n => m[Order[i]] \in KeyIds
         /\ s = "recover" => n = N
         /\ s = "publish" => \A f \in Files : m[f] \in KeyIds
  BY <1>1, Advanced
<1>5. TypeOK'
  BY <1>1, <1>2, <1>3, <1>4 DEF IInv, TypeOK, Stages, world
<1>6. /\ \A q \in Processes \ {p} : stage'[q] = stage[q] /\ pos'[q] = pos[q] /\ keys'[q] = keys[q]
      /\ stage'[p] = s /\ pos'[p] = n /\ keys'[p] = m
  BY <1>4 DEF IInv, TypeOK
<1>7. LoadedInv'
  BY <1>4, <1>6 DEF IInv, LoadedInv, File
<1>8. MemoryInv'
  <2> SUFFICES ASSUME NEW q \in Processes, NEW f \in Files, keys'[q][f] \in KeyIds,
                      f \notin overwritten', ~(stage'[q] = "write" /\ File(q)' = f)
               PROVE  files'[f] = keys'[q][f]
    BY DEF MemoryInv
  <2>1. CASE q # p
    <3>1. keys'[q] = keys[q] /\ ~(stage[q] = "write" /\ File(q) = f)
      BY <1>6, <2>1 DEF File
    <3>2. files[f] = keys[q][f]
      BY <1>3, <3>1 DEF IInv, MemoryInv
    <3> QED BY <1>3, <3>1, <3>2
  <2>2. CASE q = p /\ f # File(p)
    <3>1. keys'[p][f] = keys[p][f]
      BY <1>4, <1>6, <2>2 DEF IInv, TypeOK
    <3>2. files[f] = keys[p][f]
      BY <1>3, <2>2, <3>1 DEF IInv, MemoryInv
    <3> QED BY <1>3, <2>2, <3>1, <3>2
  <2>3. CASE q = p /\ f = File(p)
    <3>1. keys'[p][f] = k
      BY <1>1, <1>4, <1>6, <2>3 DEF IInv, TypeOK
    <3>2. x = k
      BY <1>1, <1>2, <2>3 DEF NoteOverwrite
    <3>3. files'[f] = x
      BY <1>1, <1>2, <2>3 DEF IInv, TypeOK
    <3> QED BY <2>3, <3>1, <3>2, <3>3
  <2> QED BY <2>1, <2>2, <2>3
<1> QED BY <1>3, <1>5, <1>7, <1>8 DEF IInv

-----------------------------------------------------------------------------
\* A process that has read its denomination keys verifies what depends on them,
\* and one that has its CA key accepts what depends on that.
LEMMA KeyHolds ==
  ASSUME IInv, NEW p \in Processes, stage[p] \in {"recover", "publish", "bind", "serving"}
  PROVE  /\ \A d \in Denominations : keys[p][d] \in KeyIds
         /\ \A d \in Denominations \ overwritten : files[d] = keys[p][d]
         /\ stage[p] # "recover" => /\ keys[p][Ca] \in KeyIds
                                    /\ Ca \notin overwritten => files[Ca] = keys[p][Ca]
<1>1. \A d \in Denominations : keys[p][d] \in KeyIds
  <2>1. CASE stage[p] = "recover"
    <3>1. \A d \in Denominations : \E i \in 1..N : Order[i] = d /\ i < N
      BY ConstantsAssumption, CaType
    <3> QED BY <2>1, <3>1 DEF IInv, LoadedInv
  <2>2. CASE stage[p] # "recover"
    BY <2>2, CaType DEF IInv, LoadedInv, TypeOK
  <2> QED BY <2>1, <2>2
<1>2. stage[p] # "recover" => keys[p][Ca] \in KeyIds
  BY CaType DEF IInv, LoadedInv, TypeOK
<1>3. stage[p] # "write"
  OBVIOUS
<1> QED BY <1>1, <1>2, <1>3, CaType DEF IInv, MemoryInv

\* The denomination key a unit is under is the process's, if it is in use and its
\* file was not written over.
LEMMA Honoured ==
  ASSUME IInv, NEW p \in Processes, stage[p] \in {"recover", "publish", "bind", "serving"},
         NEW u \in blinded \cup pending \cup coins, ~Verifies(p, u)
  PROVE  u.denom \in overwritten
<1>1. u.denom \in Denominations
  BY DEF IInv, TypeOK, Units
<1>2. u.denom \notin overwritten => files[u.denom] = u.key
  BY DEF IInv, KeysInUseOnDisk
<1> QED BY <1>1, <1>2, KeyHolds DEF Verifies

LEMMA RecoverInv ==
  ASSUME IInv, NEW p \in Processes, Recover(p)
  PROVE  IInv'
<1> DEFINE good == {u \in pending : Verifies(p, u)}
           bad == {u \in pending : ~Verifies(p, u)}
<1>1. /\ stage[p] = "recover" /\ stage' = [stage EXCEPT ![p] = "load"]
      /\ coins' = coins \cup good /\ refused' = refused \cup bad /\ pending' = {}
      /\ UNCHANGED <<files, caCert, pos, keys, fresh, pins, certs, blinded, turnedAway,
                     overwritten>>
  BY DEF Recover, Goto, disk
<1>2. good \subseteq pending /\ bad \subseteq pending /\ \A u \in bad : u.denom \in overwritten
  BY <1>1, Honoured
<1> HIDE DEF good, bad
<1>3. TypeOK'
  BY <1>1, <1>2 DEF IInv, TypeOK, Stages
<1>4. LoadedInv' /\ MemoryInv' /\ CertInv'
  BY <1>1 DEF IInv, TypeOK, LoadedInv, MemoryInv, CertInv, File
<1>5. KeysInUseOnDisk' /\ HonouredLater'
  BY <1>1, <1>2 DEF IInv, KeysInUseOnDisk, HonouredLater
<1> QED BY <1>3, <1>4, <1>5 DEF IInv

LEMMA PublishCertInv ==
  ASSUME IInv, NEW p \in Processes, PublishCert(p)
  PROVE  IInv'
<1>1. /\ stage[p] = "publish" /\ stage' = [stage EXCEPT ![p] = "bind"] /\ caCert' = keys[p][Ca]
      /\ UNCHANGED <<files, pos, keys, fresh, world, overwritten>>
  BY DEF PublishCert, Goto
<1>2. keys[p][Ca] \in KeyIds /\ (Ca \notin overwritten => files[Ca] = keys[p][Ca])
  BY <1>1, KeyHolds
<1>3. TypeOK'
  BY <1>1, <1>2 DEF IInv, TypeOK, Stages, world
<1>4. LoadedInv' /\ MemoryInv'
  BY <1>1 DEF IInv, TypeOK, LoadedInv, MemoryInv, File
<1>5. CertInv' /\ KeysInUseOnDisk' /\ HonouredLater'
  BY <1>1, <1>2 DEF IInv, CertInv, KeysInUseOnDisk, HonouredLater, world
<1> QED BY <1>3, <1>4, <1>5 DEF IInv

\* What wallets do changes neither files nor processes.
LEMMA WorldStepInv ==
  ASSUME IInv, UNCHANGED <<files, caCert, stage, pos, keys, fresh, overwritten>>,
         pins' \subseteq KeyIds, certs' \subseteq KeyIds, turnedAway' \subseteq KeyIds,
         blinded' \subseteq Units, pending' \subseteq Units, coins' \subseteq Units,
         refused' \subseteq Units,
         KeysInUseOnDisk', HonouredLater'
  PROVE  IInv'
<1>1. TypeOK'
  BY DEF IInv, TypeOK
<1>2. LoadedInv' /\ MemoryInv' /\ CertInv'
  BY DEF IInv, LoadedInv, MemoryInv, CertInv, File
<1> QED BY <1>1, <1>2 DEF IInv

LEMMA PinInv ==
  ASSUME IInv, Pin
  PROVE  IInv'
<1>1. caCert \in KeyIds
  BY DEF Pin, IInv, TypeOK
<1>2. KeysInUseOnDisk' /\ HonouredLater'
  BY DEF Pin, disk, IInv, CertInv, KeysInUseOnDisk, HonouredLater
<1> QED BY <1>1, <1>2, WorldStepInv DEF Pin, disk, memory, IInv, TypeOK

LEMMA EnrollInv ==
  ASSUME IInv, NEW p \in Processes, NEW k \in KeyIds, Enroll(p, k)
  PROVE  IInv'
<1>1. keys[p][Ca] \in KeyIds /\ (Ca \notin overwritten => files[Ca] = keys[p][Ca])
  BY KeyHolds DEF Enroll
<1>2. certs' = certs \cup {keys[p][Ca]}
  BY DEF Enroll, IssueClientIdentity
<1>3. KeysInUseOnDisk' /\ HonouredLater'
  BY <1>1, <1>2 DEF Enroll, disk, IInv, KeysInUseOnDisk, HonouredLater
<1> QED BY <1>1, <1>2, <1>3, WorldStepInv DEF Enroll, disk, memory, IInv, TypeOK

LEMMA TurnAwayInv ==
  ASSUME IInv, NEW p \in Processes, NEW k \in KeyIds, TurnAway(p, k)
  PROVE  IInv'
<1>1. Ca \notin overwritten => files[Ca] = keys[p][Ca]
  BY KeyHolds DEF TurnAway
<1>2. Ca \in overwritten
  BY <1>1 DEF TurnAway, Handshake, IInv, KeysInUseOnDisk
<1>3. KeysInUseOnDisk' /\ HonouredLater'
  BY <1>2 DEF TurnAway, disk, IInv, KeysInUseOnDisk, HonouredLater
<1> QED BY <1>3, WorldStepInv DEF TurnAway, disk, memory, IInv, TypeOK

LEMMA BlindInv ==
  ASSUME IInv, NEW p \in Processes, NEW d \in Denominations, Blind(p, d)
  PROVE  IInv'
<1>1. keys[p][d] \in KeyIds /\ (d \notin overwritten => files[d] = keys[p][d])
  BY KeyHolds DEF Blind, Connected
<1>2. blinded' = blinded \cup {[denom |-> d, key |-> keys[p][d]]} /\ blinded' \subseteq Units
  BY <1>1 DEF Blind, IInv, TypeOK, Units
<1>3. KeysInUseOnDisk' /\ HonouredLater'
  BY <1>1, <1>2 DEF Blind, disk, IInv, KeysInUseOnDisk, HonouredLater
<1> QED BY <1>2, <1>3, WorldStepInv DEF Blind, disk, memory, IInv, TypeOK

LEMMA RecordInv ==
  ASSUME IInv, NEW p \in Processes, NEW u \in Units, Record(p, u)
  PROVE  IInv'
<1>1. KeysInUseOnDisk' /\ HonouredLater'
  BY DEF Record, disk, IInv, KeysInUseOnDisk, HonouredLater
<1> QED BY <1>1, WorldStepInv DEF Record, disk, memory, IInv, TypeOK

LEMMA SignInv ==
  ASSUME IInv, NEW p \in Processes, NEW u \in Units, Sign(p, u)
  PROVE  IInv'
<1>1. ~Verifies(p, u) => u.denom \in overwritten
  BY Honoured DEF Sign
<1>2. KeysInUseOnDisk' /\ HonouredLater'
  BY <1>1 DEF Sign, disk, IInv, KeysInUseOnDisk, HonouredLater
<1> QED BY <1>2, WorldStepInv DEF Sign, disk, memory, IInv, TypeOK

LEMMA RejectInv ==
  ASSUME IInv, NEW p \in Processes, NEW u \in Units, Reject(p, u)
  PROVE  IInv'
<1>1. u.denom \in overwritten
  BY Honoured DEF Reject, Connected
<1>2. KeysInUseOnDisk' /\ HonouredLater'
  BY <1>1 DEF Reject, disk, IInv, KeysInUseOnDisk, HonouredLater
<1> QED BY <1>2, WorldStepInv DEF Reject, disk, memory, IInv, TypeOK

LEMMA NextInv == IInv /\ [Next]_vars => IInv'
<1> SUFFICES ASSUME IInv, [Next]_vars PROVE IInv'
  OBVIOUS
<1>1. CASE UNCHANGED vars
  BY <1>1 DEF vars, IInv, TypeOK, LoadedInv, MemoryInv, CertInv, KeysInUseOnDisk,
              HonouredLater, File
<1>2. CASE Pin
  BY <1>2, PinInv
<1>3. ASSUME NEW p \in Processes, Start(p) \/ StartUp(p) \/ Fail(p)
      PROVE  IInv'
  BY <1>3, StartInv, LoadKeyInv, CreateKeyInv, WriteKeyInv, RecoverInv, PublishCertInv,
     BindInv, FailInv DEF StartUp
<1>4. ASSUME NEW p \in Processes, Serve(p)
      PROVE  IInv'
  BY <1>4, EnrollInv, TurnAwayInv, BlindInv, RecordInv, SignInv, RejectInv DEF Serve
<1> QED BY <1>1, <1>2, <1>3, <1>4 DEF Next

-----------------------------------------------------------------------------
\* The inductive invariant holds in every reachable state of the directory.
THEOREM Invariance == Spec => []IInv
<1>1. Init => IInv
  BY InitInv
<1>2. IInv /\ [Next]_vars => IInv'
  BY NextInv
<1> QED BY <1>1, <1>2, PTL DEF Spec

\* Types for any number of processes: a start visits the key files within range
\* and serves with all keys.
THEOREM TypeCorrect == Spec => []TypeOK
<1>1. IInv => TypeOK
  BY DEF IInv
<1> QED BY <1>1, Invariance, PTL

\* No torn or missing key file is one that a message, a coin or a certificate
\* depends on, whatever crashes inside create_key (keys.rs, tls.rs).
THEOREM DependedOnDisk == Spec => []KeysInUseOnDisk
<1>1. IInv => KeysInUseOnDisk
  BY DEF IInv
<1> QED BY <1>1, Invariance, PTL

\* Later runs honour what earlier ones signed, blinded and issued, for any number
\* of processes on the directory, unless a complete file was written over.
THEOREM KeysAreStable == Spec => []HonouredLater
<1>1. IInv => HonouredLater
  BY DEF IInv
<1> QED BY <1>1, Invariance, PTL

\* The race for a missing file is over for good once all files are complete and
\* nobody is creating one: load_or_create only reads from then on.
THEOREM FirstStartOnly == Spec => SettledKeysStay
<1>1. IInv /\ [Next]_vars => [Settled => files' = files /\ Settled']_vars
  <2> SUFFICES ASSUME IInv, Next, Settled PROVE files' = files /\ Settled'
    BY DEF vars, Settled
  <2>1. CASE Pin
    BY <2>1 DEF Pin, disk, memory, Settled
  <2>2. ASSUME NEW p \in Processes, Serve(p) PROVE files' = files /\ Settled'
    BY <2>2 DEF Serve, Enroll, TurnAway, Blind, Record, Sign, Reject, disk, memory, Settled
  <2>3. ASSUME NEW p \in Processes, Start(p) \/ StartUp(p) \/ Fail(p)
        PROVE  files' = files /\ Settled'
    <3>1. /\ stage[p] \notin {"create", "write"} /\ files[File(p)] \in KeyIds
          /\ files[File(p)] # Absent
      BY FileType, KeyNames DEF Settled, IInv
    <3>2. files' = files /\ \E s \in Stages \ {"create", "write"} : Goto(p, s)
      BY <2>3, <3>1 DEF Start, StartUp, Fail, LoadKey, CreateKey, WriteKey, Recover,
         PublishCert, Bind, Exit, Advance, Goto, disk, Stages
    <3> QED BY <3>2 DEF Settled, Goto, IInv, TypeOK
  <2> QED BY <2>1, <2>2, <2>3 DEF Next
<1> QED BY <1>1, Invariance, PTL DEF Spec, SettledKeysStay
=============================================================================
