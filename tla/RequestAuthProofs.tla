-------------------------- MODULE RequestAuthProofs -------------------------
(***************************************************************************)
(* Proofs about RequestAuth, for every window, lifetime, stall and set of  *)
(* requests.                                                               *)
(***************************************************************************)
EXTENDS RequestAuth, TLAPS

\* What a handler knows about the request it checks.
HandlersInv ==
  \A h \in Handlers :
    /\ stage[h] # "idle" => job[h] \in Requests /\ identities[job[h].account] = job[h].key
    /\ stage[h] = "nonce" => /\ seen[h] <= job[h].timestamp + Skew
                             /\ now <= seen[h] + MaxStall

\* The earliest reading the last passage of a request can have had.
Earliest(m) == first[m] + (admitted[m] - 1) * (TTL - MaxStall)

\* What is left of a passage: its key is registered, and its nonce is stored
\* until the expiry of the last passage is over.
PassedInv ==
  \A m \in Requests : admitted[m] > 0 =>
    /\ identities[m.account] = m.key
    /\ Earliest(m) + TTL <= nonce_store[m.nonce] \/ Earliest(m) + TTL <= now

\* A request that acted is about its own account, whose key signed it.
ActedInv == \A m \in acted : m.account = m.target /\ identities[m.account] = m.key

\* The inductive invariant.
IInv == TypeOK /\ HandlersInv /\ PassedInv /\ ActedInv /\ ReplayBound

-----------------------------------------------------------------------------
\* Field types of a signed request.
LEMMA RequestType ==
  ASSUME NEW m \in Requests
  PROVE  /\ m.account \in AccountIds
         /\ m.key \in Keys
         /\ m.timestamp \in Nat
         /\ m.nonce \in Nonces
         /\ m # NoRequest
         /\ m.key # NoKey
BY ConstantsAssumption DEF SignedRequests

\* Products in ReplayBound.
LEMMA OneMore ==
  ASSUME NEW k \in Int, NEW d \in Int
  PROVE  (k + 1) * d = k * d + d
OBVIOUS

LEMMA NonNegativeProduct ==
  ASSUME NEW k \in Nat, NEW d \in Nat
  PROVE  k * d \in Nat
OBVIOUS

\* Earliest is a time.
LEMMA EarliestType ==
  ASSUME TypeOK, NEW m \in Requests
  PROVE  Earliest(m) \in Int
BY ConstantsAssumption DEF TypeOK, Earliest

LEMMA InitInv == Init => IInv
<1> SUFFICES ASSUME Init PROVE IInv
  OBVIOUS
<1>1. TypeOK
  BY ConstantsAssumption DEF Init, TypeOK
<1>2. HandlersInv /\ PassedInv /\ ActedInv /\ ReplayBound
  BY DEF Init, HandlersInv, PassedInv, ActedInv, ReplayBound
<1> QED BY <1>1, <1>2 DEF IInv

LEMMA TickInv == IInv /\ Tick => IInv'
<1> SUFFICES ASSUME IInv, Tick PROVE IInv'
  OBVIOUS
<1> USE DEF IInv, Tick
<1>1. TypeOK'
  BY ConstantsAssumption DEF TypeOK
<1>2. HandlersInv'
  BY ConstantsAssumption DEF HandlersInv, TypeOK
<1>3. PassedInv'
  <2> SUFFICES ASSUME NEW m \in Requests, admitted[m] > 0
               PROVE  Earliest(m) + TTL <= nonce_store[m.nonce] \/ Earliest(m) + TTL <= now + 1
    BY DEF PassedInv, Earliest
  <2>1. Earliest(m) + TTL <= nonce_store[m.nonce] \/ Earliest(m) + TTL <= now
    BY DEF PassedInv
  <2> QED BY <2>1, EarliestType, ConstantsAssumption DEF TypeOK
<1>4. ActedInv' /\ ReplayBound'
  BY DEF ActedInv, ReplayBound
<1> QED BY <1>1, <1>2, <1>3, <1>4

LEMMA RegisterInv ==
  ASSUME IInv, NEW a \in AccountIds, NEW k \in Keys, Register(a, k)
  PROVE  IInv'
<1> USE DEF IInv, Register, RegisterIdentity
<1>1. TypeOK'
  BY DEF TypeOK
<1>2. HandlersInv'
  BY RequestType DEF HandlersInv, TypeOK
<1>3. PassedInv' /\ ReplayBound'
  BY RequestType DEF PassedInv, ReplayBound, Earliest, TypeOK
<1>4. ActedInv'
  BY RequestType DEF ActedInv, TypeOK
<1> QED BY <1>1, <1>2, <1>3, <1>4

LEMMA AuthenticateInv ==
  ASSUME IInv, NEW h \in Handlers, NEW m \in Requests, Authenticate(h, m)
  PROVE  IInv'
<1> USE DEF IInv, Authenticate, Verifies, IdentityPubkey
<1>1. TypeOK'
  BY DEF TypeOK
<1>2. HandlersInv'
  BY ConstantsAssumption, RequestType DEF HandlersInv, TypeOK
<1>3. PassedInv' /\ ActedInv' /\ ReplayBound'
  BY DEF PassedInv, ActedInv, ReplayBound, Earliest
<1> QED BY <1>1, <1>2, <1>3

\* A purge at a reading of the clock drops only nonces that are over by now.
LEMMA PurgeKeeps ==
  ASSUME IInv, NEW t \in 0..now, nonce_store' = Purged(t),
         UNCHANGED <<identities, now, admitted, first>>
  PROVE  /\ nonce_store' \in [Nonces -> Nat]
         /\ PassedInv'
<1>1. nonce_store' \in [Nonces -> Nat]
  BY DEF IInv, TypeOK, Purged
<1>2. ASSUME NEW m \in Requests, admitted[m] > 0
      PROVE  Earliest(m) + TTL <= nonce_store'[m.nonce] \/ Earliest(m) + TTL <= now
  BY <1>2, ConstantsAssumption, RequestType, EarliestType DEF IInv, TypeOK, PassedInv, Purged
<1> QED BY <1>1, <1>2 DEF IInv, PassedInv, Earliest

\* A handler that ends keeps the rest.
LEMMA FinishKeeps ==
  ASSUME IInv, NEW h \in Handlers, Finish(h), UNCHANGED <<identities, now>>
  PROVE  /\ stage' \in [Handlers -> {"idle", "nonce", "purge", "prune", "handle"}]
         /\ job' \in [Handlers -> Requests \cup {NoRequest}]
         /\ seen' \in [Handlers -> 0..now]
         /\ HandlersInv'
<1> USE DEF IInv, Finish
<1>1. now \in Nat
  BY ConstantsAssumption DEF TypeOK
<1>2. /\ stage' \in [Handlers -> {"idle", "nonce", "purge", "prune", "handle"}]
      /\ job' \in [Handlers -> Requests \cup {NoRequest}]
      /\ seen' \in [Handlers -> 0..now]
  BY <1>1 DEF TypeOK
<1>3. HandlersInv'
  BY DEF HandlersInv, TypeOK
<1> QED BY <1>2, <1>3

\* A handler that goes on past the nonce keeps the rest.
LEMMA AdvanceKeeps ==
  ASSUME IInv, NEW h \in Handlers, stage[h] # "idle", NEW s \in {"purge", "prune", "handle"},
         stage' = [stage EXCEPT ![h] = s], UNCHANGED <<job, seen, identities, now>>
  PROVE  /\ stage' \in [Handlers -> {"idle", "nonce", "purge", "prune", "handle"}]
         /\ job' \in [Handlers -> Requests \cup {NoRequest}]
         /\ seen' \in [Handlers -> 0..now]
         /\ HandlersInv'
BY DEF IInv, TypeOK, HandlersInv

LEMMA PurgeExpiredInv ==
  ASSUME IInv, NEW h \in Handlers, PurgeExpired(h)
  PROVE  IInv'
<1>1. seen[h] \in 0..now
  BY DEF IInv, TypeOK
<1>2. nonce_store' \in [Nonces -> Nat] /\ PassedInv'
  BY <1>1, PurgeKeeps DEF PurgeExpired
<1>3. /\ stage' \in [Handlers -> {"idle", "nonce", "purge", "prune", "handle"}]
      /\ job' \in [Handlers -> Requests \cup {NoRequest}]
      /\ seen' \in [Handlers -> 0..now]
      /\ HandlersInv'
  <2>1. CASE stage[h] = "prune" /\ Finish(h)
    BY <2>1, FinishKeeps DEF PurgeExpired
  <2>2. CASE /\ stage[h] = "purge" /\ stage' = [stage EXCEPT ![h] = "handle"]
             /\ UNCHANGED <<job, seen>>
    BY <2>2, AdvanceKeeps DEF PurgeExpired
  <2> QED BY <2>1, <2>2 DEF PurgeExpired
<1>4. TypeOK'
  BY <1>2, <1>3 DEF PurgeExpired, IInv, TypeOK
<1>5. ActedInv' /\ ReplayBound'
  BY DEF PurgeExpired, IInv, ActedInv, ReplayBound
<1> QED BY <1>2, <1>3, <1>4, <1>5 DEF IInv

\* A request acts under the key that HandlersInv says is registered.
LEMMA HandleInv ==
  ASSUME IInv, NEW h \in Handlers, Handle(h)
  PROVE  IInv'
<1>1. job[h] \in Requests /\ identities[job[h].account] = job[h].key
  BY DEF Handle, IInv, HandlersInv
<1>2. HandlersInv' /\ TypeOK'
  BY <1>1, FinishKeeps DEF Handle, IInv, TypeOK
<1>3. ActedInv'
  BY <1>1 DEF Handle, IInv, ActedInv, EnsureAccount
<1>4. PassedInv' /\ ReplayBound'
  BY DEF Handle, IInv, PassedInv, ReplayBound, Earliest
<1> QED BY <1>2, <1>3, <1>4 DEF IInv

LEMMA AbortInv ==
  ASSUME IInv, NEW h \in Handlers, Abort(h)
  PROVE  IInv'
<1>1. HandlersInv' /\ TypeOK'
  BY FinishKeeps DEF Abort, IInv, TypeOK
<1>2. PassedInv' /\ ActedInv' /\ ReplayBound'
  BY DEF Abort, IInv, PassedInv, ActedInv, ReplayBound, Earliest
<1> QED BY <1>1, <1>2 DEF IInv

LEMMA RestartInv == IInv /\ Restart => IInv'
<1> SUFFICES ASSUME IInv, Restart PROVE IInv'
  OBVIOUS
<1>1. now \in 0..now /\ now \in Nat
  BY ConstantsAssumption DEF IInv, TypeOK
<1>2. nonce_store' \in [Nonces -> Nat] /\ PassedInv'
  BY <1>1, PurgeKeeps DEF Restart
<1>3. TypeOK'
  BY <1>1, <1>2, ConstantsAssumption DEF Restart, IInv, TypeOK
<1>4. HandlersInv' /\ ActedInv' /\ ReplayBound'
  BY DEF Restart, IInv, HandlersInv, ActedInv, ReplayBound
<1> QED BY <1>2, <1>3, <1>4 DEF IInv

\* The nonce insert.  When it succeeds for a request that passed before, the
\* expiry of the last passage is at most the clock, and the clock is at most
\* MaxStall past the reading, which lies within the request's window.
LEMMA CheckAndRecordNonceInv ==
  ASSUME IInv, NEW h \in Handlers, CheckAndRecordNonce(h)
  PROVE  IInv'
<1> USE DEF IInv
<1>m. PICK m \in Requests : m = job[h]
  BY DEF CheckAndRecordNonce, HandlersInv
<1> DEFINE fresh == ~Stored(m.nonce) \/ nonce_store[m.nonce] <= seen[h]
<1>0. /\ identities[m.account] = m.key
      /\ seen[h] <= m.timestamp + Skew
      /\ now <= seen[h] + MaxStall
      /\ seen[h] \in Nat /\ seen[h] <= now /\ now \in Nat
      /\ Skew \in Nat /\ TTL \in Nat /\ MaxStall \in Nat
      /\ m.nonce \in Nonces /\ m.timestamp \in Nat
      /\ nonce_store[m.nonce] \in Nat /\ first[m] \in Nat /\ admitted[m] \in Nat
      /\ UNCHANGED <<identities, now, acted>>
  BY <1>m, ConstantsAssumption, RequestType DEF CheckAndRecordNonce, HandlersInv, TypeOK
<1>1. nonce_ops' \in 0..(PruneInterval - 1)
  BY ConstantsAssumption DEF CheckAndRecordNonce, TypeOK
<1>2. /\ stage' \in [Handlers -> {"idle", "nonce", "purge", "prune", "handle"}]
      /\ job' \in [Handlers -> Requests \cup {NoRequest}]
      /\ seen' \in [Handlers -> 0..now]
      /\ HandlersInv'
  <2>1. CASE Finish(h)
    BY <2>1, <1>0, FinishKeeps
  <2>2. CASE ~Finish(h)
    <3>1. \E s \in {"purge", "prune", "handle"} :
             stage' = [stage EXCEPT ![h] = s] /\ UNCHANGED <<job, seen>>
      BY <2>2 DEF CheckAndRecordNonce
    <3> QED BY <1>0, <3>1, AdvanceKeeps DEF CheckAndRecordNonce
  <2> QED BY <2>1, <2>2
<1>3. ActedInv'
  BY <1>0 DEF ActedInv
<1>4. CASE ~fresh
  <2>1. UNCHANGED <<nonce_store, admitted, first>>
    BY <1>m, <1>4 DEF CheckAndRecordNonce
  <2>2. TypeOK'
    BY <1>0, <1>1, <1>2, <2>1 DEF TypeOK
  <2>3. PassedInv' /\ ReplayBound'
    BY <1>0, <2>1 DEF PassedInv, ReplayBound, Earliest
  <2> QED BY <1>2, <1>3, <2>2, <2>3
<1>5. CASE fresh
  <2>1. /\ nonce_store' = [nonce_store EXCEPT ![m.nonce] = seen[h] + TTL]
        /\ admitted' = [admitted EXCEPT ![m] = admitted[m] + 1]
        /\ first' = [first EXCEPT ![m] = IF admitted[m] = 0 THEN seen[h] ELSE first[m]]
    BY <1>m, <1>5 DEF CheckAndRecordNonce
  <2>2. TypeOK'
    BY <1>0, <1>1, <1>2, <2>1 DEF TypeOK
  <2>3. nonce_store[m.nonce] <= now
    BY <1>0, <1>5 DEF Stored
  <2>a. \A q \in Requests : q # m => Earliest(q)' = Earliest(q)
    BY <1>0, <2>1 DEF TypeOK, Earliest
  <2>b. Earliest(m)' <= seen[h]
    <3>1. CASE admitted[m] = 0
      <4>1. first'[m] = seen[h] /\ admitted'[m] = 1
        BY <1>0, <2>1, <3>1 DEF TypeOK
      <4> QED BY <1>0, <4>1 DEF Earliest
    <3>2. CASE admitted[m] # 0
      <4>1. first'[m] = first[m] /\ admitted'[m] = admitted[m] + 1
        BY <1>0, <2>1, <3>2 DEF TypeOK
      <4>2. (admitted[m] + 1 - 1) * (TTL - MaxStall)
              = (admitted[m] - 1) * (TTL - MaxStall) + (TTL - MaxStall)
        <5>1. admitted[m] - 1 \in Int /\ TTL - MaxStall \in Int
          BY <1>0
        <5>2. admitted[m] + 1 - 1 = (admitted[m] - 1) + 1
          BY <1>0
        <5> QED BY <5>1, <5>2, OneMore
      <4>3. Earliest(m)' = Earliest(m) + (TTL - MaxStall)
        <5>1. (admitted[m] - 1) * (TTL - MaxStall) \in Int
          BY <1>0
        <5> QED BY <1>0, <4>1, <4>2, <5>1 DEF Earliest
      <4>4. Earliest(m) \in Int
        BY <1>0, EarliestType
      <4>5. Earliest(m) + TTL <= nonce_store[m.nonce] \/ Earliest(m) + TTL <= now
        BY <1>0, <3>2 DEF PassedInv
      <4> QED BY <1>0, <2>3, <4>3, <4>4, <4>5
    <3> QED BY <3>1, <3>2
  <2>c. Earliest(m)' \in Int
    BY <1>0, <2>2 DEF TypeOK, Earliest
  <2>4. PassedInv'
    <3> SUFFICES ASSUME NEW q \in Requests, admitted'[q] > 0
                 PROVE  /\ identities[q.account] = q.key
                        /\ \/ Earliest(q)' + TTL <= nonce_store'[q.nonce]
                           \/ Earliest(q)' + TTL <= now
      BY <1>0 DEF PassedInv
    <3>1. CASE q = m
      <4>1. nonce_store'[m.nonce] = seen[h] + TTL
        BY <1>0, <2>1 DEF TypeOK
      <4> QED BY <1>0, <2>b, <2>c, <3>1, <4>1
    <3>2. CASE q # m
      <4>1. /\ Earliest(q)' = Earliest(q) /\ Earliest(q) \in Int
            /\ identities[q.account] = q.key
            /\ Earliest(q) + TTL <= nonce_store[q.nonce] \/ Earliest(q) + TTL <= now
        BY <2>1, <2>a, <3>2, EarliestType DEF PassedInv, TypeOK
      <4>2. CASE q.nonce = m.nonce
        BY <1>0, <2>3, <4>1, <4>2
      <4>3. CASE q.nonce # m.nonce
        BY <2>1, <4>1, <4>3, RequestType DEF TypeOK
      <4> QED BY <4>2, <4>3
    <3> QED BY <3>1, <3>2
  <2>5. ReplayBound'
    <3> SUFFICES ASSUME NEW q \in Requests, admitted'[q] > 0
                 PROVE  Earliest(q)' <= q.timestamp + Skew
      BY DEF ReplayBound, Earliest
    <3>1. CASE q = m
      BY <1>0, <2>b, <2>c, <3>1
    <3>2. CASE q # m
      <4>1. admitted'[q] = admitted[q] /\ Earliest(q)' = Earliest(q)
        BY <2>1, <2>a, <3>2 DEF TypeOK
      <4> QED BY <4>1 DEF ReplayBound, Earliest
    <3> QED BY <3>1, <3>2
  <2> QED BY <1>2, <1>3, <2>2, <2>4, <2>5
<1> QED BY <1>4, <1>5

LEMMA NextInv == IInv /\ [Next]_vars => IInv'
<1> SUFFICES ASSUME IInv, [Next]_vars PROVE IInv'
  OBVIOUS
<1>1. CASE UNCHANGED vars
  BY <1>1 DEF vars, IInv, TypeOK, HandlersInv, PassedInv, ActedInv, ReplayBound, Earliest
<1> QED BY <1>1, TickInv, RegisterInv, AuthenticateInv, CheckAndRecordNonceInv,
           PurgeExpiredInv, HandleInv, AbortInv, RestartInv DEF Next

-----------------------------------------------------------------------------
\* The inductive invariant holds in every reachable state of the checks.
THEOREM Invariance == Spec => []IInv
<1>1. Init => IInv
  BY InitInv
<1>2. IInv /\ [Next]_vars => IInv'
  BY NextInv
<1> QED BY <1>1, <1>2, PTL DEF Spec

\* Types for any number of handlers: the prune counter wraps inside its range and
\* every clock reading a handler keeps is one the clock has shown.
THEOREM TypeCorrect == Spec => []TypeOK
<1>1. IInv => TypeOK
  BY DEF IInv
<1> QED BY <1>1, Invariance, PTL

\* A request's passages lie a lifetime less the stall apart, and inside its window.
THEOREM ReplayIsBounded == Spec => []ReplayBound
<1>1. IInv => ReplayBound
  BY DEF IInv
<1> QED BY <1>1, Invariance, PTL

\* An account is only ever acted on under one key: ensure_account and the key
\* lookup tie every request that reaches the ledger to the first key registered.
THEOREM KeyIsFixed == Spec => []OneKeyPerAccount
<1>1. IInv => OneKeyPerAccount
  BY DEF IInv, ActedInv, OneKeyPerAccount
<1> QED BY <1>1, Invariance, PTL

\* With the code's constants (NONCE_TTL_SECS is twice MAX_TIMESTAMP_SKEW_SECS) and
\* no handler held for as long as the skew, a request passes at most twice, and a
\* second time only if the first passage was at the opening of its window.
THEOREM CodeConstantsBoundReplay ==
  ASSUME TTL = 2 * Skew, MaxStall < Skew
  PROVE  Spec => []OneReplayAtMost
<1> DEFINE OpeningInv == \A m \in Requests : admitted[m] > 0 => m.timestamp <= first[m] + Skew
           Window == \A h \in Handlers : stage[h] = "nonce" => job[h].timestamp <= seen[h] + Skew
           J == OpeningInv /\ Window
<1>1. Init => J
  BY DEF Init
<1>2. IInv /\ J /\ [Next]_vars => J'
  <2> SUFFICES ASSUME IInv, J, [Next]_vars PROVE J'
    OBVIOUS
  <2> USE DEF IInv
  <2>1. CASE UNCHANGED <<stage, job, seen, admitted, first>>
    BY <2>1
  <2>2. ASSUME NEW h \in Handlers, NEW m \in Requests, Authenticate(h, m) PROVE J'
    BY <2>2 DEF Authenticate, TypeOK
  <2>3. ASSUME NEW h \in Handlers, CheckAndRecordNonce(h) PROVE J'
    <3>1. Window'
      BY <2>3 DEF CheckAndRecordNonce, Finish, TypeOK
    <3>2. stage[h] = "nonce" /\ job[h] \in Requests /\ job[h].timestamp <= seen[h] + Skew
      BY <2>3 DEF CheckAndRecordNonce, HandlersInv
    <3>3. OpeningInv'
      BY <2>3, <3>2 DEF CheckAndRecordNonce, TypeOK
    <3> QED BY <3>1, <3>3
  <2>4. ASSUME NEW h \in Handlers, PurgeExpired(h) \/ Handle(h) \/ Abort(h) PROVE J'
    BY <2>4 DEF PurgeExpired, Handle, Abort, Finish, TypeOK
  <2>5. CASE Restart
    BY <2>5 DEF Restart
  <2> QED BY <2>1, <2>2, <2>3, <2>4, <2>5 DEF Next, Tick, Register, vars
<1>3. IInv /\ J => OneReplayAtMost
  <2> SUFFICES ASSUME IInv, J, NEW m \in Requests PROVE OneReplayAtMost!(m)
    BY DEF OneReplayAtMost
  <2>1. /\ admitted[m] \in Nat /\ first[m] \in Nat /\ m.timestamp \in Nat
        /\ Skew \in Nat /\ MaxStall \in Nat /\ TTL \in Nat
    BY ConstantsAssumption, RequestType DEF IInv, TypeOK
  <2>2. CASE admitted[m] = 0
    BY <2>1, <2>2
  <2>3. CASE admitted[m] > 0
    <3>1. /\ m.timestamp <= first[m] + Skew
          /\ first[m] + (admitted[m] - 1) * (TTL - MaxStall) <= m.timestamp + Skew
      BY <2>3 DEF IInv, ReplayBound
    <3>2. PICK gap \in Int : gap = TTL - MaxStall
      BY <2>1
    <3>3. gap > Skew /\ gap = 2 * Skew - MaxStall
      BY <2>1, <3>2
    <3>4. admitted[m] <= 2
      <4> SUFFICES ASSUME admitted[m] > 2 PROVE FALSE
        BY <2>1
      <4>1. PICK k \in Nat : admitted[m] - 1 = k + 2
        <5>1. admitted[m] - 3 \in Nat /\ admitted[m] - 1 = (admitted[m] - 3) + 2
          BY <2>1
        <5> QED BY <5>1
      <4>2. k * gap \in Nat
        <5>1. gap \in Nat
          BY <2>1, <3>2, <3>3
        <5> QED BY <5>1, NonNegativeProduct
      <4>3. (k + 2) * gap = k * gap + gap + gap
        <5>1. (k + 1 + 1) * gap = (k + 1) * gap + gap /\ (k + 1) * gap = k * gap + gap
          BY OneMore
        <5> QED BY <5>1, k + 2 = k + 1 + 1
      <4> QED BY <2>1, <3>1, <3>2, <3>3, <4>1, <4>2, <4>3
    <3>5. admitted[m] = 2 => first[m] + Skew <= m.timestamp + MaxStall
      BY <2>1, <3>1, <3>2, <3>3
    <3> QED BY <3>4, <3>5
  <2> QED BY <2>1, <2>2, <2>3
<1> HIDE DEF J
<1> QED BY <1>1, <1>2, <1>3, Invariance, PTL DEF Spec
=============================================================================
