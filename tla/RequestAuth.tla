---------------------------- MODULE RequestAuth -----------------------------
(***************************************************************************)
(* Signed requests at the bank (digicash-bank/src/auth.rs and the nonce    *)
(* store of bank.rs): registration of the identity key, the timestamp      *)
(* window, the nonce insert, the purges and the account check of the       *)
(* handlers (api.rs).  The network may deliver a request any number of     *)
(* times.  A handler reads the clock once and uses the reading for the     *)
(* window, for the nonce's expiry and for the purge, while the clock goes  *)
(* on and other handlers run.                                              *)
(***************************************************************************)
EXTENDS Integers

CONSTANTS AccountIds,
          Keys,           \* Ed25519 identity keys
          Nonces,
          Requests,       \* the signed requests the network delivers
          Handlers,       \* handlers that may run at the same time
          Skew,           \* MAX_TIMESTAMP_SKEW_SECS
          TTL,            \* NONCE_TTL_SECS
          PruneInterval,  \* NONCE_PRUNE_INTERVAL
          MaxStall,       \* seconds from a clock reading to its nonce insert
          MaxTime,        \* bound on the clock
          NoKey, NoRequest

\* AuthHeaders, the key the signature was made with, and the account the
\* request is about (its body or path).
SignedRequests ==
  [account : AccountIds, timestamp : Nat, nonce : Nonces, key : Keys, target : AccountIds]

ASSUME ConstantsAssumption ==
  /\ Skew \in Nat /\ TTL \in Nat /\ MaxStall \in Nat /\ MaxTime \in Nat
  /\ PruneInterval \in Nat \ {0}
  /\ Requests \subseteq SignedRequests
  /\ NoKey \notin Keys
  /\ NoRequest \notin Requests

VARIABLES
  identities,  \* table identities: the key registered for an account
  nonce_store, \* table nonce_store: expires_at of a nonce, 0 where there is no row
  nonce_ops,   \* nonces recorded since the last prune
  now,         \* the bank's clock, in seconds
  stage,       \* what a handler does next; it purges before a "handle" or,
               \* for a replay, before the refusal ("prune")
  job,         \* the request a handler checks
  seen,        \* the clock reading it took
  admitted,    \* history: how often each request passed the nonce check
  first,       \* history: the reading it first passed with
  acted        \* history: requests that reached the ledger

vars == <<identities, nonce_store, nonce_ops, now, stage, job, seen, admitted, first,
          acted>>

Init ==
  /\ identities = [a \in AccountIds |-> NoKey]
  /\ nonce_store = [n \in Nonces |-> 0]
  /\ nonce_ops = 0
  /\ now = 1
  /\ stage = [h \in Handlers |-> "idle"]
  /\ job = [h \in Handlers |-> NoRequest]
  /\ seen = [h \in Handlers |-> 0]
  /\ admitted = [m \in Requests |-> 0]
  /\ first = [m \in Requests |-> 0]
  /\ acted = {}

\* A nonce has a row from its insert to its purge (an expiry is never 0).
Stored(n) == nonce_store[n] # 0

Finish(h) ==
  /\ stage' = [stage EXCEPT ![h] = "idle"]
  /\ job' = [job EXCEPT ![h] = NoRequest]
  /\ seen' = [seen EXCEPT ![h] = 0]

\* DELETE FROM nonce_store WHERE expires_at <= t
Purged(t) == [n \in Nonces |-> IF nonce_store[n] <= t THEN 0 ELSE nonce_store[n]]

-----------------------------------------------------------------------------
\* A second of the clock passes.  A handler is never held for longer than
\* MaxStall between its clock reading and its nonce insert.
Tick ==
  /\ now < MaxTime
  /\ \A h \in Handlers : stage[h] = "nonce" => now < seen[h] + MaxStall
  /\ now' = now + 1
  /\ UNCHANGED <<identities, nonce_store, nonce_ops, stage, job, seen, admitted, first, acted>>

\* register_identity: the first key of an account is kept, a second one refused.
RegisterIdentity(a, k) ==
  /\ identities[a] = NoKey
  /\ identities' = [identities EXCEPT ![a] = k]

\* POST /register.  The client certificate it issues is not recorded, and an
\* error in issuing it leaves the key registered.
Register(a, k) ==
  /\ RegisterIdentity(a, k)
  /\ UNCHANGED <<nonce_store, nonce_ops, now, stage, job, seen, admitted, first, acted>>

\* identity_pubkey: the key registered for an account, if any.
IdentityPubkey(a) == identities[a]

\* The signature over the canonical payload (method, path, body, timestamp and
\* nonce) verifies under exactly the key it was made with.
Verifies(k, m) == k = m.key

\* Wrong variant: the request's timestamp is used for the clock reading.
AuthenticateTrustsTimestamp(h, m) ==
  /\ stage[h] = "idle"
  /\ Verifies(IdentityPubkey(m.account), m)
  /\ m.timestamp + Skew >= now
  /\ m.timestamp <= now + Skew
  /\ stage' = [stage EXCEPT ![h] = "nonce"]
  /\ job' = [job EXCEPT ![h] = m]
  /\ seen' = [seen EXCEPT ![h] = m.timestamp]
  /\ UNCHANGED <<identities, nonce_store, nonce_ops, now, admitted, first, acted>>

\* authenticate up to the nonce: the account's key is looked up, the clock is
\* read, the timestamp must be within Skew of it and the signature must verify
\* under the key.  A refusal changes nothing, so it is not a step.
Authenticate(h, m) ==
  /\ stage[h] = "idle"
  /\ Verifies(IdentityPubkey(m.account), m)
  /\ m.timestamp + Skew >= now
  /\ m.timestamp <= now + Skew
  /\ stage' = [stage EXCEPT ![h] = "nonce"]
  /\ job' = [job EXCEPT ![h] = m]
  /\ seen' = [seen EXCEPT ![h] = now]
  /\ UNCHANGED <<identities, nonce_store, nonce_ops, now, admitted, first, acted>>

\* check_and_record_nonce: INSERT ... ON CONFLICT DO UPDATE WHERE expires_at <=
\* the reading, one atomic statement; the request passes when a row was
\* written.  Every PruneInterval-th call purges first.
CheckAndRecordNonce(h) ==
  LET m == job[h]
      fresh == ~Stored(m.nonce) \/ nonce_store[m.nonce] <= seen[h]
      due == nonce_ops = PruneInterval - 1 IN
  /\ stage[h] = "nonce"
  /\ nonce_ops' = (nonce_ops + 1) % PruneInterval
  /\ \/ /\ fresh
        /\ nonce_store' = [nonce_store EXCEPT ![m.nonce] = seen[h] + TTL]
        /\ admitted' = [admitted EXCEPT ![m] = admitted[m] + 1]
        /\ first' = [first EXCEPT ![m] = IF admitted[m] = 0 THEN seen[h] ELSE first[m]]
        /\ stage' = [stage EXCEPT ![h] = IF due THEN "purge" ELSE "handle"]
        /\ UNCHANGED <<job, seen>>
     \/ /\ ~fresh
        /\ UNCHANGED <<nonce_store, admitted, first>>
        /\ IF due THEN stage' = [stage EXCEPT ![h] = "prune"] /\ UNCHANGED <<job, seen>>
                  ELSE Finish(h)
  /\ UNCHANGED <<identities, now, acted>>

\* purge_expired_nonces with the handler's clock reading.
PurgeExpired(h) ==
  /\ nonce_store' = Purged(seen[h])
  /\ \/ /\ stage[h] = "purge"
        /\ stage' = [stage EXCEPT ![h] = "handle"]
        /\ UNCHANGED <<job, seen>>
     \/ /\ stage[h] = "prune"
        /\ Finish(h)
  /\ UNCHANGED <<identities, nonce_ops, now, admitted, first, acted>>

\* Wrong variant: whoever is authenticated may act on any account.
EnsureAnyAccount(m) == m.account \in AccountIds

\* ensure_account: the account that signed is the one the request is about.
EnsureAccount(m) == m.account = m.target

\* An authenticated handler: the request reaches the ledger, or is forbidden.
Handle(h) ==
  /\ stage[h] = "handle"
  /\ acted' = IF EnsureAccount(job[h]) THEN acted \cup {job[h]} ELSE acted
  /\ Finish(h)
  /\ UNCHANGED <<identities, nonce_store, nonce_ops, now, admitted, first>>

\* A pool or SQL error, or a client that goes away, ends the check early.
Abort(h) ==
  /\ stage[h] # "idle"
  /\ Finish(h)
  /\ UNCHANGED <<identities, nonce_store, nonce_ops, now, admitted, first, acted>>

\* Wrong variant: the store is emptied when the process starts.
RestartForgets ==
  /\ nonce_store' = [n \in Nonces |-> 0]
  /\ nonce_ops' = 0
  /\ stage' = [h \in Handlers |-> "idle"]
  /\ job' = [h \in Handlers |-> NoRequest]
  /\ seen' = [h \in Handlers |-> 0]
  /\ UNCHANGED <<identities, now, admitted, first, acted>>

\* The process dies and starts again: connect purges with the time it starts.
Restart ==
  /\ nonce_store' = Purged(now)
  /\ nonce_ops' = 0
  /\ stage' = [h \in Handlers |-> "idle"]
  /\ job' = [h \in Handlers |-> NoRequest]
  /\ seen' = [h \in Handlers |-> 0]
  /\ UNCHANGED <<identities, now, admitted, first, acted>>

Next ==
  \/ Tick
  \/ \E a \in AccountIds, k \in Keys : Register(a, k)
  \/ \E h \in Handlers : \E m \in Requests : Authenticate(h, m)
  \/ \E h \in Handlers : CheckAndRecordNonce(h) \/ PurgeExpired(h) \/ Handle(h) \/ Abort(h)
  \/ Restart

Spec == Init /\ [][Next]_vars

-----------------------------------------------------------------------------
(* Properties *)

\* The tables and the handlers' memory hold values of their types.
TypeOK ==
  /\ identities \in [AccountIds -> Keys \cup {NoKey}]
  /\ nonce_store \in [Nonces -> Nat]
  /\ nonce_ops \in 0..(PruneInterval - 1)
  /\ now \in 1..(MaxTime + 1)
  /\ stage \in [Handlers -> {"idle", "nonce", "purge", "prune", "handle"}]
  /\ job \in [Handlers -> Requests \cup {NoRequest}]
  /\ seen \in [Handlers -> 0..now]
  /\ admitted \in [Requests -> Nat]
  /\ first \in [Requests -> 0..now]
  /\ acted \subseteq Requests

\* How often a request can pass, however often it is delivered: every further
\* passage comes TTL - MaxStall or more after the one before, since the nonce must
\* expire and a handler that read the clock before that may still insert it, and
\* the last one lies in the window; whatever purges, restarts and handlers run
\* between.
ReplayBound ==
  \A m \in Requests : admitted[m] > 0 =>
    first[m] + (admitted[m] - 1) * (TTL - MaxStall) <= m.timestamp + Skew

\* All requests that ever acted on an account were signed with one key, whatever
\* keys were registered, for whatever accounts, and whichever account a request
\* claims: nobody takes over an account.
OneKeyPerAccount ==
  \A m, n \in acted : m.target = n.target => m.key = n.key

\* A request passes at most twice, and a second time only if the first was at
\* the opening of its window, give or take the stall.
OneReplayAtMost ==
  \A m \in Requests :
    /\ admitted[m] <= 2
    /\ admitted[m] = 2 => first[m] + Skew <= m.timestamp + MaxStall
=============================================================================
