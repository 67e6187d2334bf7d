------------------------------ MODULE KeyStore ------------------------------
(***************************************************************************)
(* The bank's key directory over starts, crashes and restarts              *)
(* (digicash-bank: keys.rs, tls.rs and main.rs), and what depends on it:   *)
(* coins are signed under the denomination keys, and the TLS identities of *)
(* the bank and of its wallets hang on the CA key.                         *)
(*                                                                         *)
(* The private keys are files that are created once and loaded at every    *)
(* later start.  exists, open with truncation, and write are separate      *)
(* steps of a process, and nothing keeps a second process of the server    *)
(* from starting on the same directory; it may find the port taken, after  *)
(* it has loaded or created its keys, or serve on a port of its own.       *)
(***************************************************************************)
EXTENDS Naturals

CONSTANTS Processes,
          Denominations,
          Ca,            \* the file of the CA key
          N, Order,      \* the N key files in the order a start visits them
          KeyIds,        \* key pairs; a generated one is a new one
          Absent, Torn,  \* no file; an empty or partly written one
          NoKey

Files == Denominations \cup {Ca}

ASSUME ConstantsAssumption ==
  /\ N \in Nat \ {0, 1}
  /\ Order \in [1..N -> Files]
  /\ \A f \in Files : \E i \in 1..N : Order[i] = f
  /\ \A i \in 1..N : Order[i] = Ca <=> i = N
  /\ Ca \notin Denominations
  /\ {Absent, Torn, NoKey} \cap KeyIds = {}
  /\ Absent # Torn

Stages == {"down", "load", "create", "write", "recover", "publish", "bind", "serving"}

\* What a wallet blinds or holds: the denomination and the key it is under.
Units == [denom : Denominations, key : KeyIds]

VARIABLES
  files,       \* the key files
  caCert,      \* ca-cert.pem: the CA key that signed it
  stage,       \* what a process does next
  pos,         \* the file it is at
  keys,        \* the keys it has in memory
  fresh,       \* keys nobody has generated yet
  pins,        \* the CA keys of the ca-cert.pem copies wallets were given
  certs,       \* the CA keys of the identities issued to wallets
  blinded,     \* messages wallets have blinded under a published key
  pending,     \* messages recorded and debited and not signed yet
  coins,       \* coins whose signature unblinded
  refused,     \* history: messages that did not unblind, coins not verified
  turnedAway,  \* history: pins and certs a handshake failed for
  overwritten  \* history: files that were complete and written over

disk   == <<files, caCert>>
memory == <<stage, pos, keys>>
world  == <<pins, certs, blinded, pending, coins, refused, turnedAway>>
vars   == <<files, caCert, stage, pos, keys, fresh, pins, certs, blinded, pending,
            coins, refused, turnedAway, overwritten>>

NoKeys == [f \in Files |-> NoKey]

Init ==
  /\ files = [f \in Files |-> Absent]
  /\ caCert = NoKey
  /\ stage = [p \in Processes |-> "down"]
  /\ pos = [p \in Processes |-> 1]
  /\ keys = [p \in Processes |-> NoKeys]
  /\ fresh = KeyIds
  /\ pins = {} /\ certs = {} /\ blinded = {} /\ pending = {} /\ coins = {}
  /\ refused = {} /\ turnedAway = {} /\ overwritten = {}

-----------------------------------------------------------------------------
\* key_path: the file the process is at.
File(p) == Order[pos[p]]

Goto(p, s) == stage' = [stage EXCEPT ![p] = s]

\* The process ends, with an error or killed, and its memory is gone.
Exit(p) ==
  /\ stage' = [stage EXCEPT ![p] = "down"]
  /\ pos' = [pos EXCEPT ![p] = 1]
  /\ keys' = [keys EXCEPT ![p] = NoKeys]

\* A key is in memory.  After the last denomination Bank::connect recovers the
\* withdrawals; after the CA key the certificates are made.
Advance(p, k) ==
  /\ keys' = [keys EXCEPT ![p][File(p)] = k]
  /\ IF pos[p] = N
       THEN Goto(p, "publish") /\ UNCHANGED pos
       ELSE /\ pos' = [pos EXCEPT ![p] = pos[p] + 1]
            /\ Goto(p, IF pos[p] + 1 = N THEN "recover" ELSE "load")

\* A complete file is about to lose its content.
NoteOverwrite(f) ==
  overwritten' = IF files[f] \in KeyIds THEN overwritten \cup {f} ELSE overwritten

\* The signature verifies under the key in memory; so does the unblinded
\* signature of a message if it was blinded under that key.
Verifies(p, u) == keys[p][u.denom] = u.key

\* A handshake succeeds between a certificate of CA key k and the process: the
\* server's certificate chains to the CA the wallet pins, and on the value port
\* the wallet's to the CA of the server.
Handshake(p, k) == keys[p][Ca] = k

\* Some wallet has an identity the value port accepts.
Connected(p) == stage[p] = "serving" /\ \E k \in certs : Handshake(p, k)

-----------------------------------------------------------------------------
\* main.
Start(p) ==
  /\ stage[p] = "down"
  /\ Goto(p, "load")
  /\ UNCHANGED <<disk, pos, keys, fresh, world, overwritten>>

\* Wrong variant: the file is not looked for.
LoadKeyAlwaysCreates(p) ==
  /\ stage[p] = "load"
  /\ Goto(p, "create")
  /\ UNCHANGED <<disk, pos, keys, fresh, world, overwritten>>

\* load_or_create: the key of a complete file is loaded, one that does not
\* parse ends the start, and a missing one is to be created.
LoadKey(p) ==
  /\ stage[p] = "load"
  /\ \/ /\ files[File(p)] \in KeyIds
        /\ Advance(p, files[File(p)])
     \/ /\ files[File(p)] = Torn
        /\ Exit(p)
     \/ /\ files[File(p)] = Absent
        /\ Goto(p, "create")
        /\ UNCHANGED <<pos, keys>>
  /\ UNCHANGED <<disk, fresh, world, overwritten>>

\* Wrong variant: the new key is kept in memory and not written.
CreateKeyInMemory(p) ==
  \E k \in fresh :
    /\ stage[p] = "create"
    /\ fresh' = fresh \ {k}
    /\ Advance(p, k)
    /\ UNCHANGED <<disk, world, overwritten>>

\* create_key: a key pair is generated, and fs::write opens the file, which it
\* truncates whatever it holds by now ...
CreateKey(p) ==
  \E k \in fresh :
    /\ stage[p] = "create"
    /\ fresh' = fresh \ {k}
    /\ keys' = [keys EXCEPT ![p][File(p)] = k]
    /\ files' = [files EXCEPT ![File(p)] = Torn]
    /\ NoteOverwrite(File(p))
    /\ Goto(p, "write")
    /\ UNCHANGED <<caCert, pos, world>>

\* Wrong variant: an error of the write is not noticed.
WriteKeyLost(p) ==
  /\ stage[p] = "write"
  /\ Advance(p, keys[p][File(p)])
  /\ UNCHANGED <<disk, fresh, world, overwritten>>

\* ... and writes the key.  Over what another process has written since, the
\* tail of a longer PEM may stay behind; CA keys are all of one length.
WriteKey(p) ==
  LET f == File(p) IN
  /\ stage[p] = "write"
  /\ \/ files' = [files EXCEPT ![f] = keys[p][f]]
     \/ files[f] \in KeyIds /\ f # Ca /\ files' = [files EXCEPT ![f] = Torn]
  /\ NoteOverwrite(f)
  /\ Advance(p, keys[p][f])
  /\ UNCHANGED <<caCert, fresh, world>>

\* recover_withdrawals signs what an earlier run has left pending.
Recover(p) ==
  /\ stage[p] = "recover"
  /\ coins' = coins \cup {u \in pending : Verifies(p, u)}
  /\ refused' = refused \cup {u \in pending : ~Verifies(p, u)}
  /\ pending' = {}
  /\ Goto(p, "load")
  /\ UNCHANGED <<disk, pos, keys, fresh, pins, certs, blinded, turnedAway, overwritten>>

\* Wrong variant: the certificate is signed with a key of its own.
PublishCertOwnKey(p) ==
  \E k \in fresh :
    /\ stage[p] = "publish"
    /\ caCert' = k
    /\ fresh' = fresh \ {k}
    /\ Goto(p, "bind")
    /\ UNCHANGED <<files, pos, keys, world, overwritten>>

\* CertAuthority::load_or_create: the CA certificate is made anew under the CA
\* key and replaces ca-cert.pem by a rename, so a reader sees a whole file; the
\* server's certificate is made under the same key.
PublishCert(p) ==
  /\ stage[p] = "publish"
  /\ caCert' = keys[p][Ca]
  /\ Goto(p, "bind")
  /\ UNCHANGED <<files, pos, keys, fresh, world, overwritten>>

\* bound: each process is given its addresses, so it serves beside another one,
\* or finds them taken by it and ends.
Bind(p) ==
  /\ stage[p] = "bind"
  /\ \/ Goto(p, "serving") /\ UNCHANGED <<pos, keys>>
     \/ (\E q \in Processes : stage[q] = "serving") /\ Exit(p)
  /\ UNCHANGED <<disk, fresh, world, overwritten>>

\* An I/O, key or configuration error, or the end of the process, wherever it
\* is; in fs::write the file stays torn.
Fail(p) ==
  /\ stage[p] # "down"
  /\ Exit(p)
  /\ UNCHANGED <<disk, fresh, world, overwritten>>

-----------------------------------------------------------------------------
\* A wallet is given a copy of ca-cert.pem.
Pin ==
  /\ caCert # NoKey
  /\ pins' = pins \cup {caCert}
  /\ UNCHANGED <<disk, memory, fresh, certs, blinded, pending, coins, refused,
                 turnedAway, overwritten>>

\* issue_client_identity: the certificate is signed with the CA key in memory.
IssueClientIdentity(p) == keys[p][Ca]

\* POST /register over the pinned server: the wallet gets a client certificate
\* and the CA certificate, both of the server's CA key.
Enroll(p, k) ==
  /\ stage[p] = "serving"
  /\ k \in pins
  /\ Handshake(p, k)
  /\ certs' = certs \cup {IssueClientIdentity(p)}
  /\ UNCHANGED <<disk, memory, fresh, pins, blinded, pending, coins, refused,
                 turnedAway, overwritten>>

\* A wallet's handshake with the server fails, at enrollment or after it.
TurnAway(p, k) ==
  /\ stage[p] = "serving"
  /\ k \in pins \cup certs
  /\ ~Handshake(p, k)
  /\ turnedAway' = turnedAway \cup {k}
  /\ UNCHANGED <<disk, memory, fresh, pins, certs, blinded, pending, coins, refused,
                 overwritten>>

\* GET /denominations: the wallet blinds under a published key ...
Blind(p, d) ==
  /\ Connected(p)
  /\ blinded' = blinded \cup {[denom |-> d, key |-> keys[p][d]]}
  /\ UNCHANGED <<disk, memory, fresh, pins, certs, pending, coins, refused,
                 turnedAway, overwritten>>

\* ... and POST /withdraw debits it and records it as pending ...
Record(p, u) ==
  /\ Connected(p)
  /\ u \in blinded
  /\ pending' = pending \cup {u}
  /\ UNCHANGED <<disk, memory, fresh, pins, certs, blinded, coins, refused,
                 turnedAway, overwritten>>

\* ... and signs it with the key of the process; the wallet unblinds.
Sign(p, u) ==
  /\ stage[p] = "serving"
  /\ u \in pending
  /\ pending' = pending \ {u}
  /\ IF Verifies(p, u)
       THEN coins' = coins \cup {u} /\ UNCHANGED refused
       ELSE refused' = refused \cup {u} /\ UNCHANGED coins
  /\ UNCHANGED <<disk, memory, fresh, pins, certs, blinded, turnedAway, overwritten>>

\* POST /deposit of a coin whose signature does not verify (InvalidSignature).
Reject(p, u) ==
  /\ Connected(p)
  /\ u \in coins
  /\ ~Verifies(p, u)
  /\ refused' = refused \cup {u}
  /\ UNCHANGED <<disk, memory, fresh, pins, certs, blinded, pending, coins,
                 turnedAway, overwritten>>

StartUp(p) ==
  \/ LoadKey(p) \/ CreateKey(p) \/ WriteKey(p) \/ Recover(p) \/ PublishCert(p) \/ Bind(p)

Serve(p) ==
  \/ \E k \in KeyIds : Enroll(p, k) \/ TurnAway(p, k)
  \/ \E d \in Denominations : Blind(p, d)
  \/ \E u \in Units : Record(p, u) \/ Sign(p, u) \/ Reject(p, u)

Next == Pin \/ \E p \in Processes : Start(p) \/ StartUp(p) \/ Fail(p) \/ Serve(p)

Spec == Init /\ [][Next]_vars

-----------------------------------------------------------------------------
(* Properties *)

\* The directory, the processes' memory and what wallets hold have their types;
\* a process that serves has every key.
TypeOK ==
  /\ files \in [Files -> KeyIds \cup {Absent, Torn}]
  /\ caCert \in KeyIds \cup {NoKey}
  /\ stage \in [Processes -> Stages]
  /\ pos \in [Processes -> 1..N]
  /\ keys \in [Processes -> [Files -> KeyIds \cup {NoKey}]]
  /\ fresh \subseteq KeyIds
  /\ pins \subseteq KeyIds /\ certs \subseteq KeyIds
  /\ blinded \subseteq Units /\ pending \subseteq Units /\ coins \subseteq Units
  /\ refused \subseteq Units /\ turnedAway \subseteq KeyIds
  /\ overwritten \subseteq Files
  /\ \A p \in Processes : stage[p] = "serving" => \A f \in Files : keys[p][f] \in KeyIds

\* A key is used only after its file is complete, and no crash or failed start
\* takes the file away again: a torn file, on which load_key fails at every
\* later start, is never one that a message, a coin, a pinned or an issued
\* certificate depends on.  The only way out is a file written over by a second
\* process that had looked before it existed.
KeysInUseOnDisk ==
  /\ \A u \in blinded \cup pending \cup coins :
       u.denom \notin overwritten => files[u.denom] = u.key
  /\ \A k \in pins \cup certs : Ca \notin overwritten => files[Ca] = k

\* What an earlier run promised a later one keeps, unless the key's file was
\* written over: a message debited is signed with the key it was blinded under,
\* by a handler or by the recovery of a later start, a coin verifies in all later
\* runs, and a wallet that has pinned any ca-cert.pem or holds any issued identity
\* is accepted by all of them ("any version validates because the CA key is
\* stable", tls.rs).
HonouredLater ==
  /\ \A u \in refused : u.denom \in overwritten
  /\ turnedAway # {} => Ca \in overwritten

\* Once every key file is complete and no process is creating one, the files
\* never change again, whatever starts and fails.
Settled ==
  /\ \A f \in Files : files[f] \in KeyIds
  /\ \A p \in Processes : stage[p] \notin {"create", "write"}

SettledKeysStay == [][Settled => files' = files /\ Settled']_vars
=============================================================================
